-------------------------- MODULE ValueEditorProofs --------------------------
(***************************************************************************)
(* Proofs about ValueEditor.tla, for every key, every set of names and     *)
(* values and every bound: the types, whatever other processes do; that a  *)
(* rename never loses the value when there is no other process; and, of a  *)
(* careful user, that the stacks, the list and the dialogs stay in step    *)
(* with the values of the key.                                             *)
(***************************************************************************)
EXTENDS ValueEditorProps, FiniteSetTheorems, SequenceTheorems, WellFoundedInduction, TLAPS

-----------------------------------------------------------------------------
(* Values and rows.                                                        *)

(* A set of positions of a sequence has a size no larger than its length.  *)
LEMMA PositionsCount ==
  ASSUME NEW s \in Seq(Nat), NEW P \in SUBSET DOMAIN s
  PROVE  Cardinality(P) \in 0 .. Len(s)
<1>1. Len(s) \in Nat /\ DOMAIN s = 1 .. Len(s)
  BY LenProperties
<1>2. IsFiniteSet(1 .. Len(s)) /\ Cardinality(1 .. Len(s)) = Len(s)
  <2>1. 1 \in Int /\ Len(s) \in Int /\ (1 > Len(s) => Len(s) = 0) /\ Len(s) - 1 + 1 = Len(s)
    BY <1>1
  <2>2. /\ IsFiniteSet(1 .. Len(s))
        /\ Cardinality(1 .. Len(s)) = IF 1 > Len(s) THEN 0 ELSE Len(s) - 1 + 1
    BY <2>1, FS_Interval, Zenon
  <2> QED
    BY <2>1, <2>2
<1>3. IsFiniteSet(P) /\ Cardinality(P) <= Len(s)
  BY <1>1, <1>2, FS_Subset
<1>4. Cardinality(P) \in Nat
  BY <1>3, FS_CardinalityType
<1> QED
  BY <1>1, <1>3, <1>4

(* A part of a sequence is a sequence.                                     *)
LEMMA PartType ==
  ASSUME NEW s \in Seq(Nat), NEW m \in 1 .. Len(s) + 1, NEW n \in 0 .. Len(s)
  PROVE  SubSeq(s, m, n) \in Seq(Nat)
  BY SubSeqProperties

LEMMA MultiStringType ==
  ASSUME NEW s \in Seq(Nat)
  PROVE  MultiString(s) \in Seq(Nat)
<1> DEFINE P == {k \in DOMAIN s : \A j \in 1 .. k - 1 : ~EmptyAt(s, j)}
<1>1. Cardinality(P) \in 0 .. Len(s)
  BY PositionsCount
<1>2. 1 \in 1 .. Len(s) + 1
  BY LenProperties
<1> HIDE DEF P
<1>3. SubSeq(s, 1, Cardinality(P)) \in Seq(Nat)
  BY <1>1, <1>2, PartType
<1> QED
  BY <1>3 DEF MultiString, P

LEMMA TrimmedType ==
  ASSUME NEW s \in Seq(Nat)
  PROVE  Trimmed(s) \in Seq(Nat)
<1> DEFINE P == {k \in DOMAIN s : \A j \in 1 .. k : s[j] = 0}
<1>1. Cardinality(P) \in 0 .. Len(s)
  BY PositionsCount
<1> HIDE DEF P
<1>2. Cardinality(P) + 1 \in 1 .. Len(s) + 1 /\ Len(s) \in 0 .. Len(s)
  BY <1>1, LenProperties
<1>3. SubSeq(s, Cardinality(P) + 1, Len(s)) \in Seq(Nat)
  BY <1>2, PartType
<1> QED
  BY <1>3 DEF Trimmed, P

LEMMA NewSizeType ==
  ASSUME NEW s \in Seq(Nat), NEW type
  PROVE  NewSize(type, s) \in Nat
<1> DEFINE P == {k \in DOMAIN s : s[k] = 0}
<1>1. Cardinality(P) \in Nat /\ Len(s) \in Nat
  BY PositionsCount, LenProperties
<1> HIDE DEF P
<1>2. 1 + Len(s) + Cardinality(P) \in Nat
  BY <1>1
<1> QED
  BY <1>1, <1>2 DEF NewSize, P

LEMMA StoredType ==
  ASSUME NEW type \in RegType, NEW data, IsData(type, data)
  PROVE  Stored(type, data) \in KeyValue
<1>1. data \in Seq(Nat) /\ [type |-> type, data |-> data] \in Value
  BY DEF IsData, Value
<1>2. CASE type = "dword"
  <2> DEFINE d == data[1]
             low == <<ToDword(d)>>
  <2>1. Len(data) = 1 /\ d <= MaxInt
    BY <1>2 DEF IsData, IntType
  <2>2. d \in Nat
    BY <1>1, <2>1
  <2>3. 2 ^ DwordBits \in Nat \ {0} /\ MaxInt \in Int
    BY BitsAssumption, SMT DEF MaxInt
  <2>4. ToDword(d) \in Nat /\ ToDword(d) < 2 ^ DwordBits /\ ToDword(d) <= MaxInt
    <3>1. \A n \in Nat, m \in Nat \ {0} : n % m \in Nat /\ n % m < m /\ n % m <= n
      BY SMT
    <3>2. ToDword(d) \in Nat /\ ToDword(d) < 2 ^ DwordBits /\ ToDword(d) <= d
      BY <2>2, <2>3, <3>1 DEF ToDword
    <3> QED
      BY <2>1, <2>2, <2>3, <3>2
  <2> HIDE DEF d
  <2>5. low \in Seq(Nat) /\ Len(low) = 1 /\ low[1] = ToDword(d)
    BY <2>4
  <2>6. Stored(type, data) = [type |-> type, data |-> low]
    BY <1>2 DEF Stored, low, d
  <2> HIDE DEF low
  <2> QED
    BY <2>4, <2>5, <2>6 DEF KeyValue, Value, IsData
<1>3. CASE type = "multi"
  <2>1. <<0, 0>> \in Seq(Nat)
    OBVIOUS
  <2>2. MultiString(data \o <<0, 0>>) \in Seq(Nat)
    BY <1>1, <2>1, ConcatProperties, MultiStringType
  <2>3. Stored(type, data) = [type |-> type, data |-> MultiString(data \o <<0, 0>>)]
    BY <1>3 DEF Stored
  <2> QED
    BY <1>3, <2>2, <2>3 DEF KeyValue, Value, IsData, IntType
<1>4. CASE type \notin {"dword", "multi"}
  BY <1>1, <1>4 DEF Stored, KeyValue
<1> QED
  BY <1>2, <1>3, <1>4

LEMMA WritableType ==
  ASSUME NEW type \in RegType, NEW data, IsData(type, data), NEW v \in Writable(type, data)
  PROVE  v \in KeyValue
<1>1. CASE v = Stored(type, data)
  BY <1>1, StoredType
<1>2. CASE /\ type = "multi"
           /\ \E m \in Beyond :
                v = [type |-> type, data |-> MultiString(data \o <<0>> \o m \o <<0, 0>>)]
  <2>1. PICK m \in Beyond :
               v = [type |-> type, data |-> MultiString(data \o <<0>> \o m \o <<0, 0>>)]
    BY <1>2
  <2>2. data \in Seq(Nat) /\ m \in Seq(Nat) /\ <<0>> \in Seq(Nat) /\ <<0, 0>> \in Seq(Nat)
    BY ValuesAssumption DEF IsData
  <2>3. data \o <<0>> \o m \o <<0, 0>> \in Seq(Nat)
    BY <2>2, ConcatProperties
  <2>4. MultiString(data \o <<0>> \o m \o <<0, 0>>) \in Seq(Nat)
    BY <2>3, MultiStringType
  <2> QED
    BY <1>2, <2>1, <2>4 DEF KeyValue, Value, IsData, IntType
<1> QED
  BY <1>1, <1>2 DEF Writable

LEMMA WrittenType ==
  ASSUME IsKeyValues(vals), IsFiniteSet(DOMAIN vals), NEW n \in Name, NEW v \in KeyValue
  PROVE  IsKeyValues(Written(n, v)) /\ IsFiniteSet(DOMAIN Written(n, v))
<1>1. DOMAIN Written(n, v) = DOMAIN vals \union {n}
  BY DEF Written
<1>2. IsFiniteSet(DOMAIN vals \union {n})
  BY FS_AddElement
<1> QED
  BY <1>1, <1>2 DEF Written, IsKeyValues

LEMMA WithoutType ==
  ASSUME IsKeyValues(vals), IsFiniteSet(DOMAIN vals), NEW n
  PROVE  IsKeyValues(Without(n)) /\ IsFiniteSet(DOMAIN Without(n))
<1>1. DOMAIN Without(n) = DOMAIN vals \ {n}
  BY DEF Without
<1>2. IsFiniteSet(DOMAIN vals \ {n})
  BY FS_RemoveElement
<1> QED
  BY <1>1, <1>2 DEF Without, IsKeyValues

LEMMA RowType ==
  /\ \A n \in Name, v \in KeyValue : RowOf(n, v) \in Row
  /\ KeyRow \in Row
  /\ \A t \in RegType : [name |-> Default, type |-> t, size |-> 0] \in Row
<1>1. ASSUME NEW v \in KeyValue PROVE SizeOf(v) \in Nat /\ v.type \in RegType
  BY DEF SizeOf, KeyValue, Value
<1> QED
  BY <1>1, ValuesAssumption DEF RowOf, KeyRow, Row

(* Every list Update may make is a list of rows.                           *)
LEMMA ListingsType ==
  ASSUME NEW w, IsKeyValues(w), IsFiniteSet(DOMAIN w), NEW l \in Listings(w)
  PROVE  l \in Seq(Row)
<1>1. CASE DOMAIN w = {}
  <2>1. PICK t \in RegType : l = <<KeyRow, [name |-> Default, type |-> t, size |-> 0]>>
    BY <1>1 DEF Listings
  <2>2. [name |-> Default, type |-> t, size |-> 0] \in Row /\ KeyRow \in Row
    BY RowType
  <2> QED
    BY <2>1, <2>2
<1>2. CASE DOMAIN w # {}
  <2>1. PICK e \in SetToSeqs(DOMAIN w) :
          l = <<KeyRow>>
              \o (IF e[1] = Default THEN <<>> ELSE <<[name |-> Default, type |-> "sz", size |-> 0]>>)
              \o [i \in DOMAIN e |-> RowOf(e[i], w[e[i]])]
    BY <1>2 DEF Listings
  <2>2. Cardinality(DOMAIN w) \in Nat
    BY FS_CardinalityType
  <2>3. e \in [1 .. Cardinality(DOMAIN w) -> DOMAIN w]
    BY DEF SetToSeqs
  <2> DEFINE vs == [i \in DOMAIN e |-> RowOf(e[i], w[e[i]])]
             ks == <<KeyRow>>
             ds == IF e[1] = Default THEN <<>> ELSE <<[name |-> Default, type |-> "sz", size |-> 0]>>
  <2>4. vs \in Seq(Row)
    <3>1. vs \in [1 .. Cardinality(DOMAIN w) -> Row]
      BY <2>3, RowType DEF IsKeyValues
    <3> HIDE DEF vs
    <3> QED
      BY <2>2, <3>1
  <2>5. ks \in Seq(Row) /\ ds \in Seq(Row)
    <3>1. "sz" \in RegType
      BY DEF RegType, TextType
    <3> QED
      BY <3>1, RowType
  <2>6. l = ks \o ds \o vs
    BY <2>1
  <2> HIDE DEF vs, ks, ds
  <2> QED
    BY <2>4, <2>5, <2>6, ConcatProperties
<1> QED
  BY <1>1, <1>2

-----------------------------------------------------------------------------
(* Commands and stacks.                                                    *)

DataCommand == {c \in Command : c.op \in {"create", "change"}}

LEMMA CommandParts ==
  /\ \A c \in DataCommand : c.name \in Name /\ c.type \in RegType /\ IsData(c.type, c.data)
  /\ \A c \in Rename : c.op = "rename" /\ c.name \in Name /\ c.new \in Name /\ c.name # c.new
  /\ \A c \in Command : c \in DataCommand \/ c \in Rename
  BY DEF DataCommand, Command, Rename

LEMMA CommandType ==
  ASSUME NEW n \in Name, NEW type \in RegType, NEW data, IsData(type, data), NEW op \in {"create", "change"}
  PROVE  [op |-> op, name |-> n, type |-> type, data |-> data] \in DataCommand
  BY DEF DataCommand, Command, IsData

LEMMA RenameType ==
  ASSUME NEW n \in Name, NEW new \in Name, n # new
  PROVE  [op |-> "rename", name |-> n, new |-> new] \in Rename
  BY DEF Rename, Command

(* What Execute and Undo of a value command may leave behind.              *)
LEMMA OutcomeType ==
  ASSUME IsKeyValues(vals), IsFiniteSet(DOMAIN vals), NEW c \in DataCommand,
         NEW o \in Execute(c) \union UndoCommand(c)
  PROVE  IsKeyValues(o.vals) /\ IsFiniteSet(DOMAIN o.vals) /\ o.cmd \in Command
<1>1. c \in Command /\ c.name \in Name /\ c.type \in RegType /\ IsData(c.type, c.data)
  BY CommandParts DEF DataCommand
<1>2. Stored(c.type, c.data) \in KeyValue
  BY <1>1, StoredType
<1>3. IsKeyValues(Written(c.name, Stored(c.type, c.data)))
      /\ IsFiniteSet(DOMAIN Written(c.name, Stored(c.type, c.data)))
  BY <1>1, <1>2, WrittenType
<1>4. IsKeyValues(Without(c.name)) /\ IsFiniteSet(DOMAIN Without(c.name))
  BY WithoutType
<1>5. CASE o = Refused(c)
  BY <1>1, <1>5 DEF Refused, Outcome
<1>6. CASE o \in CreateValue(c) \union DeleteValue(c)
  BY <1>1, <1>3, <1>4, <1>6 DEF CreateValue, DeleteValue, Refused, Outcome
<1>7. CASE o \in ChangeValue(c) /\ o # Refused(c) /\ c.op = "change"
  <2> DEFINE d == [c EXCEPT !.data = vals[c.name].data]
  <2>1. PICK v \in Writable(c.type, c.data) :
          CanQuery(c.name, c.type) /\ o = Outcome(Written(c.name, v), d, TRUE)
    BY <1>7 DEF ChangeValue
  <2>2. c.name \in DOMAIN vals /\ vals[c.name] \in KeyValue
    BY <2>1 DEF CanQuery, IsKeyValues
  <2>3. IsData(c.type, vals[c.name].data)
    <3>1. IsData(vals[c.name].type, vals[c.name].data)
      BY <2>2 DEF KeyValue, Value
    <3>2. c.type = vals[c.name].type \/ c.type \notin IntType
      BY <2>1 DEF CanQuery, IntType, TextType
    <3> QED
      BY <3>1, <3>2 DEF IsData
  <2>4. d \in Command
    BY <1>1, <1>7, <2>3 DEF Command, IsData
  <2>5. IsKeyValues(Written(c.name, v)) /\ IsFiniteSet(DOMAIN Written(c.name, v))
    BY <1>1, WritableType, WrittenType
  <2> QED
    BY <2>1, <2>4, <2>5 DEF Outcome
<1> QED
  BY <1>1, <1>5, <1>6, <1>7 DEF Execute, UndoCommand, DataCommand

(* The last element of a non-empty list, and the rest.                     *)
LEMMA EndOfList ==
  ASSUME NEW S, NEW s \in Seq(S), s # <<>>
  PROVE  Last(s) \in S /\ Front(s) \in Seq(S)
<1>1. PICK f \in Seq(S), e \in S : s = Append(f, e)
  BY SequenceEmptyOrAppend
<1>2. Last(s) = e /\ Front(s) = f
  BY <1>1, AppendProperties DEF Last, Front
<1> QED
  BY <1>2

(* What moves a command needs the stack it comes from to have one.         *)
CanMove(by) == (by = "undo" => undoList # <<>>) /\ (by = "redo" => redoList # <<>>)

LEMMA RecordedType ==
  ASSUME undoList \in Seq(Command), redoList \in Seq(Command),
         NEW by \in {"edit", "undo", "redo"}, CanMove(by), NEW c \in Command,
         Recorded(by, c)
  PROVE  undoList' \in Seq(Command) /\ redoList' \in Seq(Command)
<1>1. CASE by = "edit"
  BY <1>1, AppendProperties, EmptySeq DEF Recorded
<1>2. CASE by = "undo"
  BY <1>2, AppendProperties, EndOfList DEF Recorded, CanMove
<1>3. CASE by = "redo"
  BY <1>3, AppendProperties, EndOfList DEF Recorded, CanMove
<1> QED
  BY <1>1, <1>2, <1>3

-----------------------------------------------------------------------------
(* The inductive invariant: the types, and that a rename in progress is    *)
(* the only thing in progress and finds the command it moves.              *)
IInv ==
  /\ TypeOK
  /\ IsFiniteSet(DOMAIN vals)
  /\ dialog = None \/ call = None
  /\ call # None => CanMove(call.by)

LEMMA NoneIsNone == /\ \A d \in Dialog : d # None
                    /\ \A k \in Call : k # None
  BY NoneAssumption

LEMMA InitInv == Init => IInv
<1> SUFFICES ASSUME Init PROVE IInv
  OBVIOUS
<1>1. IsKeyValues(vals) /\ IsFiniteSet(DOMAIN vals)
  BY ValuesAssumption DEF Init
<1>2. rows \in Seq(Row)
  BY <1>1, ListingsType DEF Init
<1> QED
  BY <1>1, <1>2, EmptySeq DEF Init, IInv, TypeOK

-----------------------------------------------------------------------------
(* Steps of one handler.                                                   *)

(* A patch of one row leaves a list of rows.                               *)
LEMMA PatchType ==
  ASSUME NEW s \in Seq(Row), NEW i
  PROVE  /\ \A n \in Name : [s EXCEPT ![i].name = n] \in Seq(Row)
         /\ \A n \in Nat : [s EXCEPT ![i].size = n] \in Seq(Row)
<1>1. CASE i \in DOMAIN s
  <2>1. s[i] \in Row
    BY <1>1, ElementOfSeq
  <2>2. /\ \A n \in Name : [s[i] EXCEPT !.name = n] \in Row
        /\ \A n \in Nat : [s[i] EXCEPT !.size = n] \in Row
    BY <2>1 DEF Row
  <2>3. \A r \in Row : [s EXCEPT ![i] = r] \in Seq(Row)
    BY <1>1, ExceptSeq
  <2>4. /\ \A n \in Name : [s EXCEPT ![i].name = n] = [s EXCEPT ![i] = [s[i] EXCEPT !.name = n]]
        /\ \A n \in Nat : [s EXCEPT ![i].size = n] = [s EXCEPT ![i] = [s[i] EXCEPT !.size = n]]
    OBVIOUS
  <2> QED
    BY <2>2, <2>3, <2>4
<1>2. CASE i \notin DOMAIN s
  <2>1. s = [j \in DOMAIN s |-> s[j]]
    OBVIOUS
  <2>2. /\ \A n \in Name : [s EXCEPT ![i].name = n] = s
        /\ \A n \in Nat : [s EXCEPT ![i].size = n] = s
    BY <1>2, <2>1, Zenon
  <2> QED
    BY <2>2
<1> QED
  BY <1>1, <1>2

LEMMA HandleNewIntValueInv ==
  ASSUME IInv, NEW n \in Name, NEW v \in Entered, HandleNewIntValue(n, v)
  PROVE  IInv'
<1> DEFINE c == [op |-> "create", name |-> n, type |-> v.type, data |-> v.data]
<1>1. v.type \in RegType /\ IsData(v.type, v.data)
  BY ValuesAssumption DEF Value
<1>2. c \in DataCommand
  BY <1>1, CommandType
<1> HIDE DEF c
<1>3. PICK o \in Execute(c) :
        /\ vals' = o.vals
        /\ \/ Recorded("edit", o.cmd) /\ rows' \in Listings(o.vals)
           \/ UNCHANGED <<lists, rows>>
  BY DEF HandleNewIntValue, c
<1>4. IsKeyValues(o.vals) /\ IsFiniteSet(DOMAIN o.vals) /\ o.cmd \in Command
  BY <1>2, OutcomeType DEF IInv, TypeOK
<1>5. undoList' \in Seq(Command) /\ redoList' \in Seq(Command) /\ rows' \in Seq(Row)
  BY <1>3, <1>4, RecordedType, ListingsType DEF IInv, TypeOK, CanMove, lists
<1>6. AtRest /\ UNCHANGED <<allowModify, dialog, call, changes>>
  BY DEF HandleNewIntValue
<1> QED
  BY <1>3, <1>4, <1>5, <1>6 DEF IInv, TypeOK, AtRest

(* What a dialog shows has the type of the row.                            *)
LEMMA ShownType ==
  ASSUME NEW row \in Row, row.type \in RegType, NEW v \in KeyValue,
         row.type = v.type \/ row.type \in TextType,
         row.type = "binary" => SizeOf(v) <= row.size
  PROVE  IsData(row.type, Shown(row, v.data))
<1> DEFINE data == v.data
<1>1. data \in Seq(Nat) /\ IsData(v.type, data) /\ Len(data) \in Nat
  BY LenProperties DEF KeyValue, Value, IsData
<1>2. CASE row.type = "multi"
  <2>1. 1 \in 1 .. Len(data) + 1 /\ Len(data) - 1 \in Int
    BY <1>1
  <2>2. SubSeq(data, 1, Len(data) - 1) \in Seq(Nat)
    <3>1. CASE Len(data) = 0
      BY <1>1, <3>1
    <3>2. CASE Len(data) # 0
      <4>1. Len(data) - 1 \in 0 .. Len(data)
        BY <1>1, <3>2
      <4> QED
        BY <1>1, <2>1, <4>1, PartType
    <3> QED
      BY <3>1, <3>2
  <2>3. Shown(row, v.data) = SubSeq(data, 1, Len(data) - 1)
    BY <1>2 DEF Shown
  <2> HIDE DEF data
  <2> QED
    BY <1>2, <2>2, <2>3 DEF IsData, IntType
<1>3. CASE row.type = "binary"
  <2> DEFINE pad == [k \in 1 .. row.size - Len(data) |-> 0]
  <2>1. row.size - Len(data) \in Nat
    BY <1>1, <1>3 DEF SizeOf, IntType, TextType, Row
  <2>2. pad \in Seq(Nat)
    BY <2>1
  <2>3. Shown(row, v.data) = data \o pad
    BY <1>3 DEF Shown
  <2> HIDE DEF pad, data
  <2>4. data \o pad \in Seq(Nat)
    BY <1>1, <2>2, ConcatProperties
  <2> QED
    BY <1>3, <2>3, <2>4 DEF IsData, IntType
<1>4. CASE row.type \notin {"multi", "binary"}
  <2>1. Shown(row, data) = data
    BY <1>4 DEF Shown
  <2> QED
    BY <1>1, <2>1 DEF IsData, IntType, TextType
<1> QED
  BY <1>2, <1>3, <1>4

LEMMA OnModifyValueInv ==
  ASSUME IInv, NEW i \in DOMAIN rows, OnModifyValue(i)
  PROVE  IInv'
<1> DEFINE row == rows[i]
           v   == vals[row.name]
           sh  == Shown(row, v.data)
<1>1. /\ AtRest /\ row.type # "key" /\ CanQuery(row.name, row.type) /\ FitsRow(row)
      /\ dialog' = [row |-> i, name |-> row.name, type |-> row.type, shown |-> sh]
      /\ UNCHANGED <<vals, rows, lists, allowModify, call, changes>>
  BY DEF OnModifyValue
<1>2. i \in Nat /\ row \in Row /\ row.name \in Name /\ row.type \in RegType
  <2>1. rows \in Seq(Row)
    BY DEF IInv, TypeOK
  <2>2. i \in 1 .. Len(rows) /\ Len(rows) \in Nat /\ row \in Row
    BY <2>1, ElementOfSeq, LenProperties
  <2> HIDE DEF row
  <2> QED
    BY <1>1, <2>2 DEF Row
<1>3. v \in KeyValue /\ (row.type = v.type \/ row.type \in TextType)
  BY <1>1 DEF CanQuery, IInv, TypeOK, IsKeyValues
<1>4. row.type = "binary" => SizeOf(v) <= row.size
  BY <1>1 DEF FitsRow
<1> HIDE DEF v, row
<1>5. IsData(row.type, sh)
  BY <1>2, <1>3, <1>4, ShownType
<1> HIDE DEF sh
<1>6. dialog' \in Dialog
  BY <1>1, <1>2, <1>5 DEF Dialog, IsData
<1> QED
  BY <1>1, <1>6 DEF IInv, TypeOK, AtRest, lists

LEMMA DeliveredType ==
  ASSUME IInv, dialog # None, NEW data \in Delivered
  PROVE  IsData(dialog.type, data)
<1>1. dialog \in Dialog /\ IsData(dialog.type, dialog.shown)
  BY DEF IInv, TypeOK, Dialog
<1>2. CASE \E v \in Entered : v.type = dialog.type /\ data = v.data
  BY <1>2, ValuesAssumption DEF Value
<1>3. CASE data = dialog.shown
  BY <1>1, <1>3
<1>4. CASE \E v \in 0 .. MaxInt : data = <<v>>
  <2>1. PICK v \in 0 .. MaxInt : data = <<v>>
    BY <1>4
  <2>2. MaxInt \in Int
    BY BitsAssumption, SMT DEF MaxInt
  <2>3. v \in Nat /\ v <= MaxInt /\ Len(<<v>>) = 1 /\ <<v>>[1] = v /\ <<v>> \in Seq(Nat)
    BY <2>2
  <2> QED
    BY <2>1, <2>3 DEF IsData
<1> QED
  BY <1>2, <1>3, <1>4 DEF Delivered, Rereadings

LEMMA CloseDialogInv ==
  ASSUME IInv, dialog # None, NEW data \in Delivered, CloseDialog(data)
  PROVE  IInv'
<1> DEFINE text == IF dialog.type = "multi" THEN Trimmed(data) ELSE data
           c == [op |-> "change", name |-> dialog.name, type |-> dialog.type, data |-> text]
<1>1. dialog \in Dialog /\ call = None
  BY DEF IInv, TypeOK
<1>2. c \in DataCommand
  <2>1. IsData(dialog.type, data)
    BY DeliveredType
  <2>2. IsData(dialog.type, text)
    BY <2>1, TrimmedType DEF IsData, IntType
  <2> HIDE DEF text
  <2> QED
    BY <1>1, <2>2, CommandType DEF Dialog
<1> HIDE DEF c
<1>3. PICK o \in Execute(c) :
        /\ vals' = o.vals
        /\ \/ /\ Recorded("edit", o.cmd)
              /\ rows' = rows \/ rows' = [rows EXCEPT ![dialog.row].size = NewSize(dialog.type, data)]
           \/ UNCHANGED <<lists, rows>>
  BY DEF CloseDialog, c
<1>4. IsKeyValues(o.vals) /\ IsFiniteSet(DOMAIN o.vals) /\ o.cmd \in Command
  BY <1>2, OutcomeType DEF IInv, TypeOK
<1>5. NewSize(dialog.type, data) \in Nat
  BY DeliveredType, NewSizeType DEF IsData
<1>6. /\ undoList' \in Seq(Command) /\ redoList' \in Seq(Command)
      /\ rows' \in Seq(Row)
  <2>1. undoList' \in Seq(Command) /\ redoList' \in Seq(Command)
    BY <1>3, <1>4, RecordedType DEF IInv, TypeOK, CanMove, lists
  <2>2. rows \in Seq(Row)
    BY DEF IInv, TypeOK
  <2>3. [rows EXCEPT ![dialog.row].size = NewSize(dialog.type, data)] \in Seq(Row)
    BY <1>5, <2>2, PatchType
  <2> QED
    BY <1>3, <2>1, <2>2, <2>3
<1>7. dialog' = None /\ UNCHANGED <<allowModify, call, changes>>
  BY DEF CloseDialog
<1> QED
  BY <1>1, <1>3, <1>4, <1>6, <1>7 DEF IInv, TypeOK

-----------------------------------------------------------------------------
(* The steps of a rename, by whichever handler it was started.             *)

(* What FinishRename does, whether the rename worked or not.               *)
Finished(k) ==
  /\ call' = None
  /\ \/ Recorded(k.by, [k.cmd EXCEPT !.name = k.cmd.new, !.new = k.cmd.name])
     \/ UNCHANGED lists
  /\ \/ rows' \in Listings(vals')
     \/ rows' = rows
     \/ rows' = [rows EXCEPT ![k.row].name = k.cmd.new]

LEMMA FinishedInv ==
  ASSUME IInv, IsKeyValues(vals'), IsFiniteSet(DOMAIN vals'),
         UNCHANGED <<allowModify, dialog, changes>>,
         NEW k, k.by \in {"edit", "undo", "redo"}, CanMove(k.by), k.cmd \in Rename,
         Finished(k)
  PROVE  IInv'
<1> DEFINE d == [k.cmd EXCEPT !.name = k.cmd.new, !.new = k.cmd.name]
<1>1. k.cmd.name \in Name /\ k.cmd.new \in Name /\ k.cmd.name # k.cmd.new
  BY CommandParts
<1>2. d \in Command
  BY <1>1 DEF Rename, Command
<1> HIDE DEF d
<1>3. call' = None /\ (Recorded(k.by, d) \/ UNCHANGED lists)
  BY DEF Finished, d
<1>4. undoList' \in Seq(Command) /\ redoList' \in Seq(Command)
  BY <1>2, <1>3, RecordedType DEF IInv, TypeOK, lists
<1>5. rows' \in Seq(Row)
  <2>1. rows \in Seq(Row)
    BY DEF IInv, TypeOK
  <2>2. [rows EXCEPT ![k.row].name = k.cmd.new] \in Seq(Row)
    BY <1>1, <2>1, PatchType
  <2>3. ASSUME rows' \in Listings(vals') PROVE rows' \in Seq(Row)
    BY <2>3, ListingsType
  <2> QED
    BY <2>1, <2>2, <2>3 DEF Finished
<1> QED
  BY <1>3, <1>4, <1>5 DEF IInv, TypeOK

LEMMA StartRenameInv ==
  ASSUME IInv, AtRest, NEW by \in {"edit", "undo", "redo"}, CanMove(by),
         NEW row \in Nat, NEW c \in Rename, StartRename(by, row, c)
  PROVE  IInv'
<1> DEFINE k == [by |-> by, row |-> row, cmd |-> c, wrote |-> FALSE]
<1>1. UNCHANGED <<vals, allowModify, dialog, changes>>
  BY DEF StartRename
<1>2. CASE FinishRename(k, FALSE)
  <2>1. k.by = by /\ k.cmd = c
    OBVIOUS
  <2>2. Finished(k)
    BY <1>2 DEF FinishRename, Finished
  <2>3. IsKeyValues(vals') /\ IsFiniteSet(DOMAIN vals')
    BY <1>1 DEF IInv, TypeOK, IsKeyValues
  <2> HIDE DEF k
  <2> QED
    BY <1>1, <2>1, <2>2, <2>3, FinishedInv
<1>3. CASE /\ c.name \in DOMAIN vals /\ UNCHANGED <<rows, lists>>
           /\ call' = [by |-> by, row |-> row, cmd |-> c, read |-> vals[c.name], wrote |-> FALSE]
  <2>1. vals[c.name] \in KeyValue
    BY <1>3 DEF IInv, TypeOK, IsKeyValues
  <2>2. call' \in Call /\ call'.by = by
    BY <1>3, <2>1 DEF Call
  <2> QED
    BY <1>1, <1>3, <2>2 DEF IInv, TypeOK, AtRest, lists, CanMove
<1> QED
  BY <1>2, <1>3 DEF StartRename

LEMMA RenameStepInv ==
  ASSUME IInv, RenameStep
  PROVE  IInv'
<1>1. /\ call \in Call /\ CanMove(call.by) /\ call.cmd \in Rename /\ call.read \in KeyValue
      /\ call.by \in {"edit", "undo", "redo"} /\ dialog = None
  BY DEF RenameStep, IInv, TypeOK, Call
<1>2. UNCHANGED <<allowModify, dialog, changes>>
  BY DEF RenameStep
<1>3. CASE /\ vals' = Written(call.cmd.new, call.read)
           /\ call' = [call EXCEPT !.wrote = TRUE] /\ UNCHANGED <<rows, lists>>
  <2>1. IsKeyValues(vals') /\ IsFiniteSet(DOMAIN vals')
    BY <1>1, <1>3, CommandParts, WrittenType DEF IInv, TypeOK
  <2>2. call' \in Call /\ call'.by = call.by
    BY <1>1, <1>3 DEF Call
  <2> QED
    BY <1>1, <1>2, <1>3, <2>1, <2>2 DEF IInv, TypeOK, lists, CanMove
<1>4. CASE vals' = Without(call.cmd.name) /\ FinishRename(call, TRUE)
  <2>1. IsKeyValues(vals') /\ IsFiniteSet(DOMAIN vals')
    BY <1>4, WithoutType DEF IInv, TypeOK
  <2>2. Finished(call)
    BY <1>4 DEF FinishRename, Finished
  <2> QED
    BY <1>1, <1>2, <2>1, <2>2, FinishedInv
<1>5. CASE UNCHANGED vals /\ FinishRename(call, FALSE)
  <2>1. IsKeyValues(vals') /\ IsFiniteSet(DOMAIN vals')
    BY <1>5 DEF IInv, TypeOK, IsKeyValues
  <2>2. Finished(call)
    BY <1>5 DEF FinishRename, Finished
  <2> QED
    BY <1>1, <1>2, <2>1, <2>2, FinishedInv
<1> QED
  BY <1>3, <1>4, <1>5 DEF RenameStep

LEMMA OnEndRenameInv ==
  ASSUME IInv, NEW i \in DOMAIN rows, NEW x \in Name, OnEndRename(i, x)
  PROVE  IInv'
<1>1. rows \in Seq(Row)
  BY DEF IInv, TypeOK
<1>2. i \in Nat /\ rows[i] \in Row
  BY <1>1, ElementOfSeq, LenProperties
<1>3. rows[i].name \in Name /\ rows[i].name # x /\ AtRest
  BY <1>2 DEF OnEndRename, Row
<1>4. [op |-> "rename", name |-> rows[i].name, new |-> x] \in Rename
  BY <1>3, RenameType
<1> QED
  BY <1>2, <1>3, <1>4, StartRenameInv DEF OnEndRename, CanMove

-----------------------------------------------------------------------------
(* Undo, Redo and the other steps.                                         *)

LEMMA RerunInv ==
  ASSUME IInv, AtRest, NEW by \in {"undo", "redo"}, CanMove(by), NEW c \in Command,
         NEW outcomes, c \in DataCommand => outcomes \subseteq Execute(c) \union UndoCommand(c),
         Rerun(by, c, outcomes)
  PROVE  IInv'
<1>1. CASE c \in Rename
  <2>1. StartRename(by, 0, c)
    BY <1>1, CommandParts DEF Rerun
  <2> QED
    BY <1>1, <2>1, StartRenameInv
<1>2. CASE c \in DataCommand
  <2>1. PICK o \in Execute(c) \union UndoCommand(c) :
          /\ vals' = o.vals
          /\ Recorded(by, o.cmd) \/ UNCHANGED lists
          /\ rows' \in Listings(vals')
          /\ UNCHANGED <<allowModify, dialog, call, changes>>
    BY <1>2 DEF Rerun, DataCommand
  <2>2. IsKeyValues(o.vals) /\ IsFiniteSet(DOMAIN o.vals) /\ o.cmd \in Command
    BY <1>2, OutcomeType DEF IInv, TypeOK
  <2>3. undoList' \in Seq(Command) /\ redoList' \in Seq(Command)
    BY <2>1, <2>2, RecordedType DEF IInv, TypeOK, lists
  <2>4. rows' \in Seq(Row)
    BY <2>1, <2>2, ListingsType
  <2> QED
    BY <2>1, <2>2, <2>3, <2>4 DEF IInv, TypeOK, AtRest
<1> QED
  BY <1>1, <1>2, CommandParts

LEMMA UndoRedoInv ==
  ASSUME IInv, OnEditUndo \/ OnEditRedo
  PROVE  IInv'
<1>1. undoList \in Seq(Command) /\ redoList \in Seq(Command)
  BY DEF IInv, TypeOK
<1>2. CASE OnEditUndo
  <2> DEFINE c == Last(undoList)
  <2>1. AtRest /\ undoList # <<>> /\ Rerun("undo", c, UndoCommand(c))
    BY <1>2 DEF OnEditUndo
  <2>2. c \in Command /\ CanMove("undo")
    BY <1>1, <2>1, EndOfList DEF CanMove
  <2> HIDE DEF c
  <2> QED
    BY <2>1, <2>2, RerunInv
<1>3. CASE OnEditRedo
  <2> DEFINE c == Last(redoList)
  <2>1. AtRest /\ redoList # <<>> /\ Rerun("redo", c, Execute(c))
    BY <1>3 DEF OnEditRedo
  <2>2. c \in Command /\ CanMove("redo")
    BY <1>1, <2>1, EndOfList DEF CanMove
  <2> HIDE DEF c
  <2> QED
    BY <2>1, <2>2, RerunInv
<1> QED
  BY <1>2, <1>3

LEMMA LookInv ==
  ASSUME IInv, CancelDialog \/ OnRefresh \/ OnEditModify
  PROVE  IInv'
<1>1. CASE CancelDialog
  BY <1>1 DEF CancelDialog, IInv, TypeOK, lists, CanMove
<1>2. CASE OnRefresh
  <2>1. rows' \in Seq(Row)
    BY <1>2, ListingsType DEF OnRefresh, IInv, TypeOK
  <2> QED
    BY <1>2, <2>1 DEF OnRefresh, AtRest, IInv, TypeOK, lists
<1>3. CASE OnEditModify
  BY <1>3 DEF OnEditModify, AtRest, IInv, TypeOK, lists
<1> QED
  BY <1>1, <1>2, <1>3

LEMMA OtherInv ==
  ASSUME IInv, NEW w, IsKeyValues(w), IsFiniteSet(DOMAIN w), Other(w)
  PROVE  IInv'
  BY DEF Other, IInv, TypeOK, lists, CanMove

LEMMA NextAloneInv == IInv /\ NextAlone => IInv'
<1> SUFFICES ASSUME IInv, NextAlone PROVE IInv'
  OBVIOUS
<1>1. CASE Edit
  BY <1>1, OnModifyValueInv, CloseDialogInv, UndoRedoInv, LookInv DEF Edit
<1>2. CASE RenameStep
  BY <1>2, RenameStepInv
<1>3. CASE \E n \in Name, v \in Entered : HandleNewIntValue(n, v)
  BY <1>3, HandleNewIntValueInv
<1>4. CASE \E i \in DOMAIN rows, x \in Name : OnEndRename(i, x)
  BY <1>4, OnEndRenameInv
<1> QED
  BY <1>1, <1>2, <1>3, <1>4 DEF NextAlone

LEMMA StutterInv == IInv /\ UNCHANGED vars => IInv'
  BY DEF vars, IInv, TypeOK, CanMove

LEMMA NextInv == IInv /\ [Next]_vars => IInv'
<1> SUFFICES ASSUME IInv, Next PROVE IInv'
  BY StutterInv
<1>1. CASE \E n \in Name, v \in Entered : Other(Written(n, Stored(v.type, v.data)))
  <2>1. PICK n \in Name, v \in Entered : Other(Written(n, Stored(v.type, v.data)))
    BY <1>1
  <2>2. Stored(v.type, v.data) \in KeyValue
    BY ValuesAssumption, StoredType DEF Value
  <2>3. /\ IsKeyValues(Written(n, Stored(v.type, v.data)))
        /\ IsFiniteSet(DOMAIN Written(n, Stored(v.type, v.data)))
    BY <2>2, WrittenType DEF IInv, TypeOK
  <2> QED
    BY <2>1, <2>3, OtherInv
<1>2. CASE \E n \in DOMAIN vals : Other(Without(n))
  BY <1>2, WithoutType, OtherInv DEF IInv, TypeOK
<1> QED
  BY <1>1, <1>2, NextAloneInv DEF Next

(* Values, rows, commands, the open dialog and the rename in progress keep *)
(* their types, and no REG_DWORD outgrows its bits, whatever the user      *)
(* types, whatever fails and whatever other processes write.               *)
THEOREM ValuesKeepTheirTypes == Spec => []TypeOK
<1>1. IInv => TypeOK
  BY DEF IInv
<1> QED
  BY <1>1, InitInv, NextInv, PTL DEF Spec

-----------------------------------------------------------------------------
(* With no other process: the value that is being renamed is under its old *)
(* name all the time, and under the new one too once it was written.       *)
Held ==
  call # None =>
    /\ call.cmd.name \in DOMAIN vals /\ vals[call.cmd.name] = call.read
    /\ call.wrote => call.cmd.new \in DOMAIN vals /\ vals[call.cmd.new] = call.read

LEMMA StartRenameHeld ==
  ASSUME IInv, NEW by, NEW row, NEW c, StartRename(by, row, c)
  PROVE  Held'
<1> DEFINE k == [by |-> by, row |-> row, cmd |-> c, read |-> vals[c.name], wrote |-> FALSE]
<1>1. UNCHANGED vals
  BY DEF StartRename
<1>2. CASE call' = None
  BY <1>2 DEF Held
<1>3. CASE c.name \in DOMAIN vals /\ call' = k
  <2>1. k.cmd = c /\ k.read = vals[c.name] /\ ~k.wrote
    OBVIOUS
  <2> HIDE DEF k
  <2> QED
    BY <1>1, <1>3, <2>1 DEF Held
<1> QED
  BY <1>2, <1>3 DEF StartRename, FinishRename

LEMMA RenameStepHeld ==
  ASSUME IInv, Held, RenameStep
  PROVE  /\ Held'
         /\ \E n \in {call.cmd.name, call.cmd.new} : n \in DOMAIN vals' /\ vals'[n] = call.read
<1>1. /\ call # None /\ call \in Call /\ call.cmd.name # call.cmd.new
      /\ call.cmd.name \in DOMAIN vals /\ vals[call.cmd.name] = call.read
      /\ call.wrote => call.cmd.new \in DOMAIN vals /\ vals[call.cmd.new] = call.read
  BY CommandParts DEF RenameStep, IInv, TypeOK, Held, Call
<1>2. CASE vals' = Written(call.cmd.new, call.read) /\ call' = [call EXCEPT !.wrote = TRUE]
  <2>1. /\ call.cmd.name \in DOMAIN vals' /\ vals'[call.cmd.name] = call.read
        /\ call.cmd.new \in DOMAIN vals' /\ vals'[call.cmd.new] = call.read
    BY <1>1, <1>2 DEF Written
  <2>2. call'.cmd = call.cmd /\ call'.read = call.read
    BY <1>1, <1>2 DEF Call
  <2> QED
    BY <2>1, <2>2 DEF Held
<1>3. CASE call.wrote /\ vals' = Without(call.cmd.name) /\ call' = None
  <2>1. call.cmd.new \in DOMAIN vals' /\ vals'[call.cmd.new] = call.read
    BY <1>1, <1>3 DEF Without
  <2> QED
    BY <1>3, <2>1 DEF Held
<1>4. CASE UNCHANGED vals /\ call' = None
  BY <1>1, <1>4 DEF Held
<1> QED
  BY <1>2, <1>3, <1>4 DEF RenameStep, FinishRename

LEMMA NextAloneHeld ==
  ASSUME IInv, Held, NextAlone
  PROVE  /\ Held'
         /\ call # None =>
              \E n \in {call.cmd.name, call.cmd.new} : n \in DOMAIN vals' /\ vals'[n] = call.read
<1>1. CASE RenameStep
  BY <1>1, RenameStepHeld
<1>2. CASE call = None /\ UNCHANGED call
  BY <1>2 DEF Held
<1>3. CASE call = None /\ \E by, row, c : StartRename(by, row, c)
  BY <1>3, StartRenameHeld
<1>4. CASE Edit
  <2>1. CASE \E i \in DOMAIN rows : OnModifyValue(i)
    BY <1>2, <2>1 DEF OnModifyValue, AtRest
  <2>2. CASE CancelDialog \/ OnRefresh \/ OnEditModify
    BY <1>2, <2>2 DEF CancelDialog, OnRefresh, OnEditModify, AtRest, IInv
  <2>3. CASE dialog # None /\ \E data \in Delivered : CloseDialog(data)
    BY <1>2, <2>3 DEF CloseDialog, IInv
  <2>4. CASE OnEditUndo \/ OnEditRedo
    BY <1>2, <1>3, <2>4 DEF OnEditUndo, OnEditRedo, Rerun, AtRest
  <2> QED
    BY <1>4, <2>1, <2>2, <2>3, <2>4 DEF Edit
<1>5. CASE \E n \in Name, v \in Entered : HandleNewIntValue(n, v)
  BY <1>2, <1>5 DEF HandleNewIntValue, AtRest
<1>6. CASE \E i \in DOMAIN rows, x \in Name : OnEndRename(i, x)
  BY <1>3, <1>6 DEF OnEndRename, AtRest
<1> QED
  BY <1>1, <1>4, <1>5, <1>6 DEF NextAlone

(* RenameValue never loses a value: while no other process interferes, and *)
(* wherever it fails, what it read is there under one of the two names,    *)
(* even when the new name was taken and the user did not look.             *)
THEOREM RenameNeverLosesValue == SpecAlone => RenameKeepsValue
<1>1. Init => Held
  BY DEF Init, Held
<1>2. (IInv /\ Held) /\ [NextAlone]_vars => (IInv /\ Held)'
  BY NextAloneInv, NextAloneHeld, StutterInv DEF vars, Held
<1>3. (IInv /\ Held) /\ [NextAlone]_vars =>
        [call # None => \E n \in {call.cmd.name, call.cmd.new} :
                          n \in DOMAIN vals' /\ vals'[n] = call.read]_vars
  BY NextAloneHeld
<1> QED
  BY <1>1, <1>2, <1>3, InitInv, PTL DEF SpecAlone, RenameKeepsValue

-----------------------------------------------------------------------------
(* What the program writes can be read, shown and written again.           *)

(* A set of numbers has a least one.                                       *)
LEMMA LeastNumber ==
  ASSUME NEW T \in SUBSET Nat, T # {}
  PROVE  \E n \in T : \A k \in T : n <= k
<1> DEFINE R == {ss \in Nat \X Nat : ss[1] < ss[2]}
<1>1. IsWellFoundedOn(R, Nat)
  BY NatLessThanWellFounded DEF OpToRel
<1>2. ASSUME NEW x \in Nat, NEW y \in Nat, y < x PROVE <<y, x>> \in R
  BY <1>2
<1> HIDE DEF R
<1>3. PICK n \in T : \A k \in T : <<k, n>> \notin R
  BY <1>1, WFMin
<1>4. ASSUME NEW k \in T PROVE n <= k
  <2>1. n \in Nat /\ k \in Nat /\ ~(k < n)
    BY <1>2, <1>3
  <2> QED
    BY <2>1
<1> QED
  BY <1>4

(* A list of strings, up to and with the empty one that ends it.           *)
Ended(s) ==
  /\ s \in Seq(Nat) /\ Len(s) > 0 /\ EmptyAt(s, Len(s))
  /\ \A j \in 1 .. Len(s) - 1 : ~EmptyAt(s, j)

LEMMA MultiStringIs ==
  ASSUME NEW s \in Seq(Nat), NEW i \in 1 .. Len(s), EmptyAt(s, i),
         \A j \in 1 .. i - 1 : ~EmptyAt(s, j)
  PROVE  /\ MultiString(s) = SubSeq(s, 1, i)
         /\ MultiString(s) \in Seq(Nat) /\ Len(MultiString(s)) = i
         /\ \A j \in 1 .. i : MultiString(s)[j] = s[j]
<1>1. Len(s) \in Nat /\ DOMAIN s = 1 .. Len(s)
  BY LenProperties
<1>2. PICK P : P = {k \in DOMAIN s : \A j \in 1 .. k - 1 : ~EmptyAt(s, j)}
  OBVIOUS
<1>3. P = 1 .. i
  <2>1. ASSUME NEW k \in P PROVE k \in 1 .. i
    <3>1. k \in 1 .. Len(s) /\ \A j \in 1 .. k - 1 : ~EmptyAt(s, j)
      BY <1>1, <1>2
    <3>2. i \notin 1 .. k - 1
      BY <3>1
    <3> QED
      BY <1>1, <3>1, <3>2
  <2>2. ASSUME NEW k \in 1 .. i PROVE k \in P
    <3>1. k \in DOMAIN s
      BY <1>1
    <3>2. \A j \in 1 .. k - 1 : j \in 1 .. i - 1
      BY <1>1
    <3> QED
      BY <1>2, <3>1, <3>2
  <2> QED
    BY <2>1, <2>2
<1>4. Cardinality(1 .. i) = i
  <2>1. 1 \in Int /\ i \in Int /\ ~(1 > i) /\ i - 1 + 1 = i
    BY <1>1
  <2>2. Cardinality(1 .. i) = IF 1 > i THEN 0 ELSE i - 1 + 1
    BY <2>1, FS_Interval, Zenon
  <2> QED
    BY <2>1, <2>2
<1>5. MultiString(s) = SubSeq(s, 1, i)
  BY <1>2, <1>3, <1>4 DEF MultiString
<1>6. PICK t : t = SubSeq(s, 1, i)
  OBVIOUS
<1>7. 1 \in 1 .. Len(s) + 1 /\ i \in 0 .. Len(s)
  BY <1>1
<1>8. t \in Seq(Nat) /\ Len(t) = i /\ \A j \in 1 .. i : t[j] = s[j]
  BY <1>1, <1>6, <1>7, SubSeqProperties
<1> QED
  BY <1>5, <1>6, <1>8

(* What SetMultiStringValue finds is a list that ends, however it is       *)
(* found, as long as there is an empty string.                             *)
LEMMA MultiStringEnds ==
  ASSUME NEW s \in Seq(Nat), NEW k \in 1 .. Len(s), EmptyAt(s, k)
  PROVE  Ended(MultiString(s))
<1> DEFINE T == {j \in 1 .. Len(s) : EmptyAt(s, j)}
<1>1. T \in SUBSET Nat /\ T # {} /\ Len(s) \in Nat
  BY LenProperties
<1>2. PICK i \in T : \A j \in T : i <= j
  BY <1>1, LeastNumber
<1>3. i \in 1 .. Len(s) /\ EmptyAt(s, i)
  OBVIOUS
<1>4. ASSUME NEW j \in 1 .. i - 1 PROVE ~EmptyAt(s, j)
  <2>1. j \in 1 .. Len(s) /\ ~(i <= j)
    BY <1>1, <1>3
  <2>2. j \notin T
    BY <1>2, <2>1
  <2> QED
    BY <2>1, <2>2
<1> HIDE DEF T
<1>5. PICK t : t = MultiString(s)
  OBVIOUS
<1>6. t \in Seq(Nat) /\ Len(t) = i /\ \A j \in 1 .. i : t[j] = s[j]
  BY <1>3, <1>4, <1>5, MultiStringIs
<1>7. \A j \in 1 .. i : EmptyAt(t, j) <=> EmptyAt(s, j)
  <2> SUFFICES ASSUME NEW j \in 1 .. i PROVE EmptyAt(t, j) <=> EmptyAt(s, j)
    OBVIOUS
  <2>1. t[j] = s[j] /\ (j # 1 => t[j - 1] = s[j - 1])
    BY <1>3, <1>6
  <2> QED
    BY <2>1 DEF EmptyAt
<1>8. i > 0 /\ i \in 1 .. i /\ \A j \in 1 .. i - 1 : j \in 1 .. i
  BY <1>3
<1> QED
  BY <1>3, <1>4, <1>5, <1>6, <1>7, <1>8 DEF Ended

LEMMA EndedAgain ==
  ASSUME NEW d, Ended(d), NEW r \in Seq(Nat)
  PROVE  MultiString(d \o r) = d
<1>1. d \in Seq(Nat) /\ Len(d) \in Nat /\ Len(r) \in Nat /\ Len(d) > 0
  BY LenProperties DEF Ended
<1>2. PICK s : s = d \o r
  OBVIOUS
<1>3. s \in Seq(Nat) /\ Len(s) = Len(d) + Len(r) /\ \A j \in 1 .. Len(d) : s[j] = d[j]
  BY <1>1, <1>2, ConcatProperties
<1>4. \A j \in 1 .. Len(d) : EmptyAt(s, j) <=> EmptyAt(d, j)
  <2> SUFFICES ASSUME NEW j \in 1 .. Len(d) PROVE EmptyAt(s, j) <=> EmptyAt(d, j)
    OBVIOUS
  <2>1. s[j] = d[j] /\ (j # 1 => s[j - 1] = d[j - 1])
    <3>1. j # 1 => j - 1 \in 1 .. Len(d)
      BY <1>1
    <3> QED
      BY <1>3, <3>1
  <2> QED
    BY <2>1 DEF EmptyAt
<1>5. Len(d) \in 1 .. Len(s) /\ EmptyAt(s, Len(d)) /\ \A j \in 1 .. Len(d) - 1 : ~EmptyAt(s, j)
  <2>1. Len(d) \in 1 .. Len(s) /\ Len(d) \in 1 .. Len(d)
    BY <1>1, <1>3
  <2>2. \A j \in 1 .. Len(d) - 1 : j \in 1 .. Len(d)
    BY <1>1
  <2> QED
    BY <1>4, <2>1, <2>2 DEF Ended
<1>6. PICK t : t = MultiString(s)
  OBVIOUS
<1>7. t \in Seq(Nat) /\ Len(t) = Len(d) /\ \A j \in 1 .. Len(d) : t[j] = s[j]
  BY <1>3, <1>5, <1>6, MultiStringIs
<1>8. t = d
  BY <1>1, <1>3, <1>7, SeqEqual
<1> QED
  BY <1>2, <1>6, <1>8

(* Two zeros in a row, or one at the start, end a list.                    *)
LEMMA ZerosEnd ==
  ASSUME NEW s \in Seq(Nat)
  PROVE  LET t == s \o <<0, 0>> IN t \in Seq(Nat) /\ \E k \in 1 .. Len(t) : EmptyAt(t, k)
<1>1. PICK z : z = <<0, 0>>
  OBVIOUS
<1>2. z \in Seq(Nat) /\ Len(z) = 2 /\ z[1] = 0 /\ z[2] = 0
  BY <1>1
<1>3. PICK t : t = s \o z
  OBVIOUS
<1>4. Len(s) \in Nat /\ t \in Seq(Nat) /\ Len(t) = Len(s) + 2
      /\ t[Len(s) + 1] = z[1] /\ t[Len(s) + 2] = z[2]
  <2>1. Len(s) \in Nat /\ t \in Seq(Nat) /\ Len(t) = Len(s) + 2
    <3>1. t \in Seq(Nat) /\ Len(t) = Len(s) + Len(z)
      BY <1>2, <1>3, ConcatProperties
    <3> QED
      BY <1>2, <3>1, LenProperties
  <2>2. \A i \in 1 .. Len(t) : t[i] = IF i <= Len(s) THEN s[i] ELSE z[i - Len(s)]
    BY <1>2, <1>3, ConcatProperties
  <2>3. Len(s) + 1 \in 1 .. Len(t) /\ Len(s) + 2 \in 1 .. Len(t)
        /\ ~(Len(s) + 1 <= Len(s)) /\ ~(Len(s) + 2 <= Len(s))
        /\ Len(s) + 1 - Len(s) = 1 /\ Len(s) + 2 - Len(s) = 2
    BY <2>1
  <2> QED
    BY <2>1, <2>2, <2>3
<1>5. Len(s) + 2 \in 1 .. Len(t) /\ Len(s) + 2 - 1 = Len(s) + 1
  BY <1>4
<1>6. EmptyAt(t, Len(s) + 2)
  BY <1>2, <1>4, <1>5 DEF EmptyAt
<1> QED
  BY <1>1, <1>3, <1>4, <1>5, <1>6

(* A value as the program writes it.                                       *)
Neat(v) == v \in KeyValue /\ (v.type = "multi" => Ended(v.data))

LEMMA ValueParts ==
  ASSUME NEW v \in KeyValue
  PROVE  /\ v.type \in RegType /\ IsData(v.type, v.data) /\ v.data \in Seq(Nat)
         /\ v = [type |-> v.type, data |-> v.data]
         /\ v.type = "dword" => v.data[1] < 2 ^ DwordBits
  BY DEF KeyValue, Value

LEMMA WrittenIsNeat ==
  ASSUME NEW type \in RegType, NEW data, IsData(type, data),
         NEW v \in Writable(type, data) \union {Stored(type, data)}
  PROVE  /\ Neat(v) /\ v.type = type
         /\ type \notin {"dword", "multi"} => v.data = data
<1>1. v \in KeyValue
  BY StoredType, WritableType
<1>2. v.type = type
  BY DEF Writable, Stored
<1>3. CASE type = "multi"
  <2>1. data \in Seq(Nat) /\ <<0>> \in Seq(Nat)
    BY DEF IsData
  <2>2. PICK s \in Seq(Nat) : v.data = MultiString(s \o <<0, 0>>)
    <3>1. CASE v = Stored(type, data)
      BY <1>3, <2>1, <3>1 DEF Stored
    <3>2. CASE \E m \in Beyond :
                 v = [type |-> type, data |-> MultiString(data \o <<0>> \o m \o <<0, 0>>)]
      <4>1. PICK m \in Beyond :
                 v = [type |-> type, data |-> MultiString(data \o <<0>> \o m \o <<0, 0>>)]
        BY <3>2
      <4>2. data \o <<0>> \o m \in Seq(Nat)
        BY <2>1, ValuesAssumption, ConcatProperties
      <4> QED
        BY <4>1, <4>2
    <3> QED
      BY <3>1, <3>2 DEF Writable
  <2>3. PICK t : t = s \o <<0, 0>>
    OBVIOUS
  <2>4. t \in Seq(Nat) /\ \E k \in 1 .. Len(t) : EmptyAt(t, k)
    BY <2>3, ZerosEnd
  <2>5. Ended(MultiString(t))
    BY <2>4, MultiStringEnds
  <2> QED
    BY <1>1, <1>2, <1>3, <2>2, <2>3, <2>5 DEF Neat
<1>4. CASE type # "multi"
  BY <1>1, <1>2, <1>4 DEF Writable, Stored, Neat
<1> QED
  BY <1>3, <1>4

(* Written again, a value stays what it is.                                *)
LEMMA NeatAgain ==
  ASSUME NEW v, Neat(v)
  PROVE  Writable(v.type, v.data) = {v} /\ Stored(v.type, v.data) = v
<1>1. /\ v.type \in RegType /\ IsData(v.type, v.data) /\ v.data \in Seq(Nat)
      /\ v = [type |-> v.type, data |-> v.data]
      /\ v.type = "dword" => v.data[1] < 2 ^ DwordBits
  BY ValueParts DEF Neat
<1>2. PICK data : data = v.data
  OBVIOUS
<1>3. CASE v.type = "multi"
  <2>1. Ended(data) /\ data \in Seq(Nat) /\ Len(data) > 0
    BY <1>2, <1>3 DEF Neat, Ended
  <2>2. MultiString(data \o <<0, 0>>) = data
    <3>1. <<0, 0>> \in Seq(Nat)
      OBVIOUS
    <3> QED
      BY <2>1, <3>1, EndedAgain
  <2>3. Stored(v.type, v.data) = [type |-> "multi", data |-> data]
    BY <1>2, <1>3, <2>2 DEF Stored
  <2>4. 0 \in Range(data)
    <3>1. Len(data) \in DOMAIN data /\ data[Len(data)] = 0
      BY <2>1, LenProperties DEF Ended, EmptyAt
    <3> QED
      BY <3>1 DEF Range
  <2>5. Writable(v.type, v.data) = {Stored(v.type, v.data)}
    BY <1>2, <2>4 DEF Writable
  <2> QED
    BY <1>1, <1>2, <1>3, <2>3, <2>5
<1>4. CASE v.type = "dword"
  <2>1. data \in Seq(Nat) /\ Len(data) = 1 /\ data[1] < 2 ^ DwordBits
    BY <1>1, <1>2, <1>4 DEF IsData, IntType
  <2>2. PICK n : n = data[1]
    OBVIOUS
  <2>3. n \in Nat /\ data = <<n>>
    <3>1. n \in Nat
      BY <2>1, <2>2
    <3>2. PICK t : t = <<n>>
      OBVIOUS
    <3>3. t \in Seq(Nat) /\ Len(t) = 1 /\ t[1] = n
      BY <3>1, <3>2
    <3>4. \A i \in 1 .. 1 : i = 1
      OBVIOUS
    <3>5. data = t
      BY <2>1, <2>2, <3>3, <3>4, SeqEqual
    <3> QED
      BY <3>1, <3>2, <3>5
  <2>4. ToDword(n) = n
    <3>1. PICK d : d = 2 ^ DwordBits
      OBVIOUS
    <3>2. d \in Nat \ {0} /\ n < d
      BY <2>1, <2>2, <3>1, BitsAssumption
    <3>3. n % d = n
      BY <2>3, <3>2
    <3> QED
      BY <3>1, <3>3 DEF ToDword
  <2>5. Stored(v.type, v.data) = [type |-> "dword", data |-> data]
    BY <1>2, <1>4, <2>2, <2>3, <2>4 DEF Stored
  <2>6. Writable(v.type, v.data) = {Stored(v.type, v.data)}
    BY <1>4 DEF Writable
  <2> QED
    BY <1>1, <1>2, <1>4, <2>5, <2>6
<1>5. CASE v.type \notin {"multi", "dword"}
  <2>1. Stored(v.type, v.data) = v
    BY <1>1, <1>5 DEF Stored
  <2> QED
    BY <1>5, <2>1 DEF Writable
<1> QED
  BY <1>3, <1>4, <1>5

(* A list of strings, shown with ends of lines and read again.             *)
LEMMA LinesAgain ==
  ASSUME NEW d, Ended(d), NEW lines, lines = SubSeq(d, 1, Len(d) - 1), lines # <<>>
  PROVE  Writable("multi", Trimmed(lines)) = {[type |-> "multi", data |-> d]}
<1>1. PICK n : n = Len(d) - 1
  OBVIOUS
<1>2. d \in Seq(Nat) /\ Len(d) \in Nat /\ n \in Nat /\ Len(d) = n + 1
  BY <1>1, LenProperties DEF Ended
<1>3. lines \in Seq(Nat) /\ Len(lines) = n /\ \A i \in 1 .. n : lines[i] = d[i]
  <2>1. 1 \in 1 .. Len(d) + 1 /\ n \in 0 .. Len(d)
    BY <1>2
  <2>2. lines = SubSeq(d, 1, n)
    BY <1>1
  <2> QED
    BY <1>2, <2>1, <2>2, SubSeqProperties
<1>4. n > 0
  <2>1. CASE n = 0
    BY <1>3, <2>1, EmptySeq
  <2> QED
    BY <1>2, <2>1
<1>5. d[1] # 0 /\ d[n + 1] = 0 /\ d[n] = 0
  <2>1. ~EmptyAt(d, 1) /\ EmptyAt(d, n + 1)
    <3>1. 1 \in 1 .. Len(d) - 1
      BY <1>2, <1>4
    <3> QED
      BY <1>2, <3>1 DEF Ended
  <2>2. d[1] = 0 => EmptyAt(d, 1)
    BY DEF EmptyAt
  <2>4. PICK i : i = n + 1
    OBVIOUS
  <2>5. i # 1 /\ i - 1 = n
    BY <1>2, <1>4, <2>4
  <2>6. EmptyAt(d, i)
    BY <2>1, <2>4
  <2>7. d[i] = 0 /\ d[i - 1] = 0
    BY <2>5, <2>6 DEF EmptyAt
  <2>8. d[i - 1] = d[n]
    BY <2>5
  <2> QED
    BY <2>1, <2>2, <2>4, <2>7, <2>8
<1>6. 1 \in 1 .. n /\ n \in 1 .. n
  BY <1>2, <1>4
<1>7. lines[1] # 0 /\ lines[n] = 0
  BY <1>3, <1>5, <1>6
<1>8. Trimmed(lines) = lines
  <2>1. PICK P : P = {k \in DOMAIN lines : \A j \in 1 .. k : lines[j] = 0}
    OBVIOUS
  <2>2. P = {}
    <3> SUFFICES ASSUME NEW k \in P PROVE FALSE
      OBVIOUS
    <3>1. k \in 1 .. n /\ \A j \in 1 .. k : lines[j] = 0
      BY <1>3, <2>1, LenProperties
    <3>2. 1 \in 1 .. k
      BY <1>2, <3>1
    <3> QED
      BY <1>7, <3>1, <3>2
  <2>3. Cardinality(P) = 0
    BY <2>2, FS_EmptySet
  <2>4. Trimmed(lines) = SubSeq(lines, 1, Len(lines))
    <3>1. Cardinality(P) + 1 = 1
      BY <2>3
    <3> QED
      BY <2>1, <3>1 DEF Trimmed
  <2>5. PICK t : t = SubSeq(lines, 1, Len(lines))
    OBVIOUS
  <2>6. t \in Seq(Nat) /\ Len(t) = Len(lines) /\ \A i \in 1 .. Len(lines) : t[i] = lines[i]
    <3>1. 1 \in 1 .. Len(lines) + 1 /\ n \in 0 .. Len(lines) /\ Len(lines) = n
      BY <1>2, <1>3
    <3> QED
      BY <1>3, <2>5, <3>1, SubSeqProperties
  <2>7. t = lines
    BY <1>3, <2>6, SeqEqual
  <2> QED
    BY <2>4, <2>5, <2>7
<1>9. 0 \in Range(lines)
  <2>1. n \in DOMAIN lines
    BY <1>3, <1>6, LenProperties
  <2> QED
    BY <1>7, <2>1 DEF Range
<1>10. MultiString(lines \o <<0, 0>>) = d
  <2>1. PICK z : z = <<0, 0>>
    OBVIOUS
  <2>2. z \in Seq(Nat) /\ Len(z) = 2 /\ z[1] = 0
    BY <2>1
  <2>3. PICK s : s = lines \o z
    OBVIOUS
  <2>4. PICK w : w = d \o <<0>>
    OBVIOUS
  <2>5. /\ s \in Seq(Nat) /\ Len(s) = n + 2
        /\ \A i \in 1 .. Len(s) : s[i] = IF i <= n THEN lines[i] ELSE z[i - n]
    <3>1. s \in Seq(Nat) /\ Len(s) = Len(lines) + Len(z)
      BY <1>3, <2>2, <2>3, ConcatProperties
    <3>2. \A i \in 1 .. Len(s) : s[i] = IF i <= Len(lines) THEN lines[i] ELSE z[i - Len(lines)]
      BY <1>3, <2>2, <2>3, ConcatProperties
    <3> QED
      BY <1>3, <2>2, <3>1, <3>2
  <2>6. \A i \in 1 .. n + 1 : s[i] = d[i]
    <3> SUFFICES ASSUME NEW i \in 1 .. n + 1 PROVE s[i] = d[i]
      OBVIOUS
    <3>1. CASE i = n + 1
      <4>1. s[i] = z[1]
        BY <1>2, <2>5, <3>1
      <4> QED
        BY <1>5, <2>2, <3>1, <4>1
    <3>2. CASE i # n + 1
      <4>1. i \in 1 .. n /\ i \in 1 .. Len(s) /\ i <= n
        BY <1>2, <2>5, <3>2
      <4> QED
        BY <1>3, <2>5, <4>1
    <3> QED
      BY <3>1, <3>2
  <2>7. \A j \in 1 .. n + 1 : EmptyAt(s, j) <=> EmptyAt(d, j)
    <3> SUFFICES ASSUME NEW j \in 1 .. n + 1 PROVE EmptyAt(s, j) <=> EmptyAt(d, j)
      OBVIOUS
    <3>1. j # 1 => j - 1 \in 1 .. n + 1
      BY <1>2
    <3>2. s[j] = d[j] /\ (j # 1 => s[j - 1] = d[j - 1])
      BY <2>6, <3>1
    <3> QED
      BY <3>2 DEF EmptyAt
  <2>8. n + 1 \in 1 .. Len(s) /\ EmptyAt(s, n + 1) /\ \A j \in 1 .. n : ~EmptyAt(s, j)
    <3>1. n + 1 \in 1 .. Len(s) /\ n + 1 \in 1 .. n + 1 /\ \A j \in 1 .. n : j \in 1 .. n + 1
      BY <1>2, <2>5
    <3>2. EmptyAt(d, n + 1) /\ \A j \in 1 .. n : ~EmptyAt(d, j)
      BY <1>2 DEF Ended
    <3> QED
      BY <2>7, <3>1, <3>2
  <2>9. PICK t : t = MultiString(s)
    OBVIOUS
  <2>10. t \in Seq(Nat) /\ Len(t) = n + 1 /\ \A j \in 1 .. n + 1 : t[j] = s[j]
    <3>1. PICK i : i = n + 1
      OBVIOUS
    <3>2. i \in 1 .. Len(s) /\ EmptyAt(s, i)
      BY <2>8, <3>1
    <3>3. \A j \in 1 .. i - 1 : ~EmptyAt(s, j)
      BY <1>2, <2>8, <3>1
    <3>4. t \in Seq(Nat) /\ Len(t) = i /\ \A j \in 1 .. i : t[j] = s[j]
      BY <2>5, <2>9, <3>2, <3>3, MultiStringIs
    <3> QED
      BY <3>1, <3>4
  <2>11. t = d
    BY <1>2, <2>6, <2>10, SeqEqual
  <2> QED
    BY <2>1, <2>3, <2>9, <2>11
<1>11. Writable("multi", lines) = {Stored("multi", lines)}
  BY <1>9 DEF Writable
<1>12. Stored("multi", lines) = [type |-> "multi", data |-> d]
  BY <1>10 DEF Stored
<1> QED
  BY <1>8, <1>11, <1>12

-----------------------------------------------------------------------------
(* The list shows the values.                                              *)

(* Row tells the type and size of value n of w; of a multi-string, whose   *)
(* size the text of its dialog sets, the type alone.                       *)
Tells(row, n, w) ==
  \/ row = RowOf(n, w[n])
  \/ row.name = n /\ row.type = "multi" /\ w[n].type = "multi"

(* The rows of the keys and the one Update adds for the default value.     *)
Added(row) == row.name = Default /\ row.type \in {"key", "sz"}

(* Every value has one row, and it tells what the value is.                *)
RowsFit(r, w) ==
  /\ \A n \in DOMAIN w : \E i \in DOMAIN r : Tells(r[i], n, w)
  /\ \A i \in DOMAIN r : \/ r[i].name \in DOMAIN w /\ Tells(r[i], r[i].name, w)
                         \/ Added(r[i])
                         \/ r[i].name = Default /\ Default \notin DOMAIN w
  /\ \A i, k \in DOMAIN r : r[i].name = r[k].name /\ i # k => Added(r[i]) \/ Added(r[k])
  /\ \E i \in DOMAIN r : r[i].name = Default

LEMMA ListingsFit ==
  ASSUME NEW w, IsKeyValues(w), IsFiniteSet(DOMAIN w), NEW l \in Listings(w)
  PROVE  RowsFit(l, w)
<1>1. PICK S : S = DOMAIN w
  OBVIOUS
<1>2. KeyRow.name = Default /\ Added(KeyRow) /\ KeyRow \in Row
  BY RowType DEF KeyRow, Added
<1>3. CASE S = {}
  <2>1. PICK t \in RegType : l = <<KeyRow, [name |-> Default, type |-> t, size |-> 0]>>
    BY <1>1, <1>3 DEF Listings
  <2>2. DOMAIN l = {1, 2} /\ l[1] = KeyRow /\ l[2].name = Default
    BY <2>1
  <2>3. \A i \in DOMAIN l : l[i].name = Default
    BY <1>2, <2>2
  <2>4. ASSUME NEW i \in DOMAIN l, NEW k \in DOMAIN l, i # k
        PROVE  Added(l[i]) \/ Added(l[k])
    BY <1>2, <2>2, <2>4
  <2> QED
    BY <1>1, <1>3, <2>2, <2>3, <2>4 DEF RowsFit
<1>4. CASE S # {}
  <2>1. PICK d : d = [name |-> Default, type |-> "sz", size |-> 0]
    OBVIOUS
  <2>2. d \in Row /\ d.name = Default /\ Added(d)
    <3>1. "sz" \in RegType
      BY DEF RegType, TextType
    <3> QED
      BY <2>1, <3>1, RowType DEF Added
  <2>3. PICK e \in SetToSeqs(S) :
          l = <<KeyRow>> \o (IF e[1] = Default THEN <<>> ELSE <<d>>)
                \o [i \in DOMAIN e |-> RowOf(e[i], w[e[i]])]
    BY <1>1, <1>4, <2>1 DEF Listings
  <2>4. PICK n : n = Cardinality(S)
    OBVIOUS
  <2>5. n \in Nat /\ IsFiniteSet(S)
    BY <1>1, <2>4, FS_CardinalityType
  <2>6. e \in [1 .. n -> S] /\ \A i, j \in 1 .. n : i # j => e[i] # e[j]
    BY <2>4 DEF SetToSeqs
  <2>7. \A x \in S : \E i \in 1 .. n : e[i] = x
    <3>1. Cardinality(1 .. n) = n
      <4>1. 1 \in Int /\ n \in Int /\ (1 > n => n = 0) /\ n - 1 + 1 = n
        BY <2>5
      <4>2. Cardinality(1 .. n) = IF 1 > n THEN 0 ELSE n - 1 + 1
        BY <4>1, FS_Interval, Zenon
      <4> QED
        BY <4>1, <4>2
    <3>2. e \in Injection(1 .. n, S)
      BY <2>6 DEF Injection, IsInjective
    <3>3. e \in Surjection(1 .. n, S)
      BY <2>4, <2>5, <3>1, <3>2, FS_Injection
    <3> QED
      BY <3>3 DEF Surjection
  <2>8. PICK vs : vs = [i \in DOMAIN e |-> RowOf(e[i], w[e[i]])]
    OBVIOUS
  <2>9. /\ vs \in Seq(Row) /\ Len(vs) = n
        /\ \A j \in 1 .. n : vs[j] = RowOf(e[j], w[e[j]])
    <3>1. \A j \in 1 .. n : vs[j] = RowOf(e[j], w[e[j]])
      BY <2>6, <2>8
    <3>2. \A j \in 1 .. n : RowOf(e[j], w[e[j]]) \in Row
      BY <1>1, <2>6, RowType DEF IsKeyValues
    <3>3. vs = [j \in 1 .. n |-> vs[j]]
      BY <2>6, <2>8
    <3>4. vs \in [1 .. n -> Row]
      BY <3>1, <3>2, <3>3
    <3> QED
      BY <2>5, <3>1, <3>4
  <2>10. PICK hs : hs = <<KeyRow>> \o (IF e[1] = Default THEN <<>> ELSE <<d>>)
    OBVIOUS
  <2>11. /\ hs \in Seq(Row) /\ Len(hs) \in {1, 2}
         /\ \A i \in 1 .. Len(hs) : Added(hs[i]) /\ hs[i].name = Default
    <3>1. CASE e[1] = Default
      <4>1. hs = <<KeyRow>>
        BY <1>2, <2>10, <3>1
      <4>2. hs \in Seq(Row) /\ Len(hs) = 1 /\ hs[1] = KeyRow
        BY <1>2, <4>1
      <4>3. \A i \in 1 .. 1 : i = 1
        OBVIOUS
      <4> QED
        BY <1>2, <4>2, <4>3
    <3>2. CASE e[1] # Default
      <4>1. PICK a, b : a = <<KeyRow>> /\ b = <<d>>
        OBVIOUS
      <4>2. /\ a \in Seq(Row) /\ Len(a) = 1 /\ a[1] = KeyRow
            /\ b \in Seq(Row) /\ Len(b) = 1 /\ b[1] = d
        BY <1>2, <2>2, <4>1
      <4>4. hs = a \o b
        BY <2>10, <3>2, <4>1
      <4>5. hs \in Seq(Row) /\ Len(hs) = 2 /\ hs[1] = KeyRow /\ hs[2] = d
        BY <4>2, <4>4, ConcatProperties
      <4>3. \A i \in 1 .. 2 : i = 1 \/ i = 2
        OBVIOUS
      <4> QED
        BY <1>2, <2>2, <4>3, <4>5
    <3> QED
      BY <3>1, <3>2
  <2>12. l = hs \o vs
    BY <2>3, <2>8, <2>10
  <2>13. PICK h : h = Len(hs)
    OBVIOUS
  <2>14. /\ DOMAIN l = 1 .. h + n /\ h \in Nat /\ h > 0
         /\ \A i \in 1 .. h : l[i] = hs[i]
         /\ \A j \in 1 .. n : h + j \in 1 .. h + n /\ l[h + j] = vs[j]
    <3>1. l \in Seq(Row) /\ Len(l) = h + n
      BY <2>9, <2>11, <2>12, <2>13, ConcatProperties
    <3>2. \A i \in 1 .. Len(l) : l[i] = IF i <= h THEN hs[i] ELSE vs[i - h]
      BY <2>9, <2>11, <2>12, <2>13, ConcatProperties
    <3>3. h \in Nat /\ h > 0
      BY <2>11, <2>13
    <3>4. \A i \in 1 .. h : l[i] = hs[i]
      BY <2>5, <3>1, <3>2, <3>3
    <3>5. ASSUME NEW j \in 1 .. n PROVE h + j \in 1 .. h + n /\ l[h + j] = vs[j]
      <4>1. h + j \in 1 .. h + n /\ ~(h + j <= h) /\ h + j - h = j
        BY <2>5, <3>3
      <4>2. PICK i : i = h + j
        OBVIOUS
      <4>3. i \in 1 .. Len(l) /\ ~(i <= h) /\ i - h = j
        BY <2>5, <3>1, <3>3, <4>1, <4>2
      <4>4. l[i] = vs[i - h]
        BY <3>2, <4>3
      <4> QED
        BY <4>1, <4>2, <4>3, <4>4
    <3> QED
      BY <3>1, <3>3, <3>4, <3>5, LenProperties
  <2>15. ASSUME NEW i \in DOMAIN l
         PROVE  i \in 1 .. h \/ \E j \in 1 .. n : i = h + j
    <3>1. i \in 1 .. h \/ (i - h \in 1 .. n /\ i = h + (i - h))
      BY <2>5, <2>14
    <3> QED
      BY <3>1
  <2>16. \A i \in 1 .. h : Added(l[i]) /\ l[i].name = Default
    BY <2>11, <2>13, <2>14
  <2>17. \A j \in 1 .. n : /\ l[h + j] = RowOf(e[j], w[e[j]])
                           /\ l[h + j].name = e[j] /\ e[j] \in S
                           /\ Tells(l[h + j], e[j], w)
    BY <2>6, <2>9, <2>14 DEF RowOf, Tells
  <2>18. ASSUME NEW x \in S PROVE \E i \in DOMAIN l : Tells(l[i], x, w)
    BY <2>7, <2>14, <2>17
  <2>19. ASSUME NEW i \in DOMAIN l
         PROVE  (l[i].name \in S /\ Tells(l[i], l[i].name, w)) \/ Added(l[i])
    BY <2>15, <2>16, <2>17
  <2>20. ASSUME NEW i \in DOMAIN l, NEW k \in DOMAIN l, l[i].name = l[k].name, i # k
         PROVE  Added(l[i]) \/ Added(l[k])
    <3>1. CASE i \in 1 .. h \/ k \in 1 .. h
      BY <2>16, <3>1
    <3>2. CASE ~(i \in 1 .. h \/ k \in 1 .. h)
      <4>1. PICK j \in 1 .. n, m \in 1 .. n : i = h + j /\ k = h + m
        BY <2>15, <3>2
      <4>2. e[j] = e[m] /\ j # m
        BY <2>17, <2>20, <4>1
      <4> QED
        BY <2>6, <4>2
    <3> QED
      BY <3>1, <3>2
  <2>21. \E i \in DOMAIN l : l[i].name = Default
    <3>1. 1 \in 1 .. h /\ 1 \in DOMAIN l
      BY <2>5, <2>14
    <3> QED
      BY <2>16, <3>1
  <2> QED
    BY <1>1, <2>18, <2>19, <2>20, <2>21 DEF RowsFit
<1> QED
  BY <1>3, <1>4

-----------------------------------------------------------------------------
(* What one command makes of the values, on its way forth and back.        *)

With(w, n, v) == [x \in DOMAIN w \union {n} |-> IF x = n THEN v ELSE w[x]]

Removed(w, n) == [x \in DOMAIN w \ {n} |-> w[x]]

Moved(w, a, b) == Removed(With(w, b, w[a]), a)

(* Values as the program writes them.                                      *)
Good(w) ==
  /\ IsKeyValues(w) /\ IsFiniteSet(DOMAIN w)
  /\ w = [x \in DOMAIN w |-> w[x]]
  /\ \A x \in DOMAIN w : Neat(w[x])

(* Executed, c takes the values w to v.                                    *)
Forth(c, w, v) ==
  /\ c \in Command
  /\ \/ /\ c.op = "create" /\ c.name \notin DOMAIN w
        /\ v = With(w, c.name, Stored(c.type, c.data))
     \/ /\ c.op = "change" /\ c.name \in DOMAIN w /\ w[c.name].type = c.type
        /\ v = With(w, c.name, [type |-> c.type, data |-> c.data])
     \/ /\ c.op = "rename" /\ c.name \in DOMAIN w /\ c.new \notin DOMAIN w
        /\ v = Moved(w, c.name, c.new)

(* Undone, c takes the values v to w.                                      *)
Back(c, v, w) == IF c.op = "create" THEN Forth(c, w, v) ELSE Forth(c, v, w)

Reversed(c) == [c EXCEPT !.name = c.new, !.new = c.name]

(* u is w with value a of it named b.                                      *)
IsMoved(u, w, a, b) ==
  /\ DOMAIN u = (DOMAIN w \ {a}) \union {b} /\ u[b] = w[a]
  /\ \A x \in DOMAIN w : x # a => u[x] = w[x]
  /\ u = [x \in DOMAIN u |-> u[x]]

LEMMA MovedIs ==
  ASSUME NEW w, NEW a \in DOMAIN w, NEW b, b \notin DOMAIN w, NEW u, u = Moved(w, a, b)
  PROVE  IsMoved(u, w, a, b)
<1>0. u = Removed(With(w, b, w[a]), a)
  BY DEF Moved
<1>1. PICK m : m = With(w, b, w[a])
  OBVIOUS
<1>2. /\ DOMAIN m = DOMAIN w \union {b} /\ m[b] = w[a]
      /\ \A x \in DOMAIN w : x # b => m[x] = w[x]
  BY <1>1 DEF With
<1>3. u = Removed(m, a)
  BY <1>0, <1>1
<1>4. /\ DOMAIN u = DOMAIN m \ {a} /\ \A x \in DOMAIN u : u[x] = m[x]
      /\ u = [x \in DOMAIN u |-> u[x]]
  BY <1>3 DEF Removed
<1>5. DOMAIN u = (DOMAIN w \ {a}) \union {b}
  BY <1>2, <1>4
<1>6. u[b] = w[a] /\ \A x \in DOMAIN w : x # a => u[x] = w[x]
  BY <1>2, <1>4, <1>5
<1> QED
  BY <1>4, <1>5, <1>6 DEF IsMoved

(* Two functions that agree everywhere are one.                            *)
LEMMA SameFunction ==
  ASSUME NEW f, NEW g, f = [x \in DOMAIN f |-> f[x]], g = [x \in DOMAIN g |-> g[x]],
         DOMAIN f = DOMAIN g, \A x \in DOMAIN f : f[x] = g[x]
  PROVE  f = g
  OBVIOUS

LEMMA GoodWith ==
  ASSUME NEW w, Good(w), NEW n \in Name, NEW v, Neat(v)
  PROVE  Good(With(w, n, v))
<1>1. PICK u : u = With(w, n, v)
  OBVIOUS
<1>2. /\ DOMAIN u = DOMAIN w \union {n} /\ u[n] = v
      /\ \A x \in DOMAIN w : x # n => u[x] = w[x]
      /\ u = [x \in DOMAIN u |-> u[x]]
  BY <1>1 DEF With
<1>3. IsFiniteSet(DOMAIN u)
  BY <1>2, FS_AddElement DEF Good
<1>4. \A x \in DOMAIN u : Neat(u[x]) /\ u[x] \in KeyValue /\ x \in Name
  BY <1>2 DEF Good, IsKeyValues, Neat
<1> QED
  BY <1>1, <1>2, <1>3, <1>4 DEF Good, IsKeyValues

LEMMA GoodRemoved ==
  ASSUME NEW w, Good(w), NEW n
  PROVE  Good(Removed(w, n))
<1>1. PICK u : u = Removed(w, n)
  OBVIOUS
<1>2. /\ DOMAIN u = DOMAIN w \ {n} /\ \A x \in DOMAIN u : u[x] = w[x]
      /\ u = [x \in DOMAIN u |-> u[x]]
  BY <1>1 DEF Removed
<1>3. IsFiniteSet(DOMAIN u)
  BY <1>2, FS_RemoveElement DEF Good
<1>4. \A x \in DOMAIN u : Neat(u[x]) /\ u[x] \in KeyValue /\ x \in Name
  BY <1>2 DEF Good, IsKeyValues, Neat
<1> QED
  BY <1>1, <1>2, <1>3, <1>4 DEF Good, IsKeyValues

LEMMA GoodMoved ==
  ASSUME NEW w, Good(w), NEW a \in DOMAIN w, NEW b \in Name
  PROVE  Good(Moved(w, a, b))
<1>1. Neat(w[a])
  BY DEF Good
<1> QED
  BY <1>1, GoodWith, GoodRemoved DEF Moved

(* A change holds the data it has replaced, a rename its names the other   *)
(* way round: then it goes the other way.                                  *)
LEMMA ChangeTurns ==
  ASSUME NEW w, Good(w), NEW c, c \in Command, c.op = "change", c.name \in DOMAIN w,
         w[c.name].type = c.type, NEW z, z.type = c.type, NEW v, v = With(w, c.name, z),
         NEW d, d = [c EXCEPT !.data = w[c.name].data], d \in Command
  PROVE  Forth(d, v, w) /\ d.op = "change"
<1>1. PICK n : n = c.name
  OBVIOUS
<1>2. d.op = "change" /\ d.name = n /\ d.type = c.type /\ d.data = w[n].data
  BY <1>1 DEF Command
<1>3. PICK x : x = w[n]
  OBVIOUS
<1>4. [type |-> d.type, data |-> d.data] = x
  <2>1. x \in KeyValue
    BY <1>1, <1>3 DEF Good, IsKeyValues
  <2>2. x = [type |-> x.type, data |-> x.data]
    BY <2>1, ValueParts
  <2> QED
    BY <1>1, <1>2, <1>3, <2>2
<1>5. /\ DOMAIN v = DOMAIN w /\ v[n].type = c.type
      /\ \A y \in DOMAIN w : y # n => v[y] = w[y]
  <2>1. v = With(w, n, z)
    BY <1>1
  <2> QED
    BY <1>1, <2>1 DEF With
<1>6. With(v, n, x) = w
  <2>1. PICK u : u = With(v, n, x)
    OBVIOUS
  <2>2. /\ DOMAIN u = DOMAIN v \union {n} /\ u[n] = x
        /\ \A y \in DOMAIN v : y # n => u[y] = v[y]
        /\ u = [y \in DOMAIN u |-> u[y]]
    BY <2>1 DEF With
  <2>3. DOMAIN u = DOMAIN w
    BY <1>1, <1>5, <2>2
  <2>4. \A y \in DOMAIN u : u[y] = w[y]
    BY <1>3, <1>5, <2>2, <2>3
  <2>5. w = [y \in DOMAIN w |-> w[y]]
    BY DEF Good
  <2>6. u = w
    BY <2>2, <2>3, <2>4, <2>5, SameFunction
  <2> QED
    BY <2>1, <2>6
<1> QED
  BY <1>1, <1>2, <1>4, <1>5, <1>6 DEF Forth

LEMMA RenameTurns ==
  ASSUME NEW w, Good(w), NEW v, NEW c, c.op = "rename", Forth(c, w, v)
  PROVE  Forth(Reversed(c), v, w) /\ Reversed(c).op = "rename"
<1>1. /\ c \in Command /\ c.name \in DOMAIN w /\ c.new \notin DOMAIN w
      /\ v = Moved(w, c.name, c.new)
  BY DEF Forth
<1>2. PICK a, b : a = c.name /\ b = c.new
  OBVIOUS
<1>3. PICK d : d = Reversed(c)
  OBVIOUS
<1>4. d \in Command /\ d.op = "rename" /\ d.name = b /\ d.new = a
  BY <1>1, <1>2, <1>3 DEF Command, Reversed
<1>9. IsMoved(v, w, a, b)
  BY <1>1, <1>2, MovedIs
<1>5. /\ DOMAIN v = (DOMAIN w \ {a}) \union {b} /\ v[b] = w[a]
      /\ \A x \in DOMAIN w : x # a => v[x] = w[x]
  BY <1>9 DEF IsMoved
<1>6. a \in DOMAIN w /\ b \notin DOMAIN w /\ b \in DOMAIN v /\ a \notin DOMAIN v
  BY <1>1, <1>2, <1>5
<1>7. Moved(v, b, a) = w
  <2>1. PICK u : u = Moved(v, b, a)
    OBVIOUS
  <2>2. /\ DOMAIN u = (DOMAIN v \ {b}) \union {a} /\ u[a] = v[b]
        /\ \A x \in DOMAIN v : x # b => u[x] = v[x]
        /\ u = [x \in DOMAIN u |-> u[x]]
    <3>1. IsMoved(u, v, b, a)
      BY <1>6, <2>1, MovedIs
    <3> QED
      BY <3>1 DEF IsMoved
  <2>3. DOMAIN u = DOMAIN w
    BY <1>5, <1>6, <2>2
  <2>4. \A x \in DOMAIN u : u[x] = w[x]
    BY <1>5, <1>6, <2>2, <2>3
  <2>5. w = [x \in DOMAIN w |-> w[x]]
    BY DEF Good
  <2>6. u = w
    BY <2>2, <2>3, <2>4, <2>5, SameFunction
  <2> QED
    BY <2>1, <2>6
<1> QED
  BY <1>3, <1>4, <1>6, <1>7 DEF Forth

(* Taking away what was added.                                             *)
LEMMA AddedGoes ==
  ASSUME NEW w, Good(w), NEW n, n \notin DOMAIN w, NEW v
  PROVE  Removed(With(w, n, v), n) = w
<1>1. PICK m : m = With(w, n, v)
  OBVIOUS
<1>2. DOMAIN m = DOMAIN w \union {n} /\ \A x \in DOMAIN w : x # n => m[x] = w[x]
  BY <1>1 DEF With
<1>3. PICK u : u = Removed(m, n)
  OBVIOUS
<1>4. /\ DOMAIN u = DOMAIN m \ {n} /\ \A x \in DOMAIN u : u[x] = m[x]
      /\ u = [x \in DOMAIN u |-> u[x]]
  BY <1>3 DEF Removed
<1>5. DOMAIN u = DOMAIN w /\ \A x \in DOMAIN u : u[x] = w[x]
  BY <1>2, <1>4
<1>6. w = [x \in DOMAIN w |-> w[x]]
  BY DEF Good
<1>7. u = w
  BY <1>4, <1>5, <1>6, SameFunction
<1> QED
  BY <1>1, <1>3, <1>7

(* What UndoGivesValuesBack takes back is what undoing takes back.         *)
LEMMA UndoneIs ==
  ASSUME NEW v, NEW w, Good(w), NEW c, Back(c, v, w)
  PROVE  Undone(v, c) = w
<1>1. CASE c.op = "create"
  <2>1. c.name \notin DOMAIN w /\ v = With(w, c.name, Stored(c.type, c.data))
    BY <1>1 DEF Back, Forth
  <2>2. Removed(v, c.name) = w
    BY <2>1, AddedGoes
  <2> QED
    BY <1>1, <2>2 DEF Undone, Removed
<1>2. CASE c.op = "change"
  BY <1>2 DEF Back, Forth, Undone, With
<1>3. CASE c.op = "rename"
  <2>1. c.name \in DOMAIN v /\ c.new \notin DOMAIN v /\ w = Moved(v, c.name, c.new)
    BY <1>3 DEF Back, Forth
  <2>2. PICK a, b : a = c.name /\ b = c.new
    OBVIOUS
  <2>3. IsMoved(w, v, a, b)
    BY <2>1, <2>2, MovedIs
  <2>4. PICK u : u = Undone(v, c)
    OBVIOUS
  <2>5. /\ DOMAIN u = (DOMAIN v \ {a}) \union {b} /\ u[b] = v[a]
        /\ \A x \in DOMAIN v : x # a => u[x] = v[x]
        /\ u = [x \in DOMAIN u |-> u[x]]
    BY <1>3, <2>1, <2>2, <2>4 DEF Undone
  <2>6. DOMAIN u = DOMAIN w /\ w = [x \in DOMAIN w |-> w[x]]
    BY <2>3, <2>5 DEF IsMoved
  <2>7. \A x \in DOMAIN u : u[x] = w[x]
    BY <2>2, <2>3, <2>5 DEF IsMoved
  <2>8. u = w
    BY <2>5, <2>6, <2>7, SameFunction
  <2> QED
    BY <2>4, <2>8
<1> QED
  BY <1>1, <1>2, <1>3 DEF Back, Forth

-----------------------------------------------------------------------------
(* What Execute and Undo do with the values.                               *)

(* An outcome leaves the values alone or makes v of them, and then its     *)
(* command leads back to the values as they were.                          *)
Redone(o, v) ==
  IF o.ok THEN o.vals = v /\ Back(o.cmd, v, vals) ELSE o.vals = vals

TakenTo(o, v) ==
  IF o.ok THEN o.vals = v /\ Forth(o.cmd, v, vals) ELSE o.vals = vals

(* The command has written z and can take that back.                       *)
Changed(o, c, z) ==
  /\ o.ok = TRUE /\ o.vals = With(vals, c.name, z) /\ z.type = c.type
  /\ Neat(z) /\ Good(o.vals) /\ o.cmd.op = "change"
  /\ Forth(o.cmd, o.vals, vals)

LEMMA ChangeOutcome ==
  ASSUME Good(vals), NEW c \in Command, c.op = "change", c.name \in DOMAIN vals,
         vals[c.name].type = c.type, NEW o \in ChangeValue(c)
  PROVE  o = Refused(c) \/ \E z \in Writable(c.type, c.data) : Changed(o, c, z)
<1> SUFFICES ASSUME o # Refused(c)
             PROVE  \E z \in Writable(c.type, c.data) : Changed(o, c, z)
  OBVIOUS
<1>1. PICK d : d = [c EXCEPT !.data = vals[c.name].data]
  OBVIOUS
<1>2. PICK z \in Writable(c.type, c.data) : o = Outcome(Written(c.name, z), d, TRUE)
  BY <1>1 DEF ChangeValue
<1>3. /\ c \in DataCommand /\ c.name \in Name /\ c.type \in RegType
      /\ IsData(c.type, c.data)
  BY CommandParts DEF DataCommand
<1>4. Neat(z) /\ z.type = c.type
  BY <1>3, WrittenIsNeat
<1>5. PICK v : v = With(vals, c.name, z)
  OBVIOUS
<1>6. o.ok = TRUE /\ o.vals = v /\ o.cmd = d
  BY <1>2, <1>5 DEF Outcome, Written, With
<1>7. Good(v)
  BY <1>3, <1>4, <1>5, GoodWith
<1>8. d \in Command
  <2>1. o \in Execute(c) \union UndoCommand(c)
    BY DEF Execute, UndoCommand
  <2> QED
    BY <1>3, <1>6, <2>1, OutcomeType DEF Good
<1>9. Forth(d, v, vals) /\ d.op = "change"
  BY <1>1, <1>4, <1>5, <1>8, ChangeTurns
<1> QED
  BY <1>4, <1>5, <1>6, <1>7, <1>9 DEF Changed

LEMMA CreateOutcome ==
  ASSUME Good(vals), NEW c \in Command, c.op = "create", c.name \notin DOMAIN vals,
         NEW o \in CreateValue(c)
  PROVE  \/ o = Refused(c)
         \/ /\ o.ok = TRUE /\ o.vals = With(vals, c.name, Stored(c.type, c.data))
            /\ Good(o.vals) /\ o.cmd = c /\ Forth(c, vals, o.vals)
<1>1. /\ c \in DataCommand /\ c.name \in Name /\ c.type \in RegType
      /\ IsData(c.type, c.data)
  BY CommandParts DEF DataCommand
<1>2. PICK z : z = Stored(c.type, c.data)
  OBVIOUS
<1>3. Neat(z)
  BY <1>1, <1>2, WrittenIsNeat
<1>4. PICK v : v = With(vals, c.name, z)
  OBVIOUS
<1>5. Good(v) /\ Forth(c, vals, v)
  BY <1>1, <1>2, <1>3, <1>4, GoodWith DEF Forth
<1>6. o = Refused(c) \/ (o.ok = TRUE /\ o.vals = v /\ o.cmd = c)
  BY <1>2, <1>4 DEF CreateValue, Outcome, Written, With
<1> QED
  BY <1>2, <1>4, <1>5, <1>6

LEMMA RefusedIs ==
  ASSUME NEW c, NEW o, o = Refused(c)
  PROVE  o.ok = FALSE /\ o.vals = vals /\ o.cmd = c
  BY DEF Refused, Outcome

(* Executing a command that leads from the values to v.                    *)
LEMMA ExecuteLeads ==
  ASSUME Good(vals), NEW v, Good(v), NEW c, c.op # "rename", Forth(c, vals, v),
         NEW o \in Execute(c)
  PROVE  Redone(o, v)
<1>1. CASE o = Refused(c)
  BY <1>1, RefusedIs DEF Redone
<1>2. CASE o # Refused(c) /\ c.op = "create"
  <2>1. /\ c \in Command /\ c.name \notin DOMAIN vals
        /\ v = With(vals, c.name, Stored(c.type, c.data)) /\ o \in CreateValue(c)
    BY <1>2 DEF Forth, Execute
  <2>2. o.ok = TRUE /\ o.vals = v /\ o.cmd = c
    BY <1>2, <2>1, CreateOutcome
  <2> QED
    BY <1>2, <2>2 DEF Redone, Back
<1>3. CASE o # Refused(c) /\ c.op = "change"
  <2>1. /\ c \in Command /\ c.name \in DOMAIN vals /\ vals[c.name].type = c.type
        /\ v = With(vals, c.name, [type |-> c.type, data |-> c.data])
        /\ o \in ChangeValue(c)
    BY <1>3 DEF Forth, Execute
  <2>2. PICK z \in Writable(c.type, c.data) : Changed(o, c, z)
    BY <1>3, <2>1, ChangeOutcome
  <2>3. PICK x : x = [type |-> c.type, data |-> c.data]
    OBVIOUS
  <2>4. Neat(x)
    <3>1. c.name \in DOMAIN v /\ v[c.name] = x
      BY <2>1, <2>3 DEF With
    <3> QED
      BY <3>1 DEF Good
  <2>5. Writable(c.type, c.data) = {x}
    <3>1. x.type = c.type /\ x.data = c.data
      BY <2>3
    <3> QED
      BY <2>4, <3>1, NeatAgain
  <2>6. o.vals = v
    BY <2>1, <2>2, <2>3, <2>5 DEF Changed
  <2> QED
    BY <2>2, <2>6 DEF Redone, Back, Changed
<1> QED
  BY <1>1, <1>2, <1>3 DEF Forth

(* Undoing one that leads back to v.                                       *)
LEMMA UndoLeads ==
  ASSUME Good(vals), NEW v, Good(v), NEW c, c.op # "rename", Back(c, vals, v),
         NEW o \in UndoCommand(c)
  PROVE  TakenTo(o, v)
<1>1. CASE o = Refused(c)
  BY <1>1, RefusedIs DEF TakenTo
<1>2. CASE o # Refused(c) /\ c.op = "create"
  <2>1. /\ Forth(c, v, vals) /\ c.name \notin DOMAIN v
        /\ vals = With(v, c.name, Stored(c.type, c.data)) /\ o \in DeleteValue(c)
    BY <1>2 DEF Back, Forth, UndoCommand
  <2>2. Removed(vals, c.name) = v
    BY <2>1, AddedGoes
  <2>3. o.ok = TRUE /\ o.vals = Removed(vals, c.name) /\ o.cmd = c
    BY <1>2, <2>1 DEF DeleteValue, Outcome, Without, Removed
  <2> QED
    BY <2>1, <2>2, <2>3 DEF TakenTo
<1>3. CASE o # Refused(c) /\ c.op = "change"
  <2>1. o \in Execute(c) /\ Forth(c, vals, v)
    BY <1>3 DEF Back, UndoCommand, Execute
  <2>2. Redone(o, v)
    BY <2>1, ExecuteLeads
  <2>3. o.ok => o.cmd.op = "change"
    <3>1. c \in Command /\ c.name \in DOMAIN vals /\ vals[c.name].type = c.type
      BY <1>3, <2>1 DEF Forth
    <3>2. o \in ChangeValue(c)
      BY <1>3, <2>1 DEF Execute
    <3>3. PICK z \in Writable(c.type, c.data) : Changed(o, c, z)
      BY <1>3, <3>1, <3>2, ChangeOutcome
    <3> QED
      BY <3>3 DEF Changed
  <2> QED
    BY <2>2, <2>3 DEF Redone, TakenTo, Back
<1> QED
  BY <1>1, <1>2, <1>3 DEF Back, Forth

-----------------------------------------------------------------------------
(* The stacks.  The commands of a stack lead, from its end to its start,   *)
(* from the values there are now through other ones: by undoing them to    *)
(* the values of the start, by redoing them to those before the first      *)
(* Undo.                                                                   *)
Takes(by, c, v, w) == IF by = "undo" THEN Back(c, v, w) ELSE Forth(c, v, w)

Chain(by, s, N) ==
  /\ s \in Seq(Command)
  /\ \A i \in 0 .. Len(s) : Good(N[i])
  /\ \A i \in 1 .. Len(s) : Takes(by, s[i], N[i], N[i - 1])
  /\ by = "undo" => N[0] = InitialValues

Leads(by, s, w) == \E N : Chain(by, s, N) /\ N[Len(s)] = w

LEMMA EmptyLeads ==
  ASSUME NEW by, NEW w, Good(w), by = "undo" => w = InitialValues
  PROVE  Leads(by, <<>>, w)
<1>1. PICK N : N = [i \in {0} |-> w]
  OBVIOUS
<1>2. N[0] = w
  BY <1>1
<1>3. PICK s \in Seq(Command) : s = <<>> /\ Len(s) = 0
  BY EmptySeq
<1>4. Chain(by, s, N)
  BY <1>2, <1>3 DEF Chain
<1> QED
  BY <1>2, <1>3, <1>4 DEF Leads

LEMMA LeadsGood ==
  ASSUME NEW by, NEW s, NEW w, Leads(by, s, w)
  PROVE  Good(w) /\ s \in Seq(Command)
<1>1. PICK N : Chain(by, s, N) /\ N[Len(s)] = w
  BY DEF Leads
<1>2. Len(s) \in 0 .. Len(s)
  BY <1>1, LenProperties DEF Chain
<1> QED
  BY <1>1, <1>2 DEF Chain

LEMMA PushLeads ==
  ASSUME NEW by, NEW s, NEW w, Leads(by, s, w), NEW c \in Command,
         NEW v, Good(v), Takes(by, c, v, w)
  PROVE  Leads(by, Append(s, c), v)
<1>1. PICK N : Chain(by, s, N) /\ N[Len(s)] = w
  BY DEF Leads
<1>2. PICK n \in Nat : n = Len(s) /\ s \in Seq(Command)
  BY <1>1, LenProperties DEF Chain
<1>3. PICK t : t = Append(s, c)
  OBVIOUS
<1>4. /\ t \in Seq(Command) /\ Len(t) = n + 1 /\ t[n + 1] = c
      /\ \A i \in 1 .. n : t[i] = s[i]
  BY <1>2, <1>3, AppendProperties
<1>5. PICK O : O = [i \in 0 .. n + 1 |-> IF i = n + 1 THEN v ELSE N[i]]
  OBVIOUS
<1>6. O[n + 1] = v /\ \A i \in 0 .. n : O[i] = N[i]
  BY <1>2, <1>5
<1>7. \A i \in 0 .. n + 1 : Good(O[i])
  <2> SUFFICES ASSUME NEW i \in 0 .. n + 1 PROVE Good(O[i])
    OBVIOUS
  <2>1. CASE i = n + 1
    BY <1>6, <2>1
  <2>2. CASE i # n + 1
    BY <1>1, <1>2, <1>6, <2>2 DEF Chain
  <2> QED
    BY <2>1, <2>2
<1>8. \A i \in 1 .. n + 1 : Takes(by, t[i], O[i], O[i - 1])
  <2> SUFFICES ASSUME NEW i \in 1 .. n + 1 PROVE Takes(by, t[i], O[i], O[i - 1])
    OBVIOUS
  <2>1. CASE i = n + 1
    <3>1. i - 1 = n /\ n \in 0 .. n
      BY <1>2, <2>1
    <3>2. t[i] = c /\ O[i] = v /\ O[i - 1] = w
      BY <1>1, <1>2, <1>4, <1>6, <2>1, <3>1
    <3> QED
      BY <3>2
  <2>2. CASE i # n + 1
    <3>1. i \in 1 .. n /\ i \in 0 .. n /\ i - 1 \in 0 .. n
      BY <1>2, <2>2
    <3>2. Takes(by, s[i], N[i], N[i - 1])
      BY <1>1, <1>2, <3>1 DEF Chain
    <3> QED
      BY <1>4, <1>6, <3>1, <3>2
  <2> QED
    BY <2>1, <2>2
<1>9. by = "undo" => O[0] = InitialValues
  <2>1. 0 \in 0 .. n
    BY <1>2
  <2> QED
    BY <1>1, <1>6, <2>1 DEF Chain
<1>10. Chain(by, t, O)
  BY <1>4, <1>7, <1>8, <1>9 DEF Chain
<1> QED
  BY <1>3, <1>4, <1>6, <1>10 DEF Leads

LEMMA LastOfSeq ==
  ASSUME NEW S, NEW s \in Seq(S), s # <<>>
  PROVE  /\ Len(s) \in Nat \ {0} /\ Last(s) = s[Len(s)] /\ Last(s) \in S
         /\ Front(s) \in Seq(S) /\ Len(Front(s)) = Len(s) - 1
         /\ \A i \in 1 .. Len(s) - 1 : Front(s)[i] = s[i]
<1>1. PICK f \in Seq(S), e \in S : s = Append(f, e)
  BY SequenceEmptyOrAppend
<1>2. /\ Len(s) = Len(f) + 1 /\ Len(f) \in Nat /\ s[Len(f) + 1] = e
      /\ \A i \in 1 .. Len(f) : s[i] = f[i]
  BY <1>1, AppendProperties, LenProperties
<1>3. Last(s) = e /\ Front(s) = f
  BY <1>1, AppendProperties DEF Last, Front
<1> QED
  BY <1>2, <1>3

LEMMA PopLeads ==
  ASSUME NEW by, NEW s, s # <<>>, NEW w, Leads(by, s, w)
  PROVE  /\ Last(s) \in Command
         /\ \E v : Good(v) /\ Takes(by, Last(s), w, v) /\ Leads(by, Front(s), v)
<1>1. PICK N : Chain(by, s, N) /\ N[Len(s)] = w
  BY DEF Leads
<1>2. s \in Seq(Command)
  BY <1>1 DEF Chain
<1>3. PICK n : n = Len(s)
  OBVIOUS
<1>4. PICK f, c : f = Front(s) /\ c = Last(s)
  OBVIOUS
<1>5. /\ n \in Nat \ {0} /\ c = s[n] /\ c \in Command
      /\ f \in Seq(Command) /\ Len(f) = n - 1
      /\ \A i \in 1 .. n - 1 : f[i] = s[i]
  BY <1>2, <1>3, <1>4, LastOfSeq
<1>6. PICK v : v = N[n - 1]
  OBVIOUS
<1>7. n \in 1 .. n /\ n - 1 \in 0 .. n /\ \A i \in 0 .. n - 1 : i \in 0 .. n
  BY <1>5
<1>8. Good(v) /\ Takes(by, c, w, v)
  BY <1>1, <1>3, <1>5, <1>6, <1>7 DEF Chain
<1>9. Chain(by, f, N)
  <2>1. \A i \in 1 .. n - 1 : Takes(by, f[i], N[i], N[i - 1])
    <3> SUFFICES ASSUME NEW i \in 1 .. n - 1 PROVE Takes(by, f[i], N[i], N[i - 1])
      OBVIOUS
    <3>1. i \in 1 .. n /\ f[i] = s[i]
      BY <1>5
    <3> QED
      BY <1>1, <1>3, <3>1 DEF Chain
  <2> QED
    BY <1>1, <1>3, <1>5, <1>7, <2>1 DEF Chain
<1>10. Leads(by, f, v)
  BY <1>5, <1>6, <1>9 DEF Leads
<1> QED
  BY <1>4, <1>5, <1>8, <1>10

(* Both stacks lead on from the values w.                                  *)
History(us, rs, w) == Leads("undo", us, w) /\ Leads("redo", rs, w)

LEMMA EditRecorded ==
  ASSUME NEW w, History(undoList, redoList, w), NEW c \in Command,
         NEW v, Good(v), Back(c, v, w), Recorded("edit", c)
  PROVE  History(undoList', redoList', v)
<1>1. undoList' = Append(undoList, c) /\ redoList' = <<>>
  BY DEF Recorded
<1>2. Takes("undo", c, v, w)
  BY DEF Takes
<1> QED
  BY <1>1, <1>2, PushLeads, EmptyLeads DEF History

LEMMA UndoRecorded ==
  ASSUME NEW w, Leads("redo", redoList, w), NEW c \in Command,
         NEW v, Leads("undo", Front(undoList), v), Forth(c, v, w), Recorded("undo", c)
  PROVE  History(undoList', redoList', v)
<1>1. undoList' = Front(undoList) /\ redoList' = Append(redoList, c)
  BY DEF Recorded
<1>2. Takes("redo", c, v, w) /\ Good(v)
  BY LeadsGood DEF Takes
<1> QED
  BY <1>1, <1>2, PushLeads DEF History

LEMMA RedoRecorded ==
  ASSUME NEW w, Leads("undo", undoList, w), NEW c \in Command,
         NEW v, Leads("redo", Front(redoList), v), Back(c, v, w), Recorded("redo", c)
  PROVE  History(undoList', redoList', v)
<1>1. redoList' = Front(redoList) /\ undoList' = Append(undoList, c)
  BY DEF Recorded
<1>2. Takes("undo", c, v, w) /\ Good(v)
  BY LeadsGood DEF Takes
<1> QED
  BY <1>1, <1>2, PushLeads DEF History

-----------------------------------------------------------------------------
(* Patching one row instead of making the list anew.                       *)

(* s is r but for row i.                                                   *)
Patched(r, i, s) == DOMAIN s = DOMAIN r /\ \A k \in DOMAIN r : k # i => s[k] = r[k]

(* Tells looks at one value only.                                          *)
LEMMA TellsOne ==
  ASSUME NEW row, NEW n, NEW w, NEW u, u[n] = w[n], Tells(row, n, w)
  PROVE  Tells(row, n, u)
  BY DEF Tells

LEMMA TellsName ==
  ASSUME NEW row, NEW n, NEW w, Tells(row, n, w)
  PROVE  row.name = n
  BY DEF Tells, RowOf

(* The row of a value that has got a new one.                              *)
LEMMA PatchFits ==
  ASSUME NEW r, NEW w, RowsFit(r, w), NEW i \in DOMAIN r, NEW n \in DOMAIN w, r[i].name = n,
         ~Added(r[i]), NEW s, Patched(r, i, s), s[i].name = n, s[i].type = r[i].type,
         NEW v, NEW u, u = With(w, n, v), Tells(s[i], n, u)
  PROVE  RowsFit(s, u)
<1>1. DOMAIN u = DOMAIN w /\ \A x \in DOMAIN w : x # n => u[x] = w[x]
  BY DEF With
<1>2. ~Added(s[i])
  BY DEF Added
<1>3. \A k \in DOMAIN r : s[k].name = r[k].name /\ (Added(s[k]) <=> Added(r[k]))
  BY <1>2 DEF Patched
<1>4. ASSUME NEW x \in DOMAIN u PROVE \E k \in DOMAIN s : Tells(s[k], x, u)
  <2>1. CASE x = n
    BY <2>1 DEF Patched
  <2>2. CASE x # n
    <3>1. PICK k \in DOMAIN r : Tells(r[k], x, w)
      BY <1>1 DEF RowsFit
    <3>2. k # i
      BY <2>2, <3>1, TellsName
    <3>3. Tells(r[k], x, u) /\ s[k] = r[k] /\ k \in DOMAIN s
      BY <1>1, <2>2, <3>1, <3>2, TellsOne DEF Patched
    <3> QED
      BY <3>3
  <2> QED
    BY <2>1, <2>2
<1>5. ASSUME NEW k \in DOMAIN s
      PROVE  \/ s[k].name \in DOMAIN u /\ Tells(s[k], s[k].name, u)
             \/ Added(s[k])
             \/ s[k].name = Default /\ Default \notin DOMAIN u
  <2>1. CASE k = i
    BY <1>1, <2>1
  <2>2. CASE k # i
    <3>1. k \in DOMAIN r /\ s[k] = r[k]
      BY <2>2 DEF Patched
    <3>2. CASE Added(r[k]) \/ (r[k].name = Default /\ Default \notin DOMAIN w)
      BY <1>1, <3>1, <3>2
    <3>3. CASE r[k].name \in DOMAIN w /\ Tells(r[k], r[k].name, w) /\ ~Added(r[k])
      <4>1. r[k].name # n
        BY <2>2, <3>1, <3>3 DEF RowsFit
      <4>2. Tells(r[k], r[k].name, u)
        BY <1>1, <3>3, <4>1, TellsOne
      <4> QED
        BY <1>1, <3>1, <3>3, <4>2
    <3> QED
      BY <3>1, <3>2, <3>3 DEF RowsFit
  <2> QED
    BY <2>1, <2>2
<1>6. ASSUME NEW k \in DOMAIN s, NEW m \in DOMAIN s, s[k].name = s[m].name, k # m
      PROVE  Added(s[k]) \/ Added(s[m])
  BY <1>3, <1>6 DEF Patched, RowsFit
<1>7. \E k \in DOMAIN s : s[k].name = Default
  BY <1>3 DEF Patched, RowsFit
<1> QED
  BY <1>4, <1>5, <1>6, <1>7 DEF RowsFit

(* The row of a value that has got a new name.                             *)
LEMMA RenameFits ==
  ASSUME NEW r, NEW w, RowsFit(r, w), NEW i \in DOMAIN r, NEW n \in DOMAIN w, r[i].name = n,
         n # Default, NEW x, x \notin DOMAIN w, \A k \in DOMAIN r : r[k].name # x,
         NEW s, Patched(r, i, s), s[i] = [r[i] EXCEPT !.name = x], r[i] \in Row,
         NEW u, u = Moved(w, n, x)
  PROVE  RowsFit(s, u)
<1>1. IsMoved(u, w, n, x)
  BY MovedIs
<1>2. /\ DOMAIN u = (DOMAIN w \ {n}) \union {x} /\ u[x] = w[n]
      /\ \A y \in DOMAIN w : y # n => u[y] = w[y]
  BY <1>1 DEF IsMoved
<1>3. ~Added(r[i]) /\ x # Default
  BY DEF Added, RowsFit
<1>4. Tells(r[i], n, w)
  BY <1>3 DEF RowsFit
<1>5. /\ s[i].name = x /\ s[i].type = r[i].type /\ s[i].size = r[i].size
      /\ s[i] = [name |-> x, type |-> r[i].type, size |-> r[i].size]
  BY DEF Row
<1>6. Tells(s[i], x, u) /\ ~Added(s[i])
  <2>1. ~Added(s[i])
    BY <1>3, <1>5 DEF Added
  <2>2. CASE r[i] = RowOf(n, w[n])
    <3>1. r[i].type = w[n].type /\ r[i].size = SizeOf(w[n])
      BY <2>2 DEF RowOf
    <3>2. s[i] = RowOf(x, u[x])
      BY <1>2, <1>5, <3>1 DEF RowOf
    <3> QED
      BY <2>1, <3>2 DEF Tells
  <2>3. CASE r[i].type = "multi" /\ w[n].type = "multi"
    BY <1>2, <1>5, <2>1, <2>3 DEF Tells
  <2> QED
    BY <1>4, <2>2, <2>3 DEF Tells
<1>7. ASSUME NEW k \in DOMAIN r, k # i, r[k].name = n PROVE FALSE
  <2>1. Added(r[k])
    BY <1>3, <1>7 DEF RowsFit
  <2> QED
    BY <1>7, <2>1 DEF Added
<1>8. ASSUME NEW y \in DOMAIN u PROVE \E k \in DOMAIN s : Tells(s[k], y, u)
  <2>1. CASE y = x
    BY <1>6, <2>1 DEF Patched
  <2>2. CASE y # x
    <3>1. y \in DOMAIN w /\ y # n
      BY <1>2, <2>2
    <3>2. PICK k \in DOMAIN r : Tells(r[k], y, w)
      BY <3>1 DEF RowsFit
    <3>3. k # i
      BY <3>1, <3>2, TellsName
    <3>4. Tells(r[k], y, u) /\ s[k] = r[k] /\ k \in DOMAIN s
      BY <1>2, <3>1, <3>2, <3>3, TellsOne DEF Patched
    <3> QED
      BY <3>4
  <2> QED
    BY <2>1, <2>2
<1>9. ASSUME NEW k \in DOMAIN s
      PROVE  \/ s[k].name \in DOMAIN u /\ Tells(s[k], s[k].name, u)
             \/ Added(s[k])
             \/ s[k].name = Default /\ Default \notin DOMAIN u
  <2>1. CASE k = i
    BY <1>2, <1>5, <1>6, <2>1
  <2>2. CASE k # i
    <3>1. k \in DOMAIN r /\ s[k] = r[k] /\ r[k].name # n
      BY <1>7, <2>2 DEF Patched
    <3>2. CASE Added(r[k]) \/ (r[k].name = Default /\ Default \notin DOMAIN w)
      BY <1>2, <1>3, <3>1, <3>2
    <3>3. CASE r[k].name \in DOMAIN w /\ Tells(r[k], r[k].name, w)
      <4>1. Tells(r[k], r[k].name, u)
        BY <1>2, <3>1, <3>3, TellsOne
      <4> QED
        BY <1>2, <3>1, <3>3, <4>1
    <3> QED
      BY <3>1, <3>2, <3>3 DEF RowsFit
  <2> QED
    BY <2>1, <2>2
<1>10. ASSUME NEW k \in DOMAIN s, NEW m \in DOMAIN s, s[k].name = s[m].name, k # m
       PROVE  Added(s[k]) \/ Added(s[m])
  <2>1. k \in DOMAIN r /\ m \in DOMAIN r
    BY DEF Patched
  <2>2. k # i /\ m # i
    <3>1. \A j \in DOMAIN r : j # i => s[j].name # x
      BY DEF Patched
    <3> QED
      BY <1>5, <1>10, <2>1, <3>1
  <2>3. s[k] = r[k] /\ s[m] = r[m]
    BY <2>1, <2>2 DEF Patched
  <2> QED
    BY <1>10, <2>1, <2>3 DEF RowsFit
<1>11. \E k \in DOMAIN s : s[k].name = Default
  <2>1. PICK k \in DOMAIN r : r[k].name = Default
    BY DEF RowsFit
  <2>2. k # i
    BY <2>1
  <2> QED
    BY <2>1, <2>2 DEF Patched
<1> QED
  BY <1>8, <1>9, <1>10, <1>11 DEF RowsFit

-----------------------------------------------------------------------------
(* The inductive invariant of a careful user alone on the key: there are   *)
(* values w from which both stacks lead on and which the list shows.  They *)
(* are the values of the key, but that a rename in progress may have       *)
(* written its new value; and the open dialog shows the value of its row.  *)

CallFits(k, r, us, rs, v, w) ==
  IF k = None THEN v = w
  ELSE /\ k.cmd.name \in DOMAIN w /\ k.cmd.new \notin DOMAIN w /\ k.read = w[k.cmd.name]
       /\ v = IF k.wrote THEN With(w, k.cmd.new, k.read) ELSE w
       /\ k.by = "edit" => /\ k.row \in DOMAIN r /\ r[k.row].name = k.cmd.name
                           /\ k.cmd.name # Default /\ \A i \in DOMAIN r : r[i].name # k.cmd.new
       /\ k.by = "undo" => k.cmd = Last(us)
       /\ k.by = "redo" => k.cmd = Last(rs)

DialogFits(d, r, v) ==
  d # None =>
    /\ d.row \in DOMAIN r /\ r[d.row].name = d.name /\ r[d.row].type = d.type
    /\ d.name \in DOMAIN v /\ d.shown = Shown(r[d.row], v[d.name].data)

Explains(w) ==
  /\ History(undoList, redoList, w)
  /\ RowsFit(rows, w)
  /\ CallFits(call, rows, undoList, redoList, vals, w)
  /\ DialogFits(dialog, rows, vals)

HInv == IInv /\ \E w : Explains(w)

(* At rest, with the stacks and the list in order.                         *)
LEMMA RestExplains ==
  ASSUME NEW w, History(undoList, redoList, w), RowsFit(rows, w), vals = w,
         dialog = None, call = None
  PROVE  Explains(w)
  BY DEF Explains, CallFits, DialogFits

LEMMA RestFacts ==
  ASSUME NEW w, Explains(w), call = None
  PROVE  /\ vals = w /\ Good(w) /\ History(undoList, redoList, w)
         /\ RowsFit(rows, w) /\ DialogFits(dialog, rows, vals)
  BY LeadsGood DEF Explains, CallFits, History

LEMMA ListingFits ==
  ASSUME NEW w, Good(w), NEW l \in Listings(w)
  PROVE  RowsFit(l, w)
  BY ListingsFit DEF Good

(* A name that is not in the list is not taken, nor is it the empty one.   *)
LEMMA FreshIs ==
  ASSUME NEW w, RowsFit(rows, w), NEW x, Fresh(x)
  PROVE  x \notin DOMAIN w /\ x # Default
  BY TellsName DEF RowsFit, Fresh

LEMMA InitExplained == Init => HInv
<1> SUFFICES ASSUME Init PROVE \E w : Explains(w)
  BY InitInv DEF HInv
<1>1. PICK w : w = InitialValues
  OBVIOUS
<1>2. ASSUME NEW x \in DOMAIN w PROVE Neat(w[x])
  <2>1. w[x] \in KeyValue
    BY <1>1, <1>2, ValuesAssumption DEF IsKeyValues
  <2>2. w[x].type \in RegType /\ IsData(w[x].type, w[x].data)
    BY <2>1, ValueParts
  <2>3. w[x] = Stored(w[x].type, w[x].data)
    <3>1. PICK f : f = [n \in DOMAIN w |-> Stored(w[n].type, w[n].data)]
      OBVIOUS
    <3>2. w = f
      BY <1>1, <3>1, InitialAssumption
    <3> QED
      BY <3>1, <3>2
  <2> QED
    BY <2>2, <2>3, WrittenIsNeat
<1>3. Good(w)
  <2>1. w = [x \in DOMAIN w |-> w[x]]
    <3>1. PICK f : f = [n \in DOMAIN w |-> Stored(w[n].type, w[n].data)]
      OBVIOUS
    <3>2. w = f
      BY <1>1, <3>1, InitialAssumption
    <3> QED
      BY <3>1, <3>2
  <2> QED
    BY <1>1, <1>2, <2>1, ValuesAssumption DEF Good
<1>4. History(undoList, redoList, w)
  BY <1>1, <1>3, EmptyLeads DEF History, Init
<1>5. RowsFit(rows, w)
  BY <1>1, <1>3, ListingFits DEF Init
<1> QED
  BY <1>1, <1>4, <1>5, RestExplains DEF Init

LEMMA NewValueExplained ==
  ASSUME HInv, NEW n \in Name, NEW v \in Entered, Fresh(n), HandleNewIntValue(n, v)
  PROVE  \E w : Explains(w)'
<1> DEFINE c == [op |-> "create", name |-> n, type |-> v.type, data |-> v.data]
<1>1. v.type \in RegType /\ IsData(v.type, v.data)
  BY ValuesAssumption DEF Value
<1>2. c \in DataCommand /\ c.op = "create" /\ c.name = n
  BY <1>1, CommandType
<1> HIDE DEF c
<1>3. PICK o \in Execute(c) :
        /\ vals' = o.vals
        /\ IF o.ok THEN Recorded("edit", o.cmd) /\ rows' \in Listings(o.vals)
                   ELSE UNCHANGED <<lists, rows>>
  BY DEF HandleNewIntValue, c
<1>4. dialog = None /\ call = None /\ dialog' = None /\ call' = None
  BY DEF HandleNewIntValue, AtRest
<1>5. PICK w : Explains(w)
  BY DEF HInv
<1>6. /\ vals = w /\ Good(w) /\ History(undoList, redoList, w)
      /\ RowsFit(rows, w)
  BY <1>4, <1>5, RestFacts
<1>7. n \notin DOMAIN vals
  BY <1>6, FreshIs
<1>8. c \in Command /\ o \in CreateValue(c)
  BY <1>2, <1>3 DEF Execute, DataCommand
<1>9. CASE o = Refused(c)
  <2>1. o.ok = FALSE /\ o.vals = vals
    BY <1>9, RefusedIs
  <2>2. vals' = w /\ undoList' = undoList /\ redoList' = redoList /\ rows' = rows
    BY <1>3, <1>6, <2>1 DEF lists
  <2>3. Explains(w)'
    BY <1>4, <1>6, <2>2 DEF Explains, CallFits, DialogFits
  <2> QED
    BY <2>3
<1>10. CASE o # Refused(c)
  <2>1. /\ o.ok = TRUE /\ Good(o.vals) /\ o.cmd = c /\ Forth(c, vals, o.vals)
    BY <1>2, <1>6, <1>7, <1>8, <1>10, CreateOutcome
  <2>2. PICK u : u = o.vals
    OBVIOUS
  <2>3. Back(c, u, w)
    BY <1>2, <1>6, <2>1, <2>2 DEF Back
  <2>4. History(undoList', redoList', u)
    BY <1>3, <1>6, <1>8, <2>1, <2>2, <2>3, EditRecorded
  <2>5. RowsFit(rows', u)
    BY <1>3, <2>1, <2>2, ListingFits
  <2>6. Explains(u)'
    BY <1>3, <1>4, <2>2, <2>4, <2>5 DEF Explains, CallFits, DialogFits
  <2> QED
    BY <2>6
<1> QED
  BY <1>9, <1>10

LEMMA OnModifyValueExplained ==
  ASSUME HInv, NEW i \in DOMAIN rows, OnModifyValue(i)
  PROVE  \E w : Explains(w)'
<1>1. /\ AtRest /\ CanQuery(rows[i].name, rows[i].type)
      /\ dialog' = [row |-> i, name |-> rows[i].name, type |-> rows[i].type,
                    shown |-> Shown(rows[i], vals[rows[i].name].data)]
      /\ UNCHANGED <<vals, rows, lists, allowModify, call, changes>>
  BY DEF OnModifyValue
<1>2. PICK w : Explains(w)
  BY DEF HInv
<1>3. vals = w /\ History(undoList, redoList, w) /\ RowsFit(rows, w)
  BY <1>1, <1>2, RestFacts DEF AtRest
<1>4. DialogFits(dialog', rows, vals)
  BY <1>1 DEF DialogFits, CanQuery
<1>5. Explains(w)'
  BY <1>1, <1>3, <1>4 DEF Explains, CallFits, lists, AtRest
<1> QED
  BY <1>5

(* A row tells the type of its value, and all of it but the size of a      *)
(* multi-string.                                                           *)
LEMMA TellsType ==
  ASSUME NEW row, NEW n, NEW w, Tells(row, n, w)
  PROVE  row.type = w[n].type /\ (row.type # "multi" => row = RowOf(n, w[n]))
  BY DEF Tells, RowOf

(* The dialog that can be closed with OK belongs to the row that tells its *)
(* value.                                                                  *)
LEMMA DialogRow ==
  ASSUME HInv, dialog # None, dialog.type # "binary" => dialog.name # Default
  PROVE  \E w : /\ Explains(w) /\ call = None /\ vals = w /\ Good(w)
                /\ History(undoList, redoList, w) /\ RowsFit(rows, w)
                /\ dialog.row \in DOMAIN rows /\ dialog.name \in DOMAIN vals
                /\ rows[dialog.row] \in Row
                /\ rows[dialog.row].name = dialog.name
                /\ rows[dialog.row].type = dialog.type
                /\ dialog.shown = Shown(rows[dialog.row], vals[dialog.name].data)
                /\ ~Added(rows[dialog.row])
                /\ Tells(rows[dialog.row], dialog.name, vals)
<1>1. PICK w : Explains(w)
  BY DEF HInv
<1>2. call = None /\ dialog \in Dialog /\ rows \in Seq(Row)
  BY DEF HInv, IInv, TypeOK
<1>3. /\ vals = w /\ Good(w) /\ History(undoList, redoList, w) /\ RowsFit(rows, w)
      /\ DialogFits(dialog, rows, vals)
  BY <1>1, <1>2, RestFacts
<1>4. /\ dialog.row \in DOMAIN rows /\ dialog.name \in DOMAIN vals
      /\ rows[dialog.row].name = dialog.name
      /\ rows[dialog.row].type = dialog.type
      /\ dialog.shown = Shown(rows[dialog.row], vals[dialog.name].data)
  BY <1>3 DEF DialogFits
<1>5. rows[dialog.row] \in Row
  BY <1>2, <1>4, ElementOfSeq
<1>6. dialog.type \in RegType /\ dialog.type # "key"
  BY <1>2 DEF Dialog, RegType, IntType, TextType
<1>7. ~Added(rows[dialog.row])
  BY <1>4, <1>6 DEF Added
<1>8. Tells(rows[dialog.row], dialog.name, vals)
  BY <1>3, <1>4, <1>7 DEF RowsFit
<1> QED
  BY <1>1, <1>2, <1>3, <1>4, <1>5, <1>7, <1>8

(* Nothing but the dialog, the mode or the list made anew.                 *)
LEMMA StillExplained ==
  ASSUME HInv, call = None, UNCHANGED <<vals, lists, call>>, dialog' = None,
         rows' = rows \/ rows' \in Listings(vals)
  PROVE  \E w : Explains(w)'
<1>1. PICK w : Explains(w)
  BY DEF HInv
<1>2. vals = w /\ Good(w) /\ History(undoList, redoList, w) /\ RowsFit(rows, w)
  BY <1>1, RestFacts
<1>3. RowsFit(rows', w)
  BY <1>2, ListingFits
<1>4. Explains(w)'
  BY <1>2, <1>3 DEF Explains, CallFits, DialogFits, lists
<1> QED
  BY <1>4

LEMMA CloseDialogExplained ==
  ASSUME HInv, dialog # None, NEW data \in Delivered, CloseDialog(data)
  PROVE  \E w : Explains(w)'
<1> DEFINE text == IF dialog.type = "multi" THEN Trimmed(data) ELSE data
           c == [op |-> "change", name |-> dialog.name, type |-> dialog.type, data |-> text]
<1>2. PICK type, name, row : type = dialog.type /\ name = dialog.name /\ row = dialog.row
  OBVIOUS
<1>3. PICK w :
        /\ vals = w /\ Good(w) /\ History(undoList, redoList, w) /\ RowsFit(rows, w)
        /\ row \in DOMAIN rows /\ name \in DOMAIN vals /\ rows[row] \in Row
        /\ rows[row].name = name /\ rows[row].type = type
        /\ ~Added(rows[row]) /\ Tells(rows[row], name, vals)
  <2>1. dialog.type # "binary" => dialog.name # Default
    BY DEF CloseDialog
  <2> QED
    BY <1>2, <2>1, DialogRow
<1>4. call = None /\ dialog \in Dialog /\ type \in RegType
  BY <1>2 DEF HInv, IInv, TypeOK, Dialog
<1>5. IsData(type, data) /\ IsData(type, text) /\ data \in Seq(Nat)
  <2>1. IsData(dialog.type, data)
    BY DeliveredType DEF HInv
  <2>2. IsData(dialog.type, text)
    BY <2>1, TrimmedType DEF IsData, IntType
  <2> QED
    BY <1>2, <2>1, <2>2 DEF IsData
<1>6. PICK t : t = text
  OBVIOUS
<1>7. type # "multi" => t = data
  BY <1>2, <1>6
<1>8. /\ c \in Command /\ c.op = "change" /\ c.name = name /\ c.type = type /\ c.data = t
  <2>1. c \in DataCommand
    BY <1>4, <1>5, <1>2, CommandType DEF Dialog
  <2> QED
    BY <1>2, <1>6, <2>1 DEF DataCommand
<1> HIDE DEF c, text
<1>9. PICK o \in Execute(c) :
        /\ vals' = o.vals
        /\ IF o.ok
             THEN /\ Recorded("edit", o.cmd)
                  /\ rows' = IF type \in IntType THEN rows
                             ELSE [rows EXCEPT ![row].size = NewSize(type, data)]
             ELSE UNCHANGED <<lists, rows>>
  BY <1>2 DEF CloseDialog, c, text
<1>10. dialog' = None /\ call' = None
  BY <1>4 DEF CloseDialog
<1>11. vals[name].type = type /\ (type # "multi" => rows[row] = RowOf(name, vals[name]))
  BY <1>3, TellsType
<1>12. CASE o = Refused(c)
  <2>1. o.ok = FALSE /\ o.vals = vals
    BY <1>12, RefusedIs
  <2>2. UNCHANGED <<vals, lists, call>> /\ rows' = rows
    BY <1>4, <1>9, <1>10, <2>1 DEF lists
  <2> QED
    BY <1>4, <1>10, <2>2, StillExplained
<1>13. CASE o # Refused(c)
  <2>1. o \in ChangeValue(c)
    BY <1>8, <1>9 DEF Execute
  <2>9. PICK z \in Writable(type, t) : Changed(o, c, z)
    BY <1>3, <1>8, <1>11, <1>13, <2>1, ChangeOutcome
  <2>2. /\ o.ok = TRUE /\ o.vals = With(vals, name, z) /\ z.type = type
        /\ Neat(z) /\ Good(o.vals) /\ o.cmd.op = "change"
        /\ Forth(o.cmd, o.vals, vals)
    BY <1>8, <2>9 DEF Changed
  <2>3. PICK u, d : u = o.vals /\ d = o.cmd
    OBVIOUS
  <2>4. d \in Command /\ Back(d, u, w)
    BY <1>3, <2>2, <2>3 DEF Back, Forth
  <2>5. History(undoList', redoList', u)
    BY <1>3, <1>9, <2>2, <2>3, <2>4, EditRecorded
  <2>6. u[name] = z /\ u = With(w, name, z)
    BY <1>3, <2>2, <2>3 DEF With
  <2>7. CASE type \in IntType
    <3>1. rows' = rows
      BY <1>9, <2>2, <2>7
    <3>2. Tells(rows[row], name, u)
      <4>1. type # "multi"
        BY <2>7 DEF IntType
      <4>2. rows[row] = RowOf(name, u[name])
        BY <1>11, <2>2, <2>6, <2>7, <4>1 DEF RowOf, SizeOf
      <4> QED
        BY <4>2 DEF Tells
    <3>3. Patched(rows, row, rows)
      BY DEF Patched
    <3>4. RowsFit(rows, u)
      BY <1>3, <2>6, <3>2, <3>3, PatchFits
    <3>5. Explains(u)'
      BY <1>9, <1>10, <2>3, <2>5, <3>1, <3>4 DEF Explains, CallFits, DialogFits
    <3> QED
      BY <3>5
  <2>8. CASE type \notin IntType
    <3>1. PICK m : m = NewSize(type, data)
      OBVIOUS
    <3>2. PICK s : s = [rows EXCEPT ![row].size = m]
      OBVIOUS
    <3>3. rows' = s
      BY <1>9, <2>2, <2>8, <3>1, <3>2
    <3>4. Patched(rows, row, s) /\ s[row] = [name |-> name, type |-> type, size |-> m]
      <4>1. rows[row] = [name |-> name, type |-> type, size |-> rows[row].size]
        BY <1>3 DEF Row
      <4>2. s[row] = [rows[row] EXCEPT !.size = m]
        BY <1>3, <3>2
      <4> QED
        BY <3>2, <4>1, <4>2 DEF Patched
    <3>5. Tells(s[row], name, u)
      <4>1. CASE type = "multi"
        BY <2>2, <2>6, <3>4, <4>1 DEF Tells
      <4>2. CASE type # "multi"
        <5>1. z.data = data
          BY <1>4, <1>5, <1>6, <1>7, <2>2, <2>8, <4>2, WrittenIsNeat DEF IntType
        <5>2. m = Len(data) /\ SizeOf(z) = Len(data)
          BY <2>2, <2>8, <3>1, <4>2, <5>1 DEF NewSize, SizeOf
        <5>3. s[row] = RowOf(name, u[name])
          BY <2>2, <2>6, <3>4, <5>2 DEF RowOf
        <5> QED
          BY <5>3 DEF Tells
      <4> QED
        BY <4>1, <4>2
    <3>6. s[row].name = name /\ s[row].type = rows[row].type
      BY <1>3, <3>4
    <3>7. RowsFit(s, u)
      BY <1>3, <2>6, <3>4, <3>5, <3>6, PatchFits
    <3>8. Explains(u)'
      BY <1>9, <1>10, <2>3, <2>5, <3>3, <3>7 DEF Explains, CallFits, DialogFits
    <3> QED
      BY <3>8
  <2> QED
    BY <2>7, <2>8
<1> QED
  BY <1>12, <1>13

-----------------------------------------------------------------------------
(* The steps of a rename.                                                  *)

(* The command of a rename in progress leads from the values before it to  *)
(* the ones after it, and what the two stacks will then lead to.           *)
LEMMA RenameLeads ==
  ASSUME NEW w, History(undoList, redoList, w), NEW c \in Rename,
         c.name \in DOMAIN w, c.new \notin DOMAIN w,
         NEW by \in {"edit", "undo", "redo"}, CanMove(by),
         by = "undo" => c = Last(undoList), by = "redo" => c = Last(redoList),
         NEW v, v = Moved(w, c.name, c.new), Recorded(by, Reversed(c))
  PROVE  Good(v) /\ History(undoList', redoList', v)
<1>1. Good(w) /\ Leads("undo", undoList, w) /\ Leads("redo", redoList, w)
  BY LeadsGood DEF History
<1>2. c \in Command /\ c.op = "rename" /\ c.name \in Name /\ c.new \in Name
  BY CommandParts DEF Rename
<1>3. Good(v)
  BY <1>1, <1>2, GoodMoved
<1>4. Forth(c, w, v)
  BY <1>2 DEF Forth
<1>5. PICK d : d = Reversed(c)
  OBVIOUS
<1>6. Forth(d, v, w) /\ d.op = "rename" /\ d \in Command
  <2>1. Forth(d, v, w) /\ d.op = "rename"
    BY <1>1, <1>2, <1>4, <1>5, RenameTurns
  <2> QED
    BY <2>1 DEF Forth
<1>7. Back(d, v, w)
  BY <1>6 DEF Back
<1>8. CASE by = "edit"
  BY <1>3, <1>5, <1>6, <1>7, <1>8, EditRecorded
<1>9. CASE by = "undo"
  <2>1. PICK x : Takes("undo", c, w, x) /\ Leads("undo", Front(undoList), x)
    BY <1>1, <1>9, PopLeads DEF CanMove
  <2>2. x = v
    BY <1>2, <2>1 DEF Takes, Back, Forth
  <2> QED
    BY <1>1, <1>3, <1>5, <1>6, <1>9, <2>1, <2>2, UndoRecorded
<1>10. CASE by = "redo"
  <2>1. PICK x : Takes("redo", c, w, x) /\ Leads("redo", Front(redoList), x)
    BY <1>1, <1>10, PopLeads DEF CanMove
  <2>2. x = v
    BY <1>2, <2>1 DEF Takes, Forth
  <2> QED
    BY <1>1, <1>3, <1>5, <1>6, <1>7, <1>10, <2>1, <2>2, RedoRecorded
<1> QED
  BY <1>8, <1>9, <1>10

LEMMA StartRenameExplained ==
  ASSUME HInv, AtRest, NEW by \in {"edit", "undo", "redo"}, CanMove(by),
         NEW row, NEW c \in Rename, StartRename(by, row, c),
         by = "edit" => /\ row \in DOMAIN rows /\ rows[row].name = c.name
                        /\ c.name # Default /\ Fresh(c.new),
         by = "undo" => c = Last(undoList), by = "redo" => c = Last(redoList)
  PROVE  \E w : Explains(w)'
<1> DEFINE k == [by |-> by, row |-> row, cmd |-> c, wrote |-> FALSE]
<1>1. UNCHANGED <<vals, dialog>> /\ dialog = None /\ call = None
  BY DEF StartRename, AtRest
<1>2. PICK w : Explains(w)
  BY DEF HInv
<1>3. vals = w /\ Good(w) /\ History(undoList, redoList, w) /\ RowsFit(rows, w)
  BY <1>1, <1>2, RestFacts
<1>4. CASE FinishRename(k, FALSE)
  <2>1. call' = None /\ UNCHANGED lists /\ (rows' = rows \/ rows' \in Listings(vals))
    BY <1>1, <1>4 DEF FinishRename
  <2> QED
    BY <1>1, <2>1, StillExplained
<1> HIDE DEF k
<1>5. CASE /\ c.name \in DOMAIN vals /\ UNCHANGED <<rows, lists>>
           /\ call' = [by |-> by, row |-> row, cmd |-> c, read |-> vals[c.name], wrote |-> FALSE]
  <2>1. c.new \notin DOMAIN w
    <3>1. CASE by = "edit"
      BY <1>3, <3>1, FreshIs
    <3>2. CASE by = "undo"
      <4>1. PICK x : Takes("undo", c, w, x)
        BY <1>3, <3>2, PopLeads DEF History, CanMove
      <4> QED
        BY <4>1, CommandParts DEF Takes, Back, Forth
    <3>3. CASE by = "redo"
      <4>1. PICK x : Takes("redo", c, w, x)
        BY <1>3, <3>3, PopLeads DEF History, CanMove
      <4> QED
        BY <4>1, CommandParts DEF Takes, Forth
    <3> QED
      BY <3>1, <3>2, <3>3
  <2>2. CallFits(call', rows, undoList, redoList, vals, w)
    <3>1. PICK q : q = call'
      OBVIOUS
    <3>2. q.by = by /\ q.row = row /\ q.cmd = c /\ q.read = w[c.name] /\ q.wrote = FALSE
      BY <1>3, <1>5, <3>1
    <3>3. q = None => q.wrote = FALSE
      BY <3>2
    <3>4. \A i \in DOMAIN rows : by = "edit" => rows[i].name # c.new
      BY DEF Fresh
    <3>5. q # None => CallFits(q, rows, undoList, redoList, vals, w)
      BY <1>3, <1>5, <2>1, <3>2, <3>4 DEF CallFits
    <3>6. q = None => CallFits(q, rows, undoList, redoList, vals, w)
      BY <1>3 DEF CallFits
    <3> QED
      BY <3>1, <3>5, <3>6
  <2>3. Explains(w)'
    BY <1>1, <1>3, <1>5, <2>2 DEF Explains, DialogFits, lists
  <2> QED
    BY <2>3
<1> QED
  BY <1>4, <1>5 DEF StartRename, k

LEMMA RenameStepExplained ==
  ASSUME HInv, RenameStep, call.wrote => vals' # vals
  PROVE  \E w : Explains(w)'
<1>1. /\ call # None /\ call \in Call /\ CanMove(call.by) /\ call.cmd \in Rename
      /\ call.by \in {"edit", "undo", "redo"} /\ dialog = None /\ dialog' = None
      /\ rows \in Seq(Row)
  BY DEF RenameStep, HInv, IInv, TypeOK, Call
<1>2. PICK w : Explains(w)
  BY DEF HInv
<1>3. PICK c, by, row, a, b : /\ c = call.cmd /\ by = call.by /\ row = call.row
                              /\ a = c.name /\ b = c.new
  OBVIOUS
<1>4. /\ History(undoList, redoList, w) /\ RowsFit(rows, w) /\ Good(w)
      /\ a \in DOMAIN w /\ b \notin DOMAIN w /\ call.read = w[a]
      /\ vals = IF call.wrote THEN With(w, b, w[a]) ELSE w
      /\ by = "edit" => /\ row \in DOMAIN rows /\ rows[row].name = a
                        /\ a # Default /\ \A i \in DOMAIN rows : rows[i].name # b
      /\ by = "undo" => c = Last(undoList)
      /\ by = "redo" => c = Last(redoList)
  BY <1>1, <1>2, <1>3, LeadsGood DEF Explains, CallFits, History
<1>5. CASE /\ ~call.wrote /\ vals' = Written(b, call.read)
           /\ call' = [call EXCEPT !.wrote = TRUE] /\ UNCHANGED <<rows, lists>>
  <2>1. vals' = With(w, b, w[a])
    BY <1>4, <1>5 DEF Written, With
  <2>2. PICK q : q = call'
    OBVIOUS
  <2>3. /\ q.by = by /\ q.row = row /\ q.cmd = c /\ q.read = w[a] /\ q.wrote = TRUE
        /\ q # None
    <3>1. /\ q.by = by /\ q.row = row /\ q.cmd = c /\ q.read = w[a] /\ q.wrote = TRUE
          /\ q \in Call
      BY <1>1, <1>3, <1>4, <1>5, <2>2 DEF Call
    <3> QED
      BY <3>1, NoneIsNone
  <2>4. CallFits(q, rows, undoList, redoList, vals', w)
    BY <1>3, <1>4, <2>1, <2>3 DEF CallFits
  <2>5. Explains(w)'
    BY <1>1, <1>4, <1>5, <2>2, <2>4 DEF Explains, DialogFits, lists
  <2> QED
    BY <2>5
<1>6. CASE call.wrote /\ vals' = Without(a) /\ FinishRename(call, TRUE)
  <2>1. PICK v : v = Moved(w, a, b)
    OBVIOUS
  <2>2. vals' = v
    BY <1>4, <1>6, <2>1 DEF Without, Moved, Removed
  <2>3. /\ call' = None /\ Recorded(by, Reversed(c))
        /\ IF by # "edit" THEN rows' \in Listings(vals') ELSE rows' = [rows EXCEPT ![row].name = b]
    BY <1>3, <1>6 DEF FinishRename, Reversed
  <2>4. Good(v) /\ History(undoList', redoList', v)
    BY <1>1, <1>3, <1>4, <2>1, <2>3, RenameLeads
  <2>5. CASE by # "edit"
    <3>1. RowsFit(rows', v)
      BY <2>2, <2>3, <2>4, <2>5, ListingFits
    <3>2. Explains(v)'
      BY <1>1, <2>2, <2>3, <2>4, <3>1 DEF Explains, CallFits, DialogFits
    <3> QED
      BY <3>2
  <2>6. CASE by = "edit"
    <3>1. PICK s : s = [rows EXCEPT ![row].name = b]
      OBVIOUS
    <3>2. row \in DOMAIN rows /\ rows[row].name = a /\ rows[row] \in Row
      BY <1>1, <1>4, <2>6, ElementOfSeq
    <3>3. Patched(rows, row, s) /\ s[row] = [rows[row] EXCEPT !.name = b]
      BY <3>1, <3>2 DEF Patched
    <3>4. RowsFit(s, v)
      BY <1>4, <2>1, <2>6, <3>2, <3>3, RenameFits
    <3>5. Explains(v)'
      BY <1>1, <2>2, <2>3, <2>4, <2>6, <3>1, <3>4 DEF Explains, CallFits, DialogFits
    <3> QED
      BY <3>5
  <2> QED
    BY <2>5, <2>6
<1>7. CASE UNCHANGED vals /\ FinishRename(call, FALSE)
  <2>1. vals = w /\ vals' = w
    BY <1>4, <1>7
  <2>2. /\ call' = None /\ undoList' = undoList /\ redoList' = redoList
        /\ rows' = rows \/ rows' \in Listings(w)
    BY <1>7, <2>1 DEF FinishRename, lists
  <2>3. RowsFit(rows', w)
    BY <1>4, <2>2, ListingFits
  <2>4. Explains(w)'
    BY <1>1, <1>4, <2>1, <2>2, <2>3 DEF Explains, CallFits, DialogFits
  <2> QED
    BY <2>4
<1> QED
  BY <1>3, <1>5, <1>6, <1>7 DEF RenameStep

-----------------------------------------------------------------------------
(* Undo, Redo and the whole step.                                          *)

LEMMA OnEditUndoExplained ==
  ASSUME HInv, OnEditUndo
  PROVE  \E w : Explains(w)'
<1>1. PICK c : c = Last(undoList)
  OBVIOUS
<1>2. /\ AtRest /\ call = None /\ dialog = None /\ undoList # <<>> /\ CanMove("undo")
      /\ Rerun("undo", c, UndoCommand(c))
  BY <1>1 DEF OnEditUndo, AtRest, CanMove
<1>3. PICK w : Explains(w)
  BY DEF HInv
<1>4. vals = w /\ Good(w) /\ History(undoList, redoList, w) /\ RowsFit(rows, w)
  BY <1>2, <1>3, RestFacts
<1>5. c \in Command /\ \E v : Good(v) /\ Takes("undo", c, w, v) /\ Leads("undo", Front(undoList), v)
  BY <1>1, <1>2, <1>4, PopLeads DEF History
<1>6. CASE c.op = "rename"
  <2>1. c \in Rename /\ StartRename("undo", 0, c)
    BY <1>2, <1>5, <1>6 DEF Rerun, Rename
  <2> QED
    BY <1>1, <1>2, <2>1, StartRenameExplained
<1>7. CASE c.op # "rename"
  <2>1. PICK v : Good(v) /\ Back(c, w, v) /\ Leads("undo", Front(undoList), v)
    BY <1>5 DEF Takes
  <2>2. PICK o \in UndoCommand(c) :
          /\ vals' = o.vals
          /\ IF o.ok THEN Recorded("undo", o.cmd) ELSE UNCHANGED lists
          /\ rows' \in Listings(vals')
          /\ UNCHANGED <<dialog, call>>
    BY <1>2, <1>7 DEF Rerun
  <2>3. TakenTo(o, v)
    BY <1>4, <1>7, <2>1, <2>2, UndoLeads
  <2>4. CASE o.ok
    <3>1. vals' = v /\ Forth(o.cmd, v, w) /\ Recorded("undo", o.cmd)
      BY <1>4, <2>2, <2>3, <2>4 DEF TakenTo
    <3>2. o.cmd \in Command
      BY <3>1 DEF Forth
    <3>3. History(undoList', redoList', v)
      BY <1>4, <2>1, <3>1, <3>2, UndoRecorded DEF History
    <3>4. RowsFit(rows', v)
      BY <2>1, <2>2, <3>1, ListingFits
    <3>5. Explains(v)'
      BY <1>2, <2>2, <3>1, <3>3, <3>4 DEF Explains, CallFits, DialogFits
    <3> QED
      BY <3>5
  <2>5. CASE ~o.ok
    <3>1. UNCHANGED <<vals, lists, call>> /\ dialog' = None /\ rows' \in Listings(vals)
      BY <1>2, <2>2, <2>3, <2>5 DEF TakenTo
    <3> QED
      BY <1>2, <3>1, StillExplained
  <2> QED
    BY <2>4, <2>5
<1> QED
  BY <1>6, <1>7

LEMMA OnEditRedoExplained ==
  ASSUME HInv, OnEditRedo
  PROVE  \E w : Explains(w)'
<1>1. PICK c : c = Last(redoList)
  OBVIOUS
<1>2. /\ AtRest /\ call = None /\ dialog = None /\ redoList # <<>> /\ CanMove("redo")
      /\ Rerun("redo", c, Execute(c))
  BY <1>1 DEF OnEditRedo, AtRest, CanMove
<1>3. PICK w : Explains(w)
  BY DEF HInv
<1>4. vals = w /\ Good(w) /\ History(undoList, redoList, w) /\ RowsFit(rows, w)
  BY <1>2, <1>3, RestFacts
<1>5. c \in Command /\ \E v : Good(v) /\ Takes("redo", c, w, v) /\ Leads("redo", Front(redoList), v)
  BY <1>1, <1>2, <1>4, PopLeads DEF History
<1>6. CASE c.op = "rename"
  <2>1. c \in Rename /\ StartRename("redo", 0, c)
    BY <1>2, <1>5, <1>6 DEF Rerun, Rename
  <2> QED
    BY <1>1, <1>2, <2>1, StartRenameExplained
<1>7. CASE c.op # "rename"
  <2>1. PICK v : Good(v) /\ Forth(c, w, v) /\ Leads("redo", Front(redoList), v)
    BY <1>5 DEF Takes
  <2>2. PICK o \in Execute(c) :
          /\ vals' = o.vals
          /\ IF o.ok THEN Recorded("redo", o.cmd) ELSE UNCHANGED lists
          /\ rows' \in Listings(vals')
          /\ UNCHANGED <<dialog, call>>
    BY <1>2, <1>7 DEF Rerun
  <2>3. Redone(o, v)
    BY <1>4, <1>7, <2>1, <2>2, ExecuteLeads
  <2>4. CASE o.ok
    <3>1. vals' = v /\ Back(o.cmd, v, w) /\ Recorded("redo", o.cmd)
      BY <1>4, <2>2, <2>3, <2>4 DEF Redone
    <3>2. o.cmd \in Command
      BY <3>1 DEF Back, Forth
    <3>3. History(undoList', redoList', v)
      BY <1>4, <2>1, <3>1, <3>2, RedoRecorded DEF History
    <3>4. RowsFit(rows', v)
      BY <2>1, <2>2, <3>1, ListingFits
    <3>5. Explains(v)'
      BY <1>2, <2>2, <3>1, <3>3, <3>4 DEF Explains, CallFits, DialogFits
    <3> QED
      BY <3>5
  <2>5. CASE ~o.ok
    <3>1. UNCHANGED <<vals, lists, call>> /\ dialog' = None /\ rows' \in Listings(vals)
      BY <1>2, <2>2, <2>3, <2>5 DEF Redone
    <3> QED
      BY <1>2, <3>1, StillExplained
  <2> QED
    BY <2>4, <2>5
<1> QED
  BY <1>6, <1>7

LEMMA NextExplained == HInv /\ [NextCareful]_vars => HInv'
<1> SUFFICES ASSUME HInv, [NextCareful]_vars PROVE HInv'
  OBVIOUS
<1>1. NextCareful => NextAlone
  BY DEF NextCareful, NextAlone
<1>2. IInv'
  BY <1>1, NextAloneInv, StutterInv DEF HInv
<1>3. CASE Edit
  <2> SUFFICES \E w : Explains(w)'
    BY <1>2 DEF HInv
  <2>1. CASE \E i \in DOMAIN rows : OnModifyValue(i)
    BY <2>1, OnModifyValueExplained
  <2>2. CASE CancelDialog
    <3>1. call = None /\ dialog' = None /\ UNCHANGED <<vals, rows, lists, call>>
      BY <2>2 DEF CancelDialog, HInv, IInv
    <3> QED
      BY <3>1, StillExplained
  <2>3. CASE dialog # None /\ \E data \in Delivered : CloseDialog(data)
    BY <2>3, CloseDialogExplained
  <2>4. CASE OnEditUndo \/ OnEditRedo
    BY <2>4, OnEditUndoExplained, OnEditRedoExplained
  <2>5. CASE OnRefresh
    BY <2>5, StillExplained DEF OnRefresh, AtRest
  <2>6. CASE OnEditModify
    BY <2>6, StillExplained DEF OnEditModify, AtRest
  <2> QED
    BY <1>3, <2>1, <2>2, <2>3, <2>4, <2>5, <2>6 DEF Edit
<1>4. CASE RenameStep /\ (call.wrote => vals' # vals)
  BY <1>2, <1>4, RenameStepExplained DEF HInv
<1>5. CASE \E n \in Name, v \in Entered : Fresh(n) /\ HandleNewIntValue(n, v)
  BY <1>2, <1>5, NewValueExplained DEF HInv
<1>6. CASE \E i \in DOMAIN rows, x \in Name : rows[i].name # Default /\ Fresh(x) /\ OnEndRename(i, x)
  <2>1. PICK i \in DOMAIN rows, x \in Name : rows[i].name # Default /\ Fresh(x) /\ OnEndRename(i, x)
    BY <1>6
  <2>2. rows[i] \in Row /\ rows[i].name \in Name
    <3>1. rows[i] \in Row
      BY ElementOfSeq DEF HInv, IInv, TypeOK
    <3> QED
      BY <3>1 DEF Row
  <2>3. PICK c : c = [op |-> "rename", name |-> rows[i].name, new |-> x]
    OBVIOUS
  <2>4. AtRest /\ rows[i].name # x /\ StartRename("edit", i, c)
    BY <2>1, <2>3 DEF OnEndRename
  <2>5. c \in Rename /\ c.name = rows[i].name /\ c.new = x
    BY <2>2, <2>3, <2>4, RenameType
  <2>6. \E w : Explains(w)'
    BY <2>1, <2>4, <2>5, StartRenameExplained DEF CanMove
  <2> QED
    BY <1>2, <2>6 DEF HInv
<1>7. CASE UNCHANGED vars
  <2>1. PICK w : Explains(w)
    BY DEF HInv
  <2>2. Explains(w)'
    BY <1>7, <2>1 DEF vars, Explains
  <2> QED
    BY <1>2, <2>2 DEF HInv
<1> QED
  BY <1>3, <1>4, <1>5, <1>6, <1>7 DEF NextCareful

LEMMA CarefulExplained == SpecCareful => []HInv
  BY InitExplained, NextExplained, PTL DEF SpecCareful

(* The list shows the values of the key after every handler, although a    *)
(* change and a rename patch one row: no row is stale, none is missing and *)
(* none is left over, whatever was edited, undone and refused before.      *)
THEOREM ListShowsValues == SpecCareful => []RowsShowValues
<1>1. HInv => RowsShowValues
  <2> SUFFICES ASSUME HInv, call = None
               PROVE  /\ \A n \in DOMAIN vals : \E i \in DOMAIN rows : Describes(rows[i], n)
                      /\ \A i, k \in DOMAIN rows : rows[i].name = rows[k].name /\ i # k => rows[i].name = Default
                      /\ \A i \in DOMAIN rows : rows[i].name # Default => rows[i].name \in DOMAIN vals
    BY DEF RowsShowValues
  <2>1. PICK w : Explains(w)
    BY DEF HInv
  <2>2. RowsFit(rows, vals)
    BY <2>1, RestFacts
  <2>3. \A row, n : Tells(row, n, vals) <=> Describes(row, n)
    BY DEF Tells, Describes
  <2>4. \A n \in DOMAIN vals : \E i \in DOMAIN rows : Describes(rows[i], n)
    BY <2>2, <2>3 DEF RowsFit
  <2>5. \A i, k \in DOMAIN rows : rows[i].name = rows[k].name /\ i # k => rows[i].name = Default
    BY <2>2 DEF RowsFit, Added
  <2>6. \A i \in DOMAIN rows : rows[i].name # Default => rows[i].name \in DOMAIN vals
    BY <2>2 DEF RowsFit, Added
  <2> QED
    BY <2>4, <2>5, <2>6
<1> QED
  BY <1>1, CarefulExplained, PTL

(* What NextUndoRedoApply asks of the command to undo and to redo.         *)
Applies(c, isUndo) ==
  CASE c.op = "create" -> (c.name \in DOMAIN vals) = isUndo
    [] c.op = "change" -> c.name \in DOMAIN vals /\ vals[c.name].type = c.type
    [] c.op = "rename" -> c.name \in DOMAIN vals /\ c.new \notin DOMAIN vals

(* The next Undo and the next Redo can always be applied: a value is       *)
(* there, and of the type its command says, when the command's turn comes, *)
(* and a name is free.                                                     *)
THEOREM ValueUndoRedoApply == SpecCareful => []NextUndoRedoApply
<1>1. HInv => NextUndoRedoApply
  <2> SUFFICES ASSUME HInv, call = None
               PROVE  /\ undoList # <<>> => Applies(Last(undoList), TRUE)
                      /\ redoList # <<>> => Applies(Last(redoList), FALSE)
    BY DEF NextUndoRedoApply, Applies
  <2>1. PICK w : Explains(w)
    BY DEF HInv
  <2>2. vals = w /\ History(undoList, redoList, w)
    BY <2>1, RestFacts
  <2>3. ASSUME undoList # <<>>, NEW c, c = Last(undoList)
        PROVE  Applies(c, TRUE)
    <3>1. PICK v : Takes("undo", c, vals, v)
      BY <2>2, <2>3, PopLeads DEF History
    <3>2. Back(c, vals, v)
      BY <3>1 DEF Takes
    <3>3. c.op = "create" => c.name \in DOMAIN vals
      BY <3>2 DEF Back, Forth, With
    <3> QED
      BY <3>2, <3>3 DEF Back, Forth, Applies
  <2>4. ASSUME redoList # <<>>, NEW c, c = Last(redoList)
        PROVE  Applies(c, FALSE)
    <3>1. PICK v : Takes("redo", c, vals, v)
      BY <2>2, <2>4, PopLeads DEF History
    <3>2. Forth(c, vals, v)
      BY <3>1 DEF Takes
    <3>3. c.op = "create" => (c.name \in DOMAIN vals) = FALSE
      BY <3>2 DEF Forth
    <3>4. c.op = "change" => c.name \in DOMAIN vals /\ vals[c.name].type = c.type
      BY <3>2 DEF Forth
    <3>5. c.op = "rename" => c.name \in DOMAIN vals /\ c.new \notin DOMAIN vals
      BY <3>2 DEF Forth
    <3>6. c.op \in {"create", "change", "rename"}
      BY <3>2 DEF Forth
    <3> QED
      BY <3>3, <3>4, <3>5, <3>6 DEF Applies
  <2> QED
    BY <2>3, <2>4
<1> QED
  BY <1>1, CarefulExplained, PTL

(* A function that takes back the commands is the one TakenBack means.     *)
LEMMA TakenBackIs ==
  ASSUME NEW w, NEW s, Len(s) \in Nat, NEW f,
         f = [n \in 0 .. Len(s) |-> IF n = 0 THEN w ELSE Undone(f[n - 1], s[Len(s) + 1 - n])]
  PROVE  TakenBack(w, s) = f[Len(s)]
<1> DEFINE Before(h) == h = [n \in 0 .. Len(s) |->
                               IF n = 0 THEN w ELSE Undone(h[n - 1], s[Len(s) + 1 - n])]
           g == CHOOSE h : Before(h)
           T == {n \in 0 .. Len(s) : g[n] # f[n]}
<1>1. Before(g)
  OBVIOUS
<1>2. TakenBack(w, s) = g[Len(s)]
  BY DEF TakenBack
<1> HIDE DEF g
<1>3. ASSUME NEW h, Before(h), NEW n \in 0 .. Len(s)
      PROVE  h[n] = IF n = 0 THEN w ELSE Undone(h[n - 1], s[Len(s) + 1 - n])
  <2>1. PICK k : k = [i \in 0 .. Len(s) |-> IF i = 0 THEN w ELSE Undone(h[i - 1], s[Len(s) + 1 - i])]
    OBVIOUS
  <2>2. h = k
    BY <1>3, <2>1
  <2>3. k[n] = IF n = 0 THEN w ELSE Undone(h[n - 1], s[Len(s) + 1 - n])
    BY <2>1
  <2> QED
    BY <2>2, <2>3
<1>4. Before(f)
  OBVIOUS
<1> HIDE DEF Before
<1>5. \A h : Before(h) => /\ h[0] = w
                          /\ \A n \in 1 .. Len(s) : h[n] = Undone(h[n - 1], s[Len(s) + 1 - n])
  <2> SUFFICES ASSUME NEW h, Before(h)
               PROVE  /\ h[0] = w
                      /\ \A n \in 1 .. Len(s) : h[n] = Undone(h[n - 1], s[Len(s) + 1 - n])
    OBVIOUS
  <2>1. 0 \in 0 .. Len(s) /\ \A n \in 1 .. Len(s) : n \in 0 .. Len(s) /\ n # 0
    OBVIOUS
  <2>2. h[0] = w
    BY <1>3, <2>1
  <2>3. ASSUME NEW n \in 1 .. Len(s) PROVE h[n] = Undone(h[n - 1], s[Len(s) + 1 - n])
    BY <1>3, <2>1
  <2> QED
    BY <2>2, <2>3
<1>6. /\ g[0] = f[0]
      /\ \A n \in 1 .. Len(s) : /\ g[n] = Undone(g[n - 1], s[Len(s) + 1 - n])
                                /\ f[n] = Undone(f[n - 1], s[Len(s) + 1 - n])
  BY <1>1, <1>4, <1>5
<1>7. T = {}
  <2> SUFFICES ASSUME T # {} PROVE FALSE
    OBVIOUS
  <2>1. T \in SUBSET Nat
    OBVIOUS
  <2>2. PICK n \in T : \A k \in T : n <= k
    BY <2>1, LeastNumber
  <2>3. n \in 1 .. Len(s) /\ g[n - 1] = f[n - 1]
    <3>1. n \in 0 .. Len(s) /\ n # 0
      BY <1>6
    <3>2. n - 1 \in 0 .. Len(s) /\ n - 1 \notin T
      BY <2>2, <3>1
    <3> QED
      BY <3>1, <3>2
  <2> QED
    BY <1>6, <2>3
<1>8. Len(s) \in 0 .. Len(s)
  OBVIOUS
<1> QED
  BY <1>2, <1>7, <1>8

(* Undoing every command on the stack gives back the values of the start:  *)
(* each command on it holds what undoing it must write, through any number *)
(* of undos, redos and renames of its value.                               *)
THEOREM UndoReturnsValues == SpecCareful => []UndoGivesValuesBack
<1>1. HInv => UndoGivesValuesBack
  <2> SUFFICES ASSUME HInv, call = None PROVE TakenBack(vals, undoList) = InitialValues
    BY DEF UndoGivesValuesBack
  <2>1. PICK w : Explains(w)
    BY DEF HInv
  <2>2. vals = w /\ History(undoList, redoList, w)
    BY <2>1, RestFacts
  <2>3. PICK N : Chain("undo", undoList, N) /\ N[Len(undoList)] = w
    BY <2>2 DEF History, Leads
  <2>4. PICK m \in Nat : m = Len(undoList)
    BY <2>3, LenProperties DEF Chain
  <2>5. /\ N[0] = InitialValues
        /\ \A i \in 1 .. m : Undone(N[i], undoList[i]) = N[i - 1]
    <3>1. N[0] = InitialValues
      BY <2>3 DEF Chain
    <3>2. ASSUME NEW i \in 1 .. m PROVE Undone(N[i], undoList[i]) = N[i - 1]
      <4>1. i - 1 \in 0 .. m
        BY <2>4
      <4>2. Good(N[i - 1]) /\ Back(undoList[i], N[i], N[i - 1])
        BY <2>3, <2>4, <4>1 DEF Chain, Takes
      <4> QED
        BY <4>2, UndoneIs
    <3> QED
      BY <3>1, <3>2
  <2> DEFINE f == [n \in 0 .. m |-> N[m - n]]
  <2>6. f[0] = w /\ f[m] = InitialValues
    <3>1. f[0] = N[m - 0] /\ f[m] = N[m - m] /\ m - 0 = m /\ m - m = 0
      BY <2>4
    <3> QED
      BY <2>3, <2>4, <2>5, <3>1
  <2>7. ASSUME NEW n \in 1 .. m PROVE f[n] = Undone(f[n - 1], undoList[m + 1 - n])
    <3>1. PICK i : i = m + 1 - n
      OBVIOUS
    <3>2. i \in 1 .. m /\ i - 1 = m - n /\ m - (n - 1) = i /\ n \in 0 .. m /\ n - 1 \in 0 .. m
      BY <2>4, <3>1
    <3>3. f[n] = N[i - 1] /\ f[n - 1] = N[i]
      BY <3>2
    <3> QED
      BY <2>5, <3>1, <3>2, <3>3
  <2>8. f = [n \in 0 .. m |-> IF n = 0 THEN vals ELSE Undone(f[n - 1], undoList[m + 1 - n])]
    <3>1. ASSUME NEW n \in 0 .. m
          PROVE  f[n] = IF n = 0 THEN vals ELSE Undone(f[n - 1], undoList[m + 1 - n])
      <4>1. n = 0 \/ n \in 1 .. m
        BY <2>4
      <4> HIDE DEF f
      <4> QED
        BY <2>2, <2>6, <2>7, <4>1
    <3>2. f = [n \in 0 .. m |-> f[n]]
      OBVIOUS
    <3> HIDE DEF f
    <3> QED
      BY <3>1, <3>2
  <2> HIDE DEF f
  <2> QED
    BY <2>4, <2>6, <2>8, TakenBackIs
<1> QED
  BY <1>1, CarefulExplained, PTL

(* OK on a dialog that shows what it showed at first changes no value: of  *)
(* a multi-string the lines are written as the strings they were, of a     *)
(* binary value no byte is added, although both are read with the size of  *)
(* the row, and the row's size was set by the dialog before.               *)
THEOREM UntouchedOkWritesBack == SpecCareful => UntouchedOkKeepsValues
<1>1. ASSUME HInv, dialog # None, CloseDialog(dialog.shown)
      PROVE  vals' = vals
  <2>1. PICK type, name, row, data :
          type = dialog.type /\ name = dialog.name /\ row = rows[dialog.row] /\ data = dialog.shown
    OBVIOUS
  <2>2. /\ type # "binary" => name # Default /\ data # <<>>
        /\ type \notin IntType \union TextType
    BY <1>1, <2>1 DEF CloseDialog
  <2>3. /\ Good(vals) /\ name \in DOMAIN vals /\ row \in Row /\ row.type = type
        /\ data = Shown(row, vals[name].data) /\ Tells(row, name, vals)
    BY <1>1, <2>1, <2>2, DialogRow
  <2>4. PICK v : v = vals[name]
    OBVIOUS
  <2>5. /\ v.type = type /\ (type # "multi" => row = RowOf(name, v))
        /\ Neat(v) /\ type \in RegType /\ v.data \in Seq(Nat)
        /\ v = [type |-> v.type, data |-> v.data]
    <3>1. v.type = type /\ (type # "multi" => row = RowOf(name, v))
      BY <2>3, <2>4, TellsType
    <3>2. Neat(v)
      BY <2>3, <2>4 DEF Good
    <3> QED
      BY <3>1, <3>2, ValueParts DEF Neat
  <2>6. PICK t : t = IF type = "multi" THEN Trimmed(data) ELSE data
    OBVIOUS
  <2>7. Writable(type, t) = {v}
    <3>1. CASE type = "multi"
      <4>1. data = SubSeq(v.data, 1, Len(v.data) - 1)
        BY <2>3, <2>4, <3>1 DEF Shown
      <4>2. Ended(v.data) /\ data # <<>>
        BY <2>2, <2>5, <3>1 DEF Neat
      <4>3. Writable("multi", Trimmed(data)) = {[type |-> "multi", data |-> v.data]}
        BY <4>1, <4>2, LinesAgain
      <4> QED
        BY <2>5, <2>6, <3>1, <4>3
    <3>2. CASE type = "binary"
      <4>1. PICK d : d = v.data
        OBVIOUS
      <4>2. PICK n : n = row.size - Len(d)
        OBVIOUS
      <4>3. PICK pad : pad = [k \in 1 .. n |-> 0]
        OBVIOUS
      <4>4. data = d \o pad
        BY <2>3, <2>4, <3>2, <4>1, <4>2, <4>3 DEF Shown
      <4>5. n = 0 /\ d \in Seq(Nat) /\ Len(d) \in Nat
        <5>1. row.size = Len(d)
          BY <2>5, <3>2, <4>1 DEF RowOf, SizeOf, IntType
        <5> QED
          BY <2>5, <4>1, <4>2, <5>1, LenProperties
      <4>6. pad \in Seq(Nat) /\ Len(pad) = 0
        BY <4>3, <4>5
      <4>7. data = d
        <5>1. data \in Seq(Nat) /\ Len(data) = Len(d) + Len(pad)
          BY <4>4, <4>5, <4>6, ConcatProperties
        <5>2. \A i \in 1 .. Len(data) : data[i] = IF i <= Len(d) THEN d[i] ELSE pad[i - Len(d)]
          BY <4>4, <4>5, <4>6, ConcatProperties
        <5>3. Len(data) = Len(d) /\ \A i \in 1 .. Len(d) : data[i] = d[i]
          BY <4>5, <4>6, <5>1, <5>2
        <5> QED
          BY <4>5, <5>1, <5>3, SeqEqual
      <4>8. t = v.data
        BY <2>6, <3>2, <4>1, <4>7
      <4> QED
        BY <2>5, <4>8, NeatAgain
    <3> QED
      BY <2>2, <2>5, <3>1, <3>2 DEF RegType
  <2>8. PICK c : c = [op |-> "change", name |-> name, type |-> type, data |-> t]
    OBVIOUS
  <2>9. PICK o \in Execute(c) : vals' = o.vals
    BY <1>1, <2>1, <2>6, <2>8 DEF CloseDialog
  <2>10. c.op = "change" /\ c.name = name /\ c.type = type /\ c.data = t
    BY <2>8
  <2>11. o = Refused(c) \/ o.vals = With(vals, name, v)
    BY <2>7, <2>9, <2>10 DEF Execute, ChangeValue, Outcome, Written, With
  <2>12. With(vals, name, v) = vals
    <3>1. PICK u : u = With(vals, name, v)
      OBVIOUS
    <3>2. /\ DOMAIN u = DOMAIN vals /\ \A x \in DOMAIN u : u[x] = vals[x]
          /\ u = [x \in DOMAIN u |-> u[x]]
      BY <2>3, <2>4, <3>1 DEF With
    <3>3. vals = [x \in DOMAIN vals |-> vals[x]]
      BY <2>3 DEF Good
    <3>4. u = vals
      BY <3>2, <3>3, SameFunction
    <3> QED
      BY <3>1, <3>4
  <2> QED
    BY <2>9, <2>11, <2>12, RefusedIs
<1>2. HInv /\ [NextCareful]_vars =>
        [dialog # None /\ CloseDialog(dialog.shown) => vals' = vals]_vars
  BY <1>1
<1> QED
  BY <1>2, InitExplained, NextExplained, PTL DEF SpecCareful, UntouchedOkKeepsValues

-----------------------------------------------------------------------------
(* The handlers use the stacks as CommandManager.tla says.                 *)

Ids == {Identity(c) : c \in Command}

LEMMA IdsType ==
  ASSUME NEW s \in Seq(Command)
  PROVE  /\ IdentityOf(s) \in Seq(Ids) /\ Len(IdentityOf(s)) = Len(s)
         /\ \A i \in 1 .. Len(s) : IdentityOf(s)[i] = Identity(s[i])
<1>1. Len(s) \in Nat /\ DOMAIN s = 1 .. Len(s) /\ \A i \in 1 .. Len(s) : s[i] \in Command
  BY LenProperties, ElementOfSeq
<1>2. PICK t : t = [i \in 1 .. Len(s) |-> Identity(s[i])]
  OBVIOUS
<1>3. \A i \in 1 .. Len(s) : Identity(s[i]) \in Ids
  BY <1>1 DEF Ids
<1>4. t \in Seq(Ids) /\ Len(t) = Len(s) /\ \A i \in 1 .. Len(s) : t[i] = Identity(s[i])
  BY <1>1, <1>2, <1>3
<1>5. IdentityOf(s) = t
  BY <1>1, <1>2 DEF IdentityOf
<1> QED
  BY <1>4, <1>5

(* A command that is added to a stack, or taken from it, is so in the      *)
(* stack of identities too.                                                *)
LEMMA IdsAppend ==
  ASSUME NEW s \in Seq(Command), NEW c \in Command
  PROVE  IdentityOf(Append(s, c)) = Append(IdentityOf(s), Identity(c))
<1>1. PICK t : t = Append(s, c)
  OBVIOUS
<1>2. /\ t \in Seq(Command) /\ Len(t) = Len(s) + 1 /\ t[Len(s) + 1] = c
      /\ \A i \in 1 .. Len(s) : t[i] = s[i]
  BY <1>1, AppendProperties
<1>3. /\ IdentityOf(t) \in Seq(Ids) /\ Len(IdentityOf(t)) = Len(s) + 1
      /\ \A i \in 1 .. Len(s) + 1 : IdentityOf(t)[i] = Identity(t[i])
  BY <1>2, IdsType
<1>4. PICK x \in Ids : x = Identity(c)
  BY DEF Ids
<1>5. PICK u : u = Append(IdentityOf(s), x)
  OBVIOUS
<1>6. /\ IdentityOf(s) \in Seq(Ids) /\ Len(IdentityOf(s)) = Len(s) /\ Len(s) \in Nat
      /\ \A i \in 1 .. Len(s) : IdentityOf(s)[i] = Identity(s[i])
  BY IdsType, LenProperties
<1>7. /\ u \in Seq(Ids) /\ Len(u) = Len(s) + 1 /\ u[Len(s) + 1] = x
      /\ \A i \in 1 .. Len(s) : u[i] = IdentityOf(s)[i]
  BY <1>5, <1>6, AppendProperties
<1>8. ASSUME NEW i \in 1 .. Len(s) + 1 PROVE IdentityOf(t)[i] = u[i]
  <2>1. CASE i = Len(s) + 1
    BY <1>2, <1>3, <1>4, <1>7, <2>1
  <2>2. CASE i # Len(s) + 1
    <3>1. i \in 1 .. Len(s)
      BY <1>6, <2>2
    <3> QED
      BY <1>2, <1>3, <1>6, <1>7, <3>1
  <2> QED
    BY <2>1, <2>2
<1>9. IdentityOf(t) = u
  BY <1>3, <1>7, <1>8, SeqEqual
<1> QED
  BY <1>1, <1>4, <1>5, <1>9

LEMMA IdsLast ==
  ASSUME NEW s \in Seq(Command), s # <<>>
  PROVE  /\ IdentityOf(s) # <<>>
         /\ Last(IdentityOf(s)) = Identity(Last(s))
         /\ Front(IdentityOf(s)) = IdentityOf(Front(s))
<1>1. PICK f \in Seq(Command), c \in Command : s = Append(f, c)
  BY SequenceEmptyOrAppend
<1>2. Last(s) = c /\ Front(s) = f
  BY <1>1, AppendProperties DEF Last, Front
<1>3. IdentityOf(s) = Append(IdentityOf(f), Identity(c))
  BY <1>1, IdsAppend
<1>4. PICK x \in Ids, t \in Seq(Ids) : x = Identity(c) /\ t = IdentityOf(f)
  BY IdsType DEF Ids
<1>5. Append(t, x) # <<>> /\ Last(Append(t, x)) = x /\ Front(Append(t, x)) = t
  BY AppendProperties DEF Last, Front
<1> QED
  BY <1>2, <1>3, <1>4, <1>5

(* The command of a rename that is in progress is the one its end takes    *)
(* from a stack, or there is room for it.                                  *)
Ready(by, c) ==
  /\ by = "edit" => Len(undoList) < MaxCommands /\ Identity(c) \in Identities
  /\ by = "undo" => undoList # <<>> /\ Identity(c) = Identity(Last(undoList))
  /\ by = "redo" => redoList # <<>> /\ Identity(c) = Identity(Last(redoList))

CallReady == call # None => Ready(call.by, call.cmd)

UInv == IInv /\ CallReady

(* A step of the stacks that CommandManager.tla allows, or none.           *)
UsesStacks == [Stacks!Next]_(Stacks!vars)

LEMMA RecordedUses ==
  ASSUME undoList \in Seq(Command), redoList \in Seq(Command),
         NEW by \in {"edit", "undo", "redo"}, NEW c \in Command,
         Ready(by, c), Recorded(by, c)
  PROVE  UsesStacks
<1>1. CASE by = "edit"
  <2>1. undoList' = Append(undoList, c) /\ redoList' = <<>>
    BY <1>1 DEF Recorded
  <2>2. Len(undoList) < MaxCommands /\ Identity(c) \in Identities
    BY <1>1 DEF Ready
  <2>3. IdentityOf(undoList') = Append(IdentityOf(undoList), Identity(c))
    BY <2>1, IdsAppend
  <2>4. IdentityOf(redoList') = <<>>
    BY <2>1 DEF IdentityOf
  <2>5. Len(IdentityOf(undoList)) < MaxCommands
    BY <2>2, IdsType
  <2>6. Stacks!AddCommand(Identity(c), TRUE, TRUE)
    BY <2>3, <2>4, <2>5 DEF Stacks!AddCommand
  <2> QED
    BY <2>2, <2>6 DEF UsesStacks, Stacks!Next
<1>2. CASE by = "undo"
  <2>1. undoList' = Front(undoList) /\ redoList' = Append(redoList, c)
    BY <1>2 DEF Recorded
  <2>2. undoList # <<>> /\ Identity(c) = Identity(Last(undoList))
    BY <1>2 DEF Ready
  <2>3. IdentityOf(redoList') = Append(IdentityOf(redoList), Last(IdentityOf(undoList)))
    BY <2>1, <2>2, IdsAppend, IdsLast
  <2>4. IdentityOf(undoList) # <<>> /\ IdentityOf(undoList') = Front(IdentityOf(undoList))
    BY <2>1, <2>2, IdsLast
  <2>5. Stacks!Undo(TRUE)
    BY <2>3, <2>4 DEF Stacks!Undo, Stacks!Last, Stacks!Front, Last, Front
  <2> QED
    BY <2>5 DEF UsesStacks, Stacks!Next
<1>3. CASE by = "redo"
  <2>1. redoList' = Front(redoList) /\ undoList' = Append(undoList, c)
    BY <1>3 DEF Recorded
  <2>2. redoList # <<>> /\ Identity(c) = Identity(Last(redoList))
    BY <1>3 DEF Ready
  <2>3. IdentityOf(undoList') = Append(IdentityOf(undoList), Last(IdentityOf(redoList)))
    BY <2>1, <2>2, IdsAppend, IdsLast
  <2>4. IdentityOf(redoList) # <<>> /\ IdentityOf(redoList') = Front(IdentityOf(redoList))
    BY <2>1, <2>2, IdsLast
  <2>5. Stacks!Redo(TRUE)
    BY <2>3, <2>4 DEF Stacks!Redo, Stacks!Last, Stacks!Front, Last, Front
  <2> QED
    BY <2>5 DEF UsesStacks, Stacks!Next
<1> QED
  BY <1>1, <1>2, <1>3

LEMMA UnchangedUses ==
  ASSUME UNCHANGED lists
  PROVE  UsesStacks
  BY DEF lists, UsesStacks, Stacks!vars

(* What Execute or Undo makes of a command is the same command.            *)
LEMMA SameCommand ==
  ASSUME IInv, NEW c \in DataCommand, NEW o \in Execute(c) \union UndoCommand(c)
  PROVE  o.cmd \in Command /\ Identity(o.cmd) = Identity(c)
<1>1. o.cmd \in Command
  BY OutcomeType DEF IInv, TypeOK
<1>2. CASE o.cmd = c
  BY <1>1, <1>2
<1>3. CASE c.op = "change" /\ o.cmd = [c EXCEPT !.data = vals[c.name].data]
  <2>1. c \in [op : {"create", "change"}, name : Name, type : RegType, data : Seq(Nat)]
    BY <1>3 DEF DataCommand, Command
  <2>2. o.cmd.op = "change" /\ o.cmd.name = c.name /\ o.cmd.type = c.type
    BY <1>3, <2>1
  <2> QED
    BY <1>1, <1>3, <2>2 DEF Identity
<1>4. o.cmd = c \/ (c.op = "change" /\ o.cmd = [c EXCEPT !.data = vals[c.name].data])
  BY DEF DataCommand, Execute, UndoCommand, CreateValue, DeleteValue, ChangeValue, Refused, Outcome
<1> QED
  BY <1>2, <1>3, <1>4

LEMMA RenameSame ==
  ASSUME NEW c \in Rename
  PROVE  /\ [c EXCEPT !.name = c.new, !.new = c.name] \in Command
         /\ Identity([c EXCEPT !.name = c.new, !.new = c.name]) = Identity(c)
         /\ Identity(c) \in Identities
<1>1. /\ c \in [op : {"rename"}, name : Name, new : Name] /\ c.op = "rename"
      /\ c.name \in Name /\ c.new \in Name /\ c.name # c.new
  BY DEF Rename, Command
<1>2. PICK d : d = [c EXCEPT !.name = c.new, !.new = c.name]
  OBVIOUS
<1>3. /\ d \in [op : {"rename"}, name : Name, new : Name] /\ d.op = "rename"
      /\ d.name = c.new /\ d.new = c.name
  BY <1>1, <1>2
<1>4. {d.name, d.new} = {c.name, c.new}
  BY <1>3
<1>5. Identity(c) = [op |-> "rename", names |-> {c.name, c.new}]
  BY <1>1 DEF Identity
<1>6. Identity(d) = [op |-> "rename", names |-> {d.name, d.new}]
  BY <1>3 DEF Identity
<1>7. d \in Command
  BY <1>1, <1>3 DEF Command
<1>8. Identity(c) \in Identities
  <2>1. {c.name, c.new} \in {{n, x} : n, x \in Name}
    BY <1>1
  <2>2. Identity(c) \in [op : {"rename"}, names : {{n, x} : n, x \in Name}]
    BY <1>5, <2>1
  <2> QED
    BY <2>2 DEF Identities
<1> QED
  BY <1>2, <1>4, <1>5, <1>6, <1>7, <1>8

(* The end of a rename that worked, and of one that did not.               *)
Done(k) == FinishRename(k, TRUE)

LEMMA FinishUses ==
  ASSUME undoList \in Seq(Command), redoList \in Seq(Command),
         NEW k, k.by \in {"edit", "undo", "redo"}, k.cmd \in Rename,
         Ready(k.by, k.cmd), Done(k)
  PROVE  UsesStacks /\ CallReady'
<1>1. CallReady'
  BY DEF Done, FinishRename, CallReady
<1>2. PICK c : c = [k.cmd EXCEPT !.name = k.cmd.new, !.new = k.cmd.name]
  OBVIOUS
<1>3. Recorded(k.by, c)
  BY <1>2 DEF Done, FinishRename
<1>4. c \in Command /\ Identity(c) = Identity(k.cmd)
  BY <1>2, RenameSame
<1>5. Ready(k.by, c)
  BY <1>4, RenameSame DEF Ready
<1> QED
  BY <1>1, <1>3, <1>4, <1>5, RecordedUses

LEMMA FailUses ==
  ASSUME NEW k, FinishRename(k, FALSE)
  PROVE  UsesStacks /\ CallReady'
<1>1. CallReady' /\ UNCHANGED lists
  BY DEF FinishRename, CallReady
<1> QED
  BY <1>1, UnchangedUses

LEMMA StartUses ==
  ASSUME undoList \in Seq(Command), redoList \in Seq(Command),
         NEW by \in {"edit", "undo", "redo"}, NEW row, NEW c \in Rename,
         Ready(by, c), StartRename(by, row, c)
  PROVE  UsesStacks /\ CallReady'
<1>1. PICK k : k = [by |-> by, row |-> row, cmd |-> c, wrote |-> FALSE]
  OBVIOUS
<1>2. CASE FinishRename(k, FALSE)
  BY <1>2, FailUses
<1>3. CASE /\ UNCHANGED lists
           /\ call' = [by |-> by, row |-> row, cmd |-> c, read |-> vals[c.name], wrote |-> FALSE]
  <2>1. call'.by = by /\ call'.cmd = c
    BY <1>3
  <2>2. Ready(by, c)'
    BY <1>3 DEF Ready, lists
  <2>3. CallReady'
    BY <2>1, <2>2 DEF CallReady, Ready
  <2> QED
    BY <1>3, <2>3, UnchangedUses
<1> QED
  BY <1>1, <1>2, <1>3 DEF StartRename

LEMMA RenameStepUses ==
  ASSUME UInv, RenameStep
  PROVE  UsesStacks /\ CallReady'
<1>1. /\ call \in Call /\ call # None /\ call.cmd \in Rename
      /\ call.by \in {"edit", "undo", "redo"}
      /\ undoList \in Seq(Command) /\ redoList \in Seq(Command)
      /\ Ready(call.by, call.cmd)
  BY DEF RenameStep, UInv, CallReady, IInv, TypeOK, Call
<1>2. CASE call' = [call EXCEPT !.wrote = TRUE] /\ UNCHANGED <<rows, lists>>
  <2>1. call'.by = call.by /\ call'.cmd = call.cmd
    BY <1>1, <1>2 DEF Call
  <2>2. CallReady'
    BY <1>1, <1>2, <2>1 DEF CallReady, Ready, lists
  <2> QED
    BY <1>2, <2>2, UnchangedUses DEF lists
<1>3. CASE FinishRename(call, TRUE)
  <2>1. PICK k : k = call
    OBVIOUS
  <2>2. Done(k)
    BY <1>3, <2>1 DEF Done
  <2>3. k.cmd \in Rename /\ k.by \in {"edit", "undo", "redo"} /\ Ready(k.by, k.cmd)
    BY <1>1, <2>1
  <2> QED
    BY <1>1, <2>2, <2>3, FinishUses
<1>4. CASE FinishRename(call, FALSE)
  BY <1>4, FailUses
<1> QED
  BY <1>2, <1>3, <1>4 DEF RenameStep

LEMMA OnEndRenameUses ==
  ASSUME UInv, NEW i \in DOMAIN rows, NEW x \in Name, OnEndRename(i, x)
  PROVE  UsesStacks /\ CallReady'
<1>1. /\ rows \in Seq(Row) /\ undoList \in Seq(Command) /\ redoList \in Seq(Command)
  BY DEF UInv, IInv, TypeOK
<1>2. rows[i] \in Row
  BY <1>1, ElementOfSeq, LenProperties
<1>3. rows[i].name \in Name /\ rows[i].name # x /\ Len(undoList) < MaxCommands
  BY <1>2 DEF OnEndRename, Row
<1>4. PICK c \in Rename : c = [op |-> "rename", name |-> rows[i].name, new |-> x]
  BY <1>3, RenameType
<1>5. Ready("edit", c)
  BY <1>3, RenameSame DEF Ready
<1>6. StartRename("edit", i, c)
  BY <1>4 DEF OnEndRename
<1> QED
  BY <1>1, <1>5, <1>6, StartUses

LEMMA HandleNewIntValueUses ==
  ASSUME UInv, NEW n \in Name, NEW v \in Entered, HandleNewIntValue(n, v)
  PROVE  UsesStacks /\ CallReady'
<1>1. v \in Value /\ undoList \in Seq(Command) /\ redoList \in Seq(Command)
  BY ValuesAssumption DEF UInv, IInv, TypeOK
<1>2. PICK c : c = [op |-> "create", name |-> n, type |-> v.type, data |-> v.data]
  OBVIOUS
<1>3. c \in DataCommand /\ c.op = "create"
  BY <1>1, <1>2, CommandType DEF Value
<1>4. PICK o \in Execute(c) :
        IF o.ok THEN Recorded("edit", o.cmd) ELSE UNCHANGED lists
  BY <1>2 DEF HandleNewIntValue, lists
<1>5. call = None /\ call' = call /\ Len(undoList) < MaxCommands
  BY DEF HandleNewIntValue, AtRest
<1>6. CallReady'
  BY <1>5 DEF CallReady
<1>7. CASE o.ok
  <2>1. o.cmd \in Command /\ Identity(o.cmd) = Identity(c)
    BY <1>3, <1>4, SameCommand DEF UInv
  <2>2. Identity(c) = c
    BY <1>3 DEF Identity
  <2>3. c \in Identities
    BY <1>2 DEF Identities
  <2>4. Ready("edit", o.cmd)
    BY <1>5, <2>1, <2>2, <2>3 DEF Ready
  <2> QED
    BY <1>1, <1>4, <1>6, <1>7, <2>1, <2>4, RecordedUses
<1>8. CASE ~o.ok
  BY <1>4, <1>6, <1>8, UnchangedUses
<1> QED
  BY <1>7, <1>8

LEMMA CloseDialogUses ==
  ASSUME UInv, NEW data \in Delivered, CloseDialog(data)
  PROVE  UsesStacks /\ CallReady'
<1>1. /\ dialog \in Dialog /\ dialog # None /\ call = None
      /\ undoList \in Seq(Command) /\ redoList \in Seq(Command)
  BY DEF CloseDialog, UInv, IInv, TypeOK
<1>2. dialog.name \in Name /\ dialog.type \in RegType
  BY <1>1 DEF Dialog
<1>3. PICK d : d = IF dialog.type = "multi" THEN Trimmed(data) ELSE data
  OBVIOUS
<1>4. IsData(dialog.type, d)
  <2>1. IsData(dialog.type, data)
    BY <1>1, DeliveredType DEF UInv
  <2>2. dialog.type = "multi" => IsData(dialog.type, Trimmed(data))
    BY <2>1, TrimmedType DEF IsData, IntType
  <2> QED
    BY <1>3, <2>1, <2>2
<1>5. PICK c : c = [op |-> "change", name |-> dialog.name, type |-> dialog.type, data |-> d]
  OBVIOUS
<1>6. /\ c \in DataCommand /\ c.op = "change"
      /\ c.name = dialog.name /\ c.type = dialog.type
  BY <1>2, <1>4, <1>5, CommandType
<1>7. PICK o \in Execute(c) :
        IF o.ok THEN Recorded("edit", o.cmd) ELSE UNCHANGED lists
  BY <1>3, <1>5 DEF CloseDialog, lists
<1>8. CallReady'
  BY <1>1 DEF CloseDialog, CallReady
<1>9. CASE o.ok
  <2>1. o.cmd \in Command /\ Identity(o.cmd) = Identity(c)
    BY <1>6, <1>7, SameCommand DEF UInv
  <2>2. Identity(c) = [op |-> "change", name |-> dialog.name, type |-> dialog.type]
    BY <1>6 DEF Identity
  <2>3. Identity(c) \in Identities
    BY <1>2, <2>2 DEF Identities
  <2>4. Ready("edit", o.cmd)
    BY <2>1, <2>3 DEF Ready, CloseDialog
  <2> QED
    BY <1>1, <1>7, <1>8, <1>9, <2>1, <2>4, RecordedUses
<1>10. CASE ~o.ok
  BY <1>7, <1>8, <1>10, UnchangedUses
<1> QED
  BY <1>9, <1>10

LEMMA RerunUses ==
  ASSUME UInv, AtRest, NEW by \in {"undo", "redo"}, NEW c \in Command, Ready(by, c),
         NEW outcomes, c \in DataCommand => outcomes \subseteq Execute(c) \union UndoCommand(c),
         Rerun(by, c, outcomes)
  PROVE  UsesStacks /\ CallReady'
<1>1. undoList \in Seq(Command) /\ redoList \in Seq(Command)
  BY DEF UInv, IInv, TypeOK
<1>2. CASE c \in Rename
  <2>1. StartRename(by, 0, c)
    BY <1>2, CommandParts DEF Rerun
  <2> QED
    BY <1>1, <1>2, <2>1, StartUses
<1>3. CASE c \in DataCommand
  <2>1. PICK o \in Execute(c) \union UndoCommand(c) :
          IF o.ok THEN Recorded(by, o.cmd) ELSE UNCHANGED lists
    BY <1>3 DEF Rerun, DataCommand
  <2>2. call' = call /\ call = None
    BY <1>3 DEF Rerun, DataCommand, AtRest
  <2>3. CallReady'
    BY <2>2 DEF CallReady
  <2>4. CASE o.ok
    <3>1. o.cmd \in Command /\ Identity(o.cmd) = Identity(c)
      BY <1>3, <2>1, SameCommand DEF UInv
    <3>2. Ready(by, o.cmd)
      BY <3>1 DEF Ready
    <3> QED
      BY <1>1, <2>1, <2>3, <2>4, <3>1, <3>2, RecordedUses
  <2>5. CASE ~o.ok
    BY <2>1, <2>3, <2>5, UnchangedUses
  <2> QED
    BY <2>4, <2>5
<1> QED
  BY <1>2, <1>3, CommandParts

LEMMA UndoRedoUses ==
  ASSUME UInv, OnEditUndo \/ OnEditRedo
  PROVE  UsesStacks /\ CallReady'
<1>1. undoList \in Seq(Command) /\ redoList \in Seq(Command)
  BY DEF UInv, IInv, TypeOK
<1>2. CASE OnEditUndo
  <2>1. PICK c : c = Last(undoList)
    OBVIOUS
  <2>2. AtRest /\ undoList # <<>> /\ Rerun("undo", c, UndoCommand(c))
    BY <1>2, <2>1 DEF OnEditUndo
  <2>3. c \in Command /\ Ready("undo", c)
    BY <1>1, <2>1, <2>2, EndOfList DEF Ready
  <2> QED
    BY <2>2, <2>3, RerunUses
<1>3. CASE OnEditRedo
  <2>1. PICK c : c = Last(redoList)
    OBVIOUS
  <2>2. AtRest /\ redoList # <<>> /\ Rerun("redo", c, Execute(c))
    BY <1>3, <2>1 DEF OnEditRedo
  <2>3. c \in Command /\ Ready("redo", c)
    BY <1>1, <2>1, <2>2, EndOfList DEF Ready
  <2> QED
    BY <2>2, <2>3, RerunUses
<1> QED
  BY <1>2, <1>3

LEMMA NextUses ==
  UInv /\ [Next]_vars => UsesStacks /\ CallReady'
<1> SUFFICES ASSUME UInv, [Next]_vars PROVE UsesStacks /\ CallReady'
  OBVIOUS
<1>1. ASSUME UNCHANGED lists, UNCHANGED call PROVE UsesStacks /\ CallReady'
  <2>1. CallReady'
    BY <1>1 DEF UInv, CallReady, Ready, lists
  <2> QED
    BY <1>1, <2>1, UnchangedUses
<1>2. CASE Edit
  <2>1. CASE \E i \in DOMAIN rows : OnModifyValue(i)
    BY <1>1, <2>1 DEF OnModifyValue
  <2>2. CASE CancelDialog \/ OnRefresh \/ OnEditModify
    BY <1>1, <2>2 DEF CancelDialog, OnRefresh, OnEditModify
  <2> QED
    BY <1>2, <2>1, <2>2, CloseDialogUses, UndoRedoUses DEF Edit
<1>3. CASE RenameStep
  BY <1>3, RenameStepUses
<1>4. CASE \E n \in Name, v \in Entered : HandleNewIntValue(n, v)
  BY <1>4, HandleNewIntValueUses
<1>5. CASE \E i \in DOMAIN rows, x \in Name : OnEndRename(i, x)
  BY <1>5, OnEndRenameUses
<1>6. ASSUME NEW w, Other(w) PROVE UsesStacks /\ CallReady'
  BY <1>1, <1>6 DEF Other
<1>7. CASE UNCHANGED vars
  BY <1>1, <1>7 DEF vars, lists
<1> QED
  BY <1>2, <1>3, <1>4, <1>5, <1>6, <1>7 DEF Next, NextAlone

(* Whatever fails and whatever other processes do between the two halves   *)
(* of a rename, the handlers use the two stacks as CommandManager.tla      *)
(* says: CView and the value commands never lose, double or reorder a      *)
(* command.                                                                *)
THEOREM ValuesUseTheStacks == Spec => UsesCommandManager
<1>1. Init => UInv
  BY InitInv DEF UInv, CallReady, Init
<1>2. UInv /\ [Next]_vars => UInv'
  BY NextInv, NextUses DEF UInv
<1>3. Init => Stacks!Init
  BY DEF Init, Stacks!Init, IdentityOf
<1>4. UInv /\ [Next]_vars => [Stacks!Next]_(Stacks!vars)
  BY NextUses DEF UsesStacks
<1> QED
  BY <1>1, <1>2, <1>3, <1>4, PTL DEF Spec, Stacks!Spec, UsesCommandManager
=============================================================================
