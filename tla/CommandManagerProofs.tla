------------------------ MODULE CommandManagerProofs ------------------------
(***************************************************************************)
(* Proofs about CommandManager.tla: its stacks stay sequences of commands, *)
(* and it implements the linear history of UndoHistory.tla; and about      *)
(* CommandLists.tla, which uses the stacks as CommandManager.tla says.     *)
(***************************************************************************)
EXTENDS CommandLists, SequenceTheorems, WellFoundedInduction, TLAPS

-----------------------------------------------------------------------------
(* Facts about the sequence operators the stacks are read with.            *)

(* The reverse of a sequence is a sequence of the same elements' type and  *)
(* length.                                                                 *)
LEMMA ReverseType ==
  ASSUME NEW S, NEW s \in Seq(S)
  PROVE  /\ Reverse(s) \in Seq(S)
         /\ Len(Reverse(s)) = Len(s)
         /\ \A i \in 1 .. Len(s) : Reverse(s)[i] = s[Len(s) - i + 1]
  BY DEF Reverse

(* Taking the last element off a non-empty sequence.                       *)
LEMMA FrontLast ==
  ASSUME NEW S, NEW s \in Seq(S), s # <<>>
  PROVE  /\ Front(s) \in Seq(S)
         /\ Last(s) \in S
         /\ Len(s) \in Nat \ {0}
         /\ Len(Front(s)) = Len(s) - 1
         /\ \A i \in 1 .. Len(s) - 1 : Front(s)[i] = s[i]
<1>1. Len(s) \in Nat \ {0} /\ \A i \in 1 .. Len(s) : s[i] \in S
  BY EmptySeq, ElementOfSeq
<1>2. /\ Len(s) - 1 \in Nat /\ Len(s) \in Nat /\ Len(s) \in 1 .. Len(s)
      /\ \A i \in 1 .. Len(s) - 1 : s[i] \in S /\ 1 + i - 1 = i
  BY <1>1
<1>3. /\ Front(s) \in Seq(S)
      /\ Len(Front(s)) = IF 1 <= Len(s) - 1 THEN Len(s) - 1 - 1 + 1 ELSE 0
      /\ \A i \in 1 .. Len(s) - 1 - 1 + 1 : Front(s)[i] = s[1 + i - 1]
  BY <1>2, SubSeqProperties DEF Front
<1>4. Last(s) \in S
  BY <1>1, <1>2 DEF Last
<1>5. \A n \in Nat \ {0} : /\ n - 1 - 1 + 1 = n - 1
                          /\ (IF 1 <= n - 1 THEN n - 1 - 1 + 1 ELSE 0) = n - 1
  OBVIOUS
<1>6. Len(Front(s)) = Len(s) - 1
  BY <1>1, <1>3, <1>5
<1>7. \A i \in 1 .. Len(s) - 1 : Front(s)[i] = s[i]
  BY <1>1, <1>2, <1>3, <1>5
<1> QED
  BY <1>1, <1>3, <1>4, <1>6, <1>7

(* Moving the last element of s to the end of t keeps the total length.    *)
LEMMA MoveType ==
  ASSUME NEW S, NEW s \in Seq(S), NEW t \in Seq(S), s # <<>>
  PROVE  /\ Front(s) \in Seq(S) /\ Append(t, Last(s)) \in Seq(S)
         /\ Len(Front(s)) + Len(Append(t, Last(s))) = Len(s) + Len(t)
<1>1. /\ Front(s) \in Seq(S) /\ Last(s) \in S
      /\ Len(s) \in Nat /\ Len(Front(s)) = Len(s) - 1
  BY FrontLast
<1>2. /\ Append(t, Last(s)) \in Seq(S)
      /\ Len(Append(t, Last(s))) = Len(t) + 1 /\ Len(t) \in Nat
  BY <1>1, AppendProperties, LenProperties
<1> QED
  BY <1>1, <1>2

(* Moving the last element of u to the end of r does not change u followed *)
(* by r reversed: this is why a move between the two stacks is only a move *)
(* of the cursor.                                                          *)
LEMMA MoveAcross ==
  ASSUME NEW S, NEW u \in Seq(S), NEW r \in Seq(S), u # <<>>
  PROVE  Front(u) \o Reverse(Append(r, Last(u))) = u \o Reverse(r)
<1>1. PICK f \in Seq(S), e \in S : u = Append(f, e)
  BY SequenceEmptyOrAppend
<1>2. u = f \o <<e>> /\ <<e>> \in Seq(S) /\ Len(<<e>>) = 1
  BY <1>1, AppendIsConcat
<1>3. Len(u) = Len(f) + 1 /\ Len(f) \in Nat /\ Last(u) = e
  BY <1>1, AppendProperties, LenProperties DEF Last
<1>4. Front(u) = f
  <2>1. /\ Front(u) \in Seq(S) /\ Len(Front(u)) = Len(f)
        /\ \A i \in 1 .. Len(f) : Front(u)[i] = u[i]
    BY <1>3, FrontLast
  <2>2. \A i \in 1 .. Len(f) : u[i] = f[i]
    BY <1>1, AppendProperties
  <2> QED
    BY <2>1, <2>2, SeqEqual
<1> DEFINE moved == Append(r, e)
           flipped == <<e>> \o Reverse(r)
<1>5. Reverse(moved) = flipped
  <2>1. /\ moved \in Seq(S) /\ Len(moved) = Len(r) + 1 /\ Len(r) \in Nat
        /\ moved[Len(r) + 1] = e
        /\ \A i \in 1 .. Len(r) : moved[i] = r[i]
    BY AppendProperties, LenProperties
  <2>2. /\ Reverse(moved) \in Seq(S) /\ Len(Reverse(moved)) = Len(r) + 1
        /\ \A i \in 1 .. Len(r) + 1 : Reverse(moved)[i] = moved[Len(r) + 1 - i + 1]
    <3> HIDE DEF moved
    <3> QED
      BY <2>1, ReverseType
  <2>3. /\ Reverse(r) \in Seq(S) /\ Len(Reverse(r)) = Len(r)
        /\ \A i \in 1 .. Len(r) : Reverse(r)[i] = r[Len(r) - i + 1]
    BY ReverseType
  <2>4. /\ flipped \in Seq(S) /\ Len(flipped) = Len(r) + 1
        /\ \A i \in 1 .. Len(r) + 1 :
              flipped[i] = IF i <= 1 THEN <<e>>[i] ELSE Reverse(r)[i - 1]
    BY <1>2, <2>3, ConcatProperties
  <2>5. \A i \in 1 .. Len(r) + 1 : Reverse(moved)[i] = flipped[i]
    <3>1. SUFFICES ASSUME NEW i \in 1 .. Len(r) + 1
                   PROVE  Reverse(moved)[i] = flipped[i]
      OBVIOUS
    <3>2. CASE i = 1
      BY <2>1, <2>2, <2>4, <3>2
    <3>3. CASE i # 1
      <4>1. i - 1 \in 1 .. Len(r) /\ Len(r) + 1 - i + 1 \in 1 .. Len(r)
        BY <2>1, <3>3
      <4>2. Reverse(moved)[i] = r[Len(r) + 1 - i + 1]
        BY <2>1, <2>2, <4>1
      <4>3. flipped[i] = Reverse(r)[i - 1]
        BY <2>1, <2>4, <3>3
      <4>4. Reverse(r)[i - 1] = r[Len(r) - (i - 1) + 1]
        BY <2>3, <4>1
      <4>5. Len(r) - (i - 1) + 1 = Len(r) + 1 - i + 1
        BY <2>1
      <4> QED
        BY <4>2, <4>3, <4>4, <4>5
    <3> QED
      BY <3>2, <3>3
  <2> QED
    BY <2>2, <2>4, <2>5, SeqEqual
<1>6. f \o (<<e>> \o Reverse(r)) = (f \o <<e>>) \o Reverse(r)
  BY <1>2, ReverseType, ConcatAssociative
<1> QED
  BY <1>2, <1>3, <1>4, <1>5, <1>6

-----------------------------------------------------------------------------
(* A step of the stacks keeps commands in them.                            *)
LEMMA StacksStep == TypeOK /\ [Next]_vars => TypeOK'
<1> SUFFICES ASSUME TypeOK, [Next]_vars PROVE TypeOK'
  OBVIOUS
<1> USE DEF TypeOK
<1>1. ASSUME NEW c \in Command, NEW execute \in BOOLEAN, NEW executed \in BOOLEAN,
             AddCommand(c, execute, executed)
      PROVE  TypeOK'
  <2>1. CASE execute => executed
    <3>1. undoList' = Append(undoList, c) /\ redoList' = <<>>
      BY <1>1, <2>1 DEF AddCommand
    <3>2. Len(undoList) + 1 <= MaxCommands
      BY <1>1, LenProperties, MaxCommandsAssumption DEF AddCommand
    <3>3. Len(undoList') = Len(undoList) + 1 /\ Len(redoList') = 0 /\ Len(undoList) \in Nat
      BY <3>1, AppendProperties, LenProperties, EmptySeq
    <3> QED
      BY <3>1, <3>2, <3>3, AppendProperties, EmptySeq
  <2>2. CASE ~(execute => executed)
    BY <1>1, <2>2 DEF AddCommand, vars
  <2> QED
    BY <2>1, <2>2
<1>2. ASSUME NEW undone \in BOOLEAN, Undo(undone)
      PROVE  TypeOK'
  <2>1. CASE undone
    <3>1. /\ undoList # <<>>
          /\ undoList' = Front(undoList) /\ redoList' = Append(redoList, Last(undoList))
      BY <1>2, <2>1 DEF Undo
    <3>2. /\ undoList' \in Seq(Command) /\ redoList' \in Seq(Command)
          /\ Len(undoList') + Len(redoList') = Len(undoList) + Len(redoList)
      BY <3>1, MoveType
    <3>3. \A S : \A s \in Seq(S) : Len(s) \in Nat
      BY LenProperties
    <3> QED
      BY <3>2, <3>3
  <2>2. CASE ~undone
    BY <1>2, <2>2 DEF Undo, vars
  <2> QED
    BY <2>1, <2>2
<1>3. ASSUME NEW executed \in BOOLEAN, Redo(executed)
      PROVE  TypeOK'
  <2>1. CASE executed
    <3>1. /\ redoList # <<>>
          /\ redoList' = Front(redoList) /\ undoList' = Append(undoList, Last(redoList))
      BY <1>3, <2>1 DEF Redo
    <3>2. /\ redoList' \in Seq(Command) /\ undoList' \in Seq(Command)
          /\ Len(redoList') + Len(undoList') = Len(redoList) + Len(undoList)
      BY <3>1, MoveType
    <3>3. \A S : \A s \in Seq(S) : Len(s) \in Nat
      BY LenProperties
    <3> QED
      BY <3>2, <3>3
  <2>2. CASE ~executed
    BY <1>3, <2>2 DEF Redo, vars
  <2> QED
    BY <2>1, <2>2
<1>4. CASE Clear
  BY <1>4, MaxCommandsAssumption DEF Clear
<1>5. CASE UNCHANGED vars
  BY <1>5 DEF vars
<1> QED
  BY <1>1, <1>2, <1>3, <1>4, <1>5 DEF Next

(* The stacks of CommandManager only ever hold commands that were added,   *)
(* each in one place: whatever succeeds or fails, Undo and Redo move a     *)
(* command across and AddCommand drops what was undone.                    *)
THEOREM StacksHoldCommands == Spec => []TypeOK
<1>1. Init => TypeOK
  BY MaxCommandsAssumption DEF Init, TypeOK
<1>2. TypeOK /\ [Next]_vars => TypeOK'
  BY StacksStep
<1> QED
  BY <1>1, <1>2, PTL DEF Spec

-----------------------------------------------------------------------------
(* The history read off the two stacks, and its length.                    *)
LEMMA HistoryType ==
  ASSUME TypeOK
  PROVE  /\ History \in Seq(Command)
         /\ Len(History) = Len(undoList) + Len(redoList)
         /\ SubSeq(History, 1, Len(undoList)) = undoList
<1>1. Reverse(redoList) \in Seq(Command) /\ Len(Reverse(redoList)) = Len(redoList)
  BY ReverseType DEF TypeOK
<1>2. /\ History \in Seq(Command)
      /\ Len(History) = Len(undoList) + Len(redoList)
      /\ Len(undoList) \in Nat /\ Len(redoList) \in Nat
      /\ \A i \in 1 .. Len(undoList) : History[i] = undoList[i]
  <2>1. Len(undoList) \in Nat /\ Len(redoList) \in Nat
    BY LenProperties DEF TypeOK
  <2>2. /\ History \in Seq(Command)
        /\ Len(History) = Len(undoList) + Len(Reverse(redoList))
        /\ \A i \in 1 .. Len(undoList) + Len(Reverse(redoList)) : History[i] =
              IF i <= Len(undoList) THEN undoList[i] ELSE Reverse(redoList)[i - Len(undoList)]
    BY <1>1, ConcatProperties DEF History, TypeOK
  <2> QED
    BY <1>1, <2>1, <2>2
<1>3. SubSeq(History, 1, Len(undoList)) = undoList
  <2> DEFINE past == SubSeq(History, 1, Len(undoList))
  <2>1. \A i \in 1 .. Len(undoList) : History[i] \in Command
    BY <1>2, ElementOfSeq DEF TypeOK
  <2>2. /\ past \in Seq(Command) /\ Len(past) = Len(undoList)
        /\ \A i \in 1 .. Len(undoList) : past[i] = History[i]
    BY <1>2, <2>1, SubSeqProperties
  <2> QED
    BY <1>2, <2>2, SeqEqual DEF TypeOK
<1> QED
  BY <1>2, <1>3

(* Every step of the two stacks is a step of the linear history.           *)
LEMMA StepRefines ==
  ASSUME TypeOK, [Next]_vars
  PROVE  [Abstract!Next]_Abstract!vars
<1> USE DEF TypeOK
<1>1. ASSUME NEW c \in Command, NEW execute \in BOOLEAN, NEW executed \in BOOLEAN,
             AddCommand(c, execute, executed)
      PROVE  [Abstract!Next]_Abstract!vars
  <2>1. CASE execute => executed
    <3>1. undoList' = Append(undoList, c) /\ redoList' = <<>>
      BY <1>1, <2>1 DEF AddCommand
    <3>2. Reverse(<<>>) = <<>>
      BY DEF Reverse
    <3>3. History' = Append(undoList, c)
      BY <3>1, <3>2 DEF History
    <3>4. Abstract!Record(c)
      BY <3>1, <3>3, HistoryType DEF Abstract!Record
    <3> QED
      BY <3>4 DEF Abstract!Next
  <2>2. CASE ~(execute => executed)
    BY <1>1, <2>2 DEF AddCommand, vars, Abstract!vars, History
  <2> QED
    BY <2>1, <2>2
<1>2. ASSUME NEW undone \in BOOLEAN, Undo(undone)
      PROVE  [Abstract!Next]_Abstract!vars
  <2>1. CASE undone
    <3>1. /\ undoList # <<>>
          /\ undoList' = Front(undoList)
          /\ redoList' = Append(redoList, Last(undoList))
      BY <1>2, <2>1 DEF Undo
    <3>2. History' = History
      BY <3>1, MoveAcross DEF History
    <3>3. Len(undoList) > 0 /\ Len(undoList') = Len(undoList) - 1
      BY <3>1, FrontLast
    <3> QED
      BY <3>2, <3>3 DEF Abstract!Next, Abstract!StepBack
  <2>2. CASE ~undone
    BY <1>2, <2>2 DEF Undo, vars, Abstract!vars, History
  <2> QED
    BY <2>1, <2>2
<1>3. ASSUME NEW executed \in BOOLEAN, Redo(executed)
      PROVE  [Abstract!Next]_Abstract!vars
  <2>1. CASE executed
    <3> DEFINE c == Last(redoList)
    <3>1. /\ redoList # <<>>
          /\ redoList' = Front(redoList)
          /\ undoList' = Append(undoList, c)
      BY <1>3, <2>1 DEF Redo
    <3>2. /\ redoList' \in Seq(Command) /\ c \in Command
          /\ Len(redoList') = Len(redoList) - 1
          /\ Len(redoList) \in Nat \ {0}
      BY <3>1, FrontLast
    <3>3. /\ undoList' \in Seq(Command) /\ undoList' # <<>>
          /\ Front(undoList') = undoList
          /\ Last(undoList') = c
          /\ Len(undoList') = Len(undoList) + 1
      BY <3>1, <3>2 DEF Front, Last
    <3>4. Append(redoList', c) = redoList
      BY <3>1, <3>2 DEF Front, Last
    <3>5. undoList \o Reverse(redoList) = undoList' \o Reverse(redoList')
      BY <3>2, <3>3, <3>4, MoveAcross
    <3>6. History' = History
      BY <3>5 DEF History
    <3>7. Len(undoList) < Len(History)
      BY <3>2, HistoryType
    <3> QED
      BY <3>3, <3>6, <3>7 DEF Abstract!Next, Abstract!StepForward
  <2>2. CASE ~executed
    BY <1>3, <2>2 DEF Redo, vars, Abstract!vars, History
  <2> QED
    BY <2>1, <2>2
<1>4. CASE Clear
  <2>1. History' = <<>> /\ Len(undoList') = 0
    BY <1>4 DEF Clear, History, Reverse
  <2> QED
    BY <2>1 DEF Abstract!Next, Abstract!Forget
<1>5. CASE UNCHANGED vars
  BY <1>5 DEF vars, Abstract!vars, History
<1> QED
  BY <1>1, <1>2, <1>3, <1>4, <1>5 DEF Next

(* CommandManager's two stacks implement one linear history with a cursor, *)
(* for any set of commands and any pattern of successes and failures.      *)
THEOREM ImplementsUndoHistory == Spec => IsLinearHistory
<1>1. Init => Abstract!Init
  BY DEF Init, Abstract!Init, History, Reverse
<1>2. TypeOK /\ [Next]_vars => [Abstract!Next]_Abstract!vars
  BY StepRefines
<1> QED
  BY <1>1, <1>2, StacksHoldCommands, PTL DEF Spec, Abstract!Spec, IsLinearHistory

-----------------------------------------------------------------------------
(* Commands that are lists, from here on.                                  *)

LEMMA CommandType ==
  ASSUME NEW c \in Command
  PROVE  /\ c.edits \in Seq(Edit) /\ c.list \in BOOLEAN
         /\ Len(c.edits) \in Nat
         /\ ~c.list => Len(c.edits) = 1
<1>1. c \in [edits : Seq(Edit), list : BOOLEAN] /\ (~c.list => Len(c.edits) = 1)
  BY CommandAssumption
<1>2. c.edits \in Seq(Edit) /\ c.list \in BOOLEAN
  BY <1>1
<1> QED
  BY <1>1, <1>2, LenProperties

(* Whatever the commands are made of, the stacks move as CommandManager    *)
(* says.                                                                   *)
LEMMA ListStepIsStep == [ListNext]_listVars => [Next]_vars
<1> SUFFICES ASSUME [ListNext]_listVars PROVE [Next]_vars
  OBVIOUS
<1>1. ASSUME NEW c \in Command, NewCommand(c) PROVE Next
  <2>1. PICK k \in 0 .. Len(c.edits) : AddCommand(c, TRUE, k = Len(c.edits))
    BY <1>1 DEF NewCommand
  <2> QED
    BY <2>1 DEF Next
<1>2. ASSUME NEW c \in Command, RecordCommand(c) PROVE Next
  BY <1>2 DEF RecordCommand, Next
<1>3. CASE UndoSingle
  <2>1. PICK k \in 0 .. 1 : Undo(k = 0)
    BY <1>3 DEF UndoSingle
  <2> QED
    BY <2>1 DEF Next
<1>4. CASE UndoList
  <2>1. Undo(FALSE)
    BY <1>4 DEF UndoList
  <2> QED
    BY <2>1 DEF Next
<1>5. CASE RedoCommand
  <2>1. PICK k \in 0 .. Len(Last(redoList).edits) : Redo(k = Len(Last(redoList).edits))
    BY <1>5 DEF RedoCommand
  <2> QED
    BY <2>1 DEF Next
<1>6. CASE ClearAll
  BY <1>6 DEF ClearAll, Next
<1>7. CASE UNCHANGED listVars
  BY <1>7 DEF listVars, vars
<1> QED
  BY <1>1, <1>2, <1>3, <1>4, <1>5, <1>6, <1>7 DEF ListNext

(* Commands that are lists of edits, each of which may be refused, use the *)
(* stacks as CommandManager.cpp does with any other command.               *)
THEOREM ListsUseTheStacks == ListSpec => Spec
<1>1. ListInit => Init
  BY DEF ListInit
<1> QED
  BY <1>1, ListStepIsStep, PTL DEF ListSpec, Spec

-----------------------------------------------------------------------------
(* A list on the undo stack.                                               *)

LEMMA PrefixKept ==
  ASSUME NEW S, NEW s \in Seq(S), NEW t \in Seq(S), NEW i \in 1 .. Len(s), i <= Len(t),
         \A j \in 1 .. i : s[j] = t[j]
  PROVE  IsPrefix(SubSeq(s, 1, i), t)
<1>1. /\ Len(s) \in Nat /\ Len(t) \in Nat
      /\ \A j \in 1 .. i : s[j] \in S /\ t[j] \in S
  BY LenProperties, ElementOfSeq
<1>2. /\ SubSeq(s, 1, i) \in Seq(S) /\ Len(SubSeq(s, 1, i)) = i
      /\ \A j \in 1 .. i : SubSeq(s, 1, i)[j] = s[j]
  BY <1>1, SubSeqProperties
<1>3. /\ SubSeq(t, 1, i) \in Seq(S) /\ Len(SubSeq(t, 1, i)) = i
      /\ \A j \in 1 .. i : SubSeq(t, 1, i)[j] = t[j]
  BY <1>1, SubSeqProperties
<1>4. SubSeq(SubSeq(s, 1, i), 1, i) = SubSeq(s, 1, i)
  BY <1>2, SubSeqFull
<1>5. SubSeq(s, 1, i) = SubSeq(t, 1, i)
  BY <1>2, <1>3, SeqEqual
<1> QED
  BY <1>2, <1>4, <1>5 DEF IsPrefix

(* No step but Clear takes a list, or what lies below one, off the undo    *)
(* stack, because AppCommandList::Undo cannot return true.                 *)
THEOREM ListsStay == ListSpec => ListsBlockUndo
<1>1. ASSUME TypeOK, [ListNext]_listVars, ~ClearAll,
             NEW i \in DOMAIN undoList, undoList[i].list
      PROVE  IsPrefix(SubSeq(undoList, 1, i), undoList')
  <2>1. TypeOK'
    BY <1>1, ListStepIsStep, StacksStep
  <2>2. /\ undoList \in Seq(Command) /\ undoList' \in Seq(Command)
        /\ redoList \in Seq(Command)
        /\ Len(undoList) \in Nat /\ i \in 1 .. Len(undoList)
    BY <1>1, <2>1, LenProperties DEF TypeOK
  <2>3. SUFFICES i <= Len(undoList') /\ \A j \in 1 .. i : undoList[j] = undoList'[j]
    BY <2>2, PrefixKept
  <2>4. CASE undoList' = undoList
    BY <2>2, <2>4
  <2>5. ASSUME NEW c \in Command, undoList' = Append(undoList, c)
        PROVE  i <= Len(undoList') /\ \A j \in 1 .. i : undoList[j] = undoList'[j]
    <3>1. Len(undoList') = Len(undoList) + 1
      BY <2>2, <2>5, AppendProperties
    <3>2. \A j \in 1 .. Len(undoList) : undoList'[j] = undoList[j]
      BY <2>2, <2>5, AppendProperties
    <3> QED
      BY <2>2, <3>1, <3>2
  <2>6. CASE undoList # <<>> /\ ~Last(undoList).list /\ undoList' = Front(undoList)
    <3>1. i # Len(undoList)
      BY <1>1, <2>6 DEF Last
    <3>2. /\ Len(undoList') = Len(undoList) - 1
          /\ \A j \in 1 .. Len(undoList) - 1 : undoList'[j] = undoList[j]
      BY <2>2, <2>6, FrontLast
    <3> QED
      BY <2>2, <3>1, <3>2
  <2>7. ASSUME NEW c \in Command, NewCommand(c) \/ RecordCommand(c)
        PROVE  undoList' = undoList \/ undoList' = Append(undoList, c)
    BY <2>7 DEF NewCommand, RecordCommand, AddCommand, vars
  <2>8. CASE UndoSingle
    BY <2>4, <2>6, <2>8 DEF UndoSingle, Undo, vars
  <2>9. CASE UndoList
    BY <2>4, <2>9 DEF UndoList, Undo, vars
  <2>10. CASE RedoCommand
    <3>1. redoList # <<>>
      BY <2>10 DEF RedoCommand
    <3>2. Last(redoList) \in Command
      BY <2>2, <3>1, FrontLast
    <3>3. undoList' = undoList \/ undoList' = Append(undoList, Last(redoList))
      BY <2>10 DEF RedoCommand, Redo, vars
    <3> QED
      BY <2>4, <2>5, <3>2, <3>3
  <2>11. CASE UNCHANGED listVars
    BY <2>4, <2>11 DEF listVars, vars
  <2> QED
    BY <1>1, <2>4, <2>5, <2>7, <2>8, <2>9, <2>10, <2>11 DEF ListNext
<1>2. TypeOK /\ [ListNext]_listVars
        => [~ClearAll => \A i \in DOMAIN undoList :
              undoList[i].list => IsPrefix(SubSeq(undoList, 1, i), undoList')]_listVars
  BY <1>1
<1>3. ListSpec => []TypeOK
  BY ListsUseTheStacks, StacksHoldCommands, PTL
<1> QED
  BY <1>2, <1>3, PTL DEF ListSpec, ListsBlockUndo

(* A set of numbers that is not empty has a least one.                     *)
LEMMA LeastNumber ==
  ASSUME NEW T \in SUBSET Nat, T # {}
  PROVE  \E n \in T : \A k \in T : n <= k
<1> DEFINE R == {ss \in Nat \X Nat : ss[1] < ss[2]}
<1>1. IsWellFoundedOn(R, Nat)
  BY NatLessThanWellFounded DEF OpToRel
<1>2. ASSUME NEW x \in Nat, NEW y \in Nat, y < x PROVE <<y, x>> \in R
  BY <1>2
<1> HIDE DEF R
<1>3. PICK n \in T : \A k \in T : <<k, n>> \notin R
  BY <1>1, WFMin
<1>4. ASSUME NEW k \in T PROVE n <= k
  <2>1. n \in Nat /\ k \in Nat /\ ~(k < n)
    BY <1>2, <1>3
  <2> QED
    BY <2>1
<1> QED
  BY <1>4

-----------------------------------------------------------------------------
(* The edits in effect.                                                    *)

(* f[i] are the edits of the first i commands of u, one after another.     *)
Adds(f, u) ==
  /\ f \in [0 .. Len(u) -> Seq(Edit)]
  /\ f[0] = <<>>
  /\ \A i \in 1 .. Len(u) : f[i] = f[i - 1] \o u[i].edits

InEffect(a, u) == \E f : Adds(f, u) /\ a = f[Len(u)]

EffectFits ==
  /\ torn \in BOOLEAN /\ overrun \in BOOLEAN
  /\ ~torn /\ ~overrun => InEffect(applied, undoList)

ListInv == TypeOK /\ EffectFits

LEMMA NothingInEffect == InEffect(<<>>, <<>>)
<1> DEFINE f == [i \in 0 .. 0 |-> <<>>]
<1>1. Adds(f, <<>>)
  BY EmptySeq DEF Adds
<1>2. f[Len(<<>>)] = <<>>
  OBVIOUS
<1> QED
  BY <1>1, <1>2 DEF InEffect

(* A command that has run adds its edits at the end.                       *)
LEMMA OneMoreInEffect ==
  ASSUME NEW u \in Seq(Command), NEW a, InEffect(a, u), NEW c \in Command
  PROVE  InEffect(a \o c.edits, Append(u, c))
<1> DEFINE n == Len(u)
           v == Append(u, c)
<1>1. n \in Nat
  BY LenProperties
<1>2. /\ Len(v) = n + 1 /\ v[n + 1] = c
      /\ \A i \in 1 .. n : v[i] = u[i]
  BY AppendProperties
<1>3. PICK f : Adds(f, u) /\ a = f[n]
  BY DEF InEffect
<1>4. /\ f \in [0 .. n -> Seq(Edit)] /\ f[0] = <<>>
      /\ \A i \in 1 .. n : f[i] = f[i - 1] \o u[i].edits
  BY <1>3 DEF Adds
<1>5. a \in Seq(Edit) /\ c.edits \in Seq(Edit)
  BY <1>1, <1>3, <1>4, CommandType
<1>6. a \o c.edits \in Seq(Edit)
  BY <1>5, ConcatProperties
<1> HIDE DEF n, v
<1>7. PICK g : g = [i \in 0 .. n + 1 |-> IF i = n + 1 THEN a \o c.edits ELSE f[i]]
  OBVIOUS
<1>8. g \in [0 .. n + 1 -> Seq(Edit)]
  BY <1>1, <1>4, <1>6, <1>7
<1>9. g[0] = <<>> /\ g[n + 1] = a \o c.edits /\ \A i \in 0 .. n : g[i] = f[i]
  <2>1. /\ n + 1 \in 0 .. n + 1 /\ 0 \in 0 .. n
        /\ \A i \in 0 .. n : i \in 0 .. n + 1 /\ i # n + 1
    BY <1>1
  <2>2. \A i \in 0 .. n : g[i] = f[i]
    BY <1>7, <2>1
  <2>3. g[n + 1] = a \o c.edits
    BY <1>7, <2>1
  <2> QED
    BY <1>4, <2>1, <2>2, <2>3
<1>10. ASSUME NEW i \in 1 .. n + 1 PROVE g[i] = g[i - 1] \o v[i].edits
  <2>1. CASE i = n + 1
    <3>1. i - 1 = n /\ n \in 0 .. n
      BY <1>1, <2>1
    <3> QED
      BY <1>2, <1>3, <1>9, <2>1, <3>1
  <2>2. CASE i # n + 1
    <3>1. i \in 1 .. n /\ i \in 0 .. n /\ i - 1 \in 0 .. n
      BY <1>1, <2>2
    <3> QED
      BY <1>2, <1>4, <1>9, <3>1
  <2> QED
    BY <2>1, <2>2
<1>11. Adds(g, v)
  BY <1>2, <1>8, <1>9, <1>10 DEF Adds
<1>12. InEffect(a \o c.edits, v)
  BY <1>2, <1>9, <1>11 DEF InEffect
<1> QED
  BY <1>12 DEF v

(* Without the newest command, what is in effect lacks that one's edits.   *)
LEMMA OneLessInEffect ==
  ASSUME NEW u \in Seq(Command), u # <<>>, NEW a, InEffect(a, u)
  PROVE  \E b \in Seq(Edit) : InEffect(b, Front(u)) /\ a = b \o Last(u).edits
<1> DEFINE n == Len(u)
           v == Front(u)
<1>1. n \in Nat \ {0} /\ n \in 1 .. n /\ n - 1 \in 0 .. n
  BY FrontLast
<1>2. Len(v) = n - 1 /\ \A i \in 1 .. n - 1 : v[i] = u[i]
  BY FrontLast
<1>3. PICK f : Adds(f, u) /\ a = f[n]
  BY DEF InEffect
<1>4. /\ f \in [0 .. n -> Seq(Edit)] /\ f[0] = <<>>
      /\ \A i \in 1 .. n : f[i] = f[i - 1] \o u[i].edits
  BY <1>3 DEF Adds
<1>5. Last(u) = u[n]
  BY DEF Last
<1> HIDE DEF n, v
<1>6. PICK g : g = [i \in 0 .. n - 1 |-> f[i]]
  OBVIOUS
<1>7. /\ g \in [0 .. n - 1 -> Seq(Edit)] /\ g[0] = <<>>
      /\ \A i \in 0 .. n - 1 : g[i] = f[i]
  BY <1>1, <1>4, <1>6
<1>8. ASSUME NEW i \in 1 .. n - 1 PROVE g[i] = g[i - 1] \o v[i].edits
  <2>1. i \in 1 .. n /\ i \in 0 .. n - 1 /\ i - 1 \in 0 .. n - 1
    BY <1>1
  <2> QED
    BY <1>2, <1>4, <1>7, <2>1
<1>9. Adds(g, v)
  BY <1>2, <1>7, <1>8 DEF Adds
<1>10. n - 1 \in 0 .. n - 1 /\ g[n - 1] \in Seq(Edit)
  BY <1>1, <1>7
<1>11. InEffect(g[n - 1], v)
  BY <1>2, <1>9 DEF InEffect
<1>12. a = g[n - 1] \o u[n].edits
  BY <1>1, <1>3, <1>4, <1>7, <1>10
<1> QED
  BY <1>5, <1>10, <1>11, <1>12 DEF v

(* FlattenSeq of the commands' edits is what Adds says.                    *)
LEMMA FlattenIs ==
  ASSUME NEW u \in Seq(Command), NEW a, InEffect(a, u)
  PROVE  a = FlattenSeq([i \in DOMAIN u |-> u[i].edits])
<1> DEFINE n == Len(u)
           s == [i \in DOMAIN u |-> u[i].edits]
           G(h) == [i \in 1 .. Len(s) |-> IF i = 1 THEN s[i] ELSE h[i - 1] \o s[i]]
           H == CHOOSE h : h = G(h)
<1>1. n \in Nat /\ DOMAIN u = 1 .. n
  BY LenProperties
<1>2. ASSUME NEW i \in 1 .. n PROVE s[i] = u[i].edits /\ s[i] \in Seq(Edit)
  BY <1>1, CommandType, ElementOfSeq
<1>3. s \in Seq(Seq(Edit)) /\ Len(s) = n
  BY <1>1, <1>2
<1>4. PICK f : Adds(f, u) /\ a = f[n]
  BY DEF InEffect
<1>5. /\ f \in [0 .. n -> Seq(Edit)] /\ f[0] = <<>>
      /\ \A i \in 1 .. n : f[i] = f[i - 1] \o u[i].edits
  BY <1>4 DEF Adds
<1> HIDE DEF n
<1>6. CASE n = 0
  <2>1. s = <<>> /\ Len(s) = 0
    BY <1>3, <1>6, EmptySeq
  <2> HIDE DEF s
  <2>2. FlattenSeq(s) = <<>>
    BY <2>1 DEF FlattenSeq
  <2> QED
    BY <1>4, <1>5, <1>6, <2>2 DEF s
<1>7. CASE n # 0
  <2>1. FlattenSeq(s) = H[Len(s)]
    <3> HIDE DEF s
    <3> QED
      BY <1>3, <1>7 DEF FlattenSeq
  <2> HIDE DEF s
  <2>2. PICK g : g = [i \in 1 .. n |-> f[i]]
    OBVIOUS
  <2>3. \A i \in 1 .. n : g[i] = IF i = 1 THEN s[i] ELSE g[i - 1] \o s[i]
    <3>1. SUFFICES ASSUME NEW i \in 1 .. n
                   PROVE  g[i] = IF i = 1 THEN s[i] ELSE g[i - 1] \o s[i]
      OBVIOUS
    <3>2. g[i] = f[i - 1] \o s[i]
      BY <1>2, <1>5, <2>2
    <3>3. CASE i = 1
      <4>1. f[i - 1] = <<>>
        BY <1>5, <3>3
      <4> QED
        BY <1>2, <3>2, <3>3, <4>1, ConcatEmptySeq
    <3>4. CASE i # 1
      <4>1. i - 1 \in 1 .. n
        BY <1>1, <3>4
      <4> QED
        BY <2>2, <3>2, <3>4, <4>1
    <3> QED
      BY <3>3, <3>4
  <2>4. g = G(g)
    BY <1>3, <2>2, <2>3
  <2>5. H = G(H)
    <3> HIDE DEF G
    <3> QED
      BY <2>4
  <2> HIDE DEF H
  <2>6. \A i \in 1 .. n : H[i] = IF i = 1 THEN s[i] ELSE H[i - 1] \o s[i]
    BY <1>3, <2>5
  <2>7. \A i \in 1 .. n : H[i] = g[i]
    <3> DEFINE D == {i \in 1 .. n : H[i] # g[i]}
    <3>1. SUFFICES ASSUME D # {} PROVE FALSE
      OBVIOUS
    <3>2. D \subseteq Nat
      BY <1>1
    <3>3. PICK m \in D : \A k \in D : m <= k
      BY <3>1, <3>2, LeastNumber
    <3>4. m \in 1 .. n /\ H[m] # g[m]
      BY <3>3
    <3>5. m # 1
      BY <2>3, <2>6, <3>4
    <3>6. m - 1 \in 1 .. n /\ ~(m <= m - 1)
      BY <1>1, <3>4, <3>5
    <3>7. H[m - 1] = g[m - 1]
      BY <3>3, <3>6
    <3> QED
      BY <2>3, <2>6, <3>4, <3>5, <3>7
  <2>8. n \in 1 .. n
    BY <1>1, <1>7
  <2> QED
    BY <1>3, <1>4, <2>1, <2>2, <2>7, <2>8 DEF s
<1> QED
  BY <1>6, <1>7

(* TakeBack removes the edit that was added last.                          *)
LEMMA TakeBackLast ==
  ASSUME NEW S, NEW f \in Seq(S), NEW e \in S
  PROVE  TakeBack(e, f \o <<e>>) = f
<1>1. PICK a : a = f \o <<e>>
  OBVIOUS
<1>2. PICK n \in Nat : n = Len(f)
  BY LenProperties
<1>3. a = Append(f, e)
  BY <1>1, AppendIsConcat
<1>4. /\ a \in Seq(S) /\ Len(a) = n + 1 /\ a[n + 1] = e
      /\ \A i \in 1 .. n : a[i] = f[i]
  BY <1>2, <1>3, AppendProperties
<1>5. PICK r : r = Reverse(a)
  OBVIOUS
<1>6. /\ r \in Seq(S) /\ Len(r) = n + 1
      /\ \A i \in 1 .. n + 1 : r[i] = a[n + 1 - i + 1]
  BY <1>4, <1>5, ReverseType
<1>7. r[1] = e
  BY <1>4, <1>6
<1>8. PICK t : t = SubSeq(r, 2, n + 1)
  OBVIOUS
<1>9. /\ t \in Seq(S) /\ Len(t) = n
      /\ \A i \in 1 .. n : t[i] = r[i + 1]
  <2>1. \A i \in 2 .. n + 1 : r[i] \in S
    BY <1>6, ElementOfSeq
  <2>2. /\ t \in Seq(S) /\ Len(t) = IF 2 <= n + 1 THEN n + 1 - 2 + 1 ELSE 0
        /\ \A i \in 1 .. n + 1 - 2 + 1 : t[i] = r[2 + i - 1]
    BY <1>8, <2>1, SubSeqProperties
  <2>3. \A i \in 1 .. n : 2 + i - 1 = i + 1 /\ i \in 1 .. n + 1 - 2 + 1
    OBVIOUS
  <2> QED
    BY <2>2, <2>3
<1>10. RemoveFirst(r, e) = t
  <2> DEFINE I == {i \in 1 .. Len(r) : r[i] = e}
  <2>1. 1 \in I /\ \A j \in I : 1 <= j /\ j \in Nat
    BY <1>6, <1>7
  <2>2. \A x \in I : (\A y \in I : x <= y) => x = 1
    BY <2>1
  <2>3. Min(I) = 1
    BY <2>1, <2>2 DEF Min
  <2>4. (\E i \in 1 .. Len(r) : r[i] = e) /\ I # {}
    BY <2>1
  <2>5. RemoveFirst(r, e) = RemoveAt(r, 1)
    BY <2>3, <2>4 DEF RemoveFirst, SelectInSeq
  <2>6. SubSeq(r, 1, 1 - 1) = <<>> /\ SubSeq(r, 1 + 1, Len(r)) = t
    BY <1>6, <1>8, SubSeqEmpty
  <2> QED
    BY <1>9, <2>5, <2>6, ConcatEmptySeq DEF RemoveAt
<1>11. /\ Reverse(t) \in Seq(S) /\ Len(Reverse(t)) = n
       /\ \A i \in 1 .. n : Reverse(t)[i] = t[n - i + 1]
  BY <1>9, ReverseType
<1>12. ASSUME NEW i \in 1 .. n PROVE Reverse(t)[i] = f[i]
  <2>1. /\ n - i + 1 \in 1 .. n /\ n - i + 1 + 1 \in 1 .. n + 1
        /\ n + 1 - (n - i + 1 + 1) + 1 = i
    OBVIOUS
  <2>2. t[n - i + 1] = r[n - i + 1 + 1]
    BY <1>9, <2>1
  <2>3. r[n - i + 1 + 1] = a[i]
    BY <1>6, <2>1
  <2> QED
    BY <1>4, <1>11, <2>2, <2>3
<1>13. Reverse(t) = f
  BY <1>2, <1>11, <1>12, SeqEqual
<1> QED
  BY <1>1, <1>5, <1>10, <1>13 DEF TakeBack

(* FoldRight over the edits of a command that has at most one.             *)
LEMMA FoldsUnfold ==
  ASSUME NEW a, NEW s
  PROVE  LET G(t, iter) == IF t = {} THEN a
                           ELSE LET x == Min(t) IN TakeBack(s[x], iter[t \ {x}])
         IN  FoldRight(TakeBack, s, a)
               = (CHOOSE iter : iter = [t \in SUBSET DOMAIN s |-> G(t, iter)])[DOMAIN s]
  BY DEF FoldRight, MapThenFoldSet

LEMMA TakeBackNone ==
  ASSUME NEW a PROVE FoldRight(TakeBack, <<>>, a) = a
<1> DEFINE G(t, iter) == IF t = {} THEN a
                         ELSE LET x == Min(t) IN TakeBack(<<>>[x], iter[t \ {x}])
           F == CHOOSE iter : iter = [t \in SUBSET DOMAIN <<>> |-> G(t, iter)]
           h == [t \in SUBSET DOMAIN <<>> |-> a]
<1>1. DOMAIN <<>> = {} /\ SUBSET DOMAIN <<>> = {{}}
  OBVIOUS
<1>2. FoldRight(TakeBack, <<>>, a) = F[DOMAIN <<>>]
  BY FoldsUnfold
<1>3. h = [t \in SUBSET DOMAIN <<>> |-> G(t, h)]
  BY <1>1
<1>4. F = [t \in SUBSET DOMAIN <<>> |-> G(t, F)]
  <2> HIDE DEF h, G
  <2> QED
    BY <1>3
<1> QED
  <2> HIDE DEF F
  <2> QED
    BY <1>1, <1>2, <1>4

LEMMA TakeBackOne ==
  ASSUME NEW a, NEW e PROVE FoldRight(TakeBack, <<e>>, a) = TakeBack(e, a)
<1> DEFINE s == <<e>>
           G(t, iter) == IF t = {} THEN a
                         ELSE LET x == Min(t) IN TakeBack(s[x], iter[t \ {x}])
           F == CHOOSE iter : iter = [t \in SUBSET DOMAIN s |-> G(t, iter)]
           h == [t \in SUBSET DOMAIN s |-> IF t = {} THEN a ELSE TakeBack(e, a)]
<1>1. DOMAIN s = {1} /\ SUBSET DOMAIN s = {{}, {1}} /\ s[1] = e
  OBVIOUS
<1>2. Min({1}) = 1
  BY DEF Min
<1>3. FoldRight(TakeBack, s, a) = F[DOMAIN s]
  BY FoldsUnfold
<1> HIDE DEF s
<1>4. h = [t \in SUBSET DOMAIN s |-> G(t, h)]
  <2>1. \A t \in SUBSET DOMAIN s : h[t] = G(t, h)
    <3>1. h[{}] = a /\ h[{1}] = TakeBack(e, a)
      BY <1>1
    <3>2. G({}, h) = a
      OBVIOUS
    <3>3. G({1}, h) = TakeBack(s[1], h[{1} \ {1}])
      <4> HIDE DEF h
      <4> QED
        BY <1>2
    <3>4. {1} \ {1} = {}
      OBVIOUS
    <3> HIDE DEF h, G
    <3> QED
      BY <1>1, <3>1, <3>2, <3>3, <3>4
  <2> HIDE DEF G
  <2> QED
    BY <2>1
<1>5. F = [t \in SUBSET DOMAIN s |-> G(t, F)]
  <2> HIDE DEF h, G
  <2> QED
    BY <1>4
<1> HIDE DEF F
<1>6. F[{}] = a /\ F[{1}] = TakeBack(s[1], F[{1} \ {1}])
  <2>1. F[{}] = G({}, F) /\ F[{1}] = G({1}, F)
    <3> HIDE DEF G
    <3> QED
      BY <1>1, <1>5
  <2> QED
    BY <1>2, <2>1
<1>7. {1} \ {1} = {}
  OBVIOUS
<1> QED
  BY <1>1, <1>3, <1>6, <1>7 DEF s

LEMMA EffectType ==
  ASSUME NEW u \in Seq(Command), NEW a, InEffect(a, u)
  PROVE  a \in Seq(Edit)
<1>1. PICK f : Adds(f, u) /\ a = f[Len(u)]
  BY DEF InEffect
<1>2. Len(u) \in 0 .. Len(u)
  BY LenProperties
<1> QED
  BY <1>1, <1>2 DEF Adds

(* Execute of a whole command adds its edits, and otherwise has stopped in *)
(* the middle or not begun.                                                *)
LEMMA ExecutedFits ==
  ASSUME NEW c \in Command, NEW k \in 0 .. Len(c.edits), Executed(c, k), applied \in Seq(Edit)
  PROVE  /\ torn' = (torn \/ k \in 1 .. Len(c.edits) - 1)
         /\ k = 0 => applied' = applied
         /\ k = Len(c.edits) => applied' = applied \o c.edits
<1>1. applied' = applied \o SubSeq(c.edits, 1, k)
  BY DEF Executed
<1>2. c.edits \in Seq(Edit)
  BY CommandType
<1>3. SubSeq(c.edits, 1, 0) = <<>> /\ SubSeq(c.edits, 1, Len(c.edits)) = c.edits
  BY <1>2, SubSeqEmpty, SubSeqFull
<1> QED
  BY <1>1, <1>3, ConcatEmptySeq DEF Executed

(* What Execute leaves behind, for a new command and for Redo.             *)
LEMMA RunFits ==
  ASSUME ListInv, NEW c \in Command, NEW k \in 0 .. Len(c.edits), Executed(c, k),
         undoList' = IF k = Len(c.edits) THEN Append(undoList, c) ELSE undoList,
         overrun' = overrun
  PROVE  EffectFits'
<1>1. torn \in BOOLEAN /\ overrun \in BOOLEAN /\ undoList \in Seq(Command)
  BY DEF ListInv, EffectFits, TypeOK
<1>2. torn' = (torn \/ k \in 1 .. Len(c.edits) - 1)
  BY DEF Executed
<1>3. ASSUME ~torn', ~overrun' PROVE InEffect(applied', undoList')
  <2>1. ~torn /\ ~overrun /\ k \notin 1 .. Len(c.edits) - 1
    BY <1>2, <1>3
  <2>2. InEffect(applied, undoList)
    BY <2>1 DEF ListInv, EffectFits
  <2>3. applied \in Seq(Edit)
    BY <1>1, <2>2, EffectType
  <2>4. k = 0 \/ k = Len(c.edits)
    BY <2>1, CommandType
  <2>5. CASE k = Len(c.edits)
    <3>1. applied' = applied \o c.edits /\ undoList' = Append(undoList, c)
      BY <2>3, <2>5, ExecutedFits
    <3> QED
      BY <1>1, <2>2, <3>1, OneMoreInEffect
  <2>6. CASE k # Len(c.edits)
    <3>1. applied' = applied /\ undoList' = undoList
      BY <2>3, <2>4, <2>6, ExecutedFits
    <3> QED
      BY <2>2, <3>1
  <2> QED
    BY <2>5, <2>6
<1> QED
  BY <1>1, <1>2, <1>3 DEF EffectFits

(* Undo of a single command takes back the edit that was added last.       *)
LEMMA UndoSingleFits ==
  ASSUME ListInv, UndoSingle
  PROVE  EffectFits'
<1>0. PICK c : c = Last(undoList)
  OBVIOUS
<1>1. /\ torn \in BOOLEAN /\ overrun \in BOOLEAN /\ undoList \in Seq(Command)
      /\ undoList # <<>> /\ ~c.list /\ overrun' = overrun
  BY <1>0 DEF ListInv, EffectFits, TypeOK, UndoSingle
<1>2. c \in Command
  BY <1>0, <1>1, FrontLast
<1>3. PICK k \in 0 .. 1 : TakenBack(c, k) /\ Undo(k = 0)
  BY <1>0 DEF UndoSingle
<1>4. Len(c.edits) = 1 /\ c.edits \in Seq(Edit)
  BY <1>1, <1>2, CommandType
<1>5. PICK e \in Edit : c.edits = <<e>>
  <2>1. PICK e \in Edit : c.edits[1] = e
    BY <1>4, ElementOfSeq
  <2>2. <<e>> \in Seq(Edit) /\ Len(<<e>>) = 1 /\ <<e>>[1] = e
    OBVIOUS
  <2>3. c.edits = <<e>>
    BY <1>4, <2>1, <2>2, SeqEqual
  <2> QED
    BY <2>3
<1>6. /\ applied' = FoldRight(TakeBack, SubSeq(c.edits, k + 1, 1), applied)
      /\ torn' = (torn \/ k \in 1 .. 1 - 1)
  BY <1>3, <1>4 DEF TakenBack
<1>7. torn' = torn
  BY <1>1, <1>6
<1>8. ASSUME ~torn', ~overrun' PROVE InEffect(applied', undoList')
  <2>1. InEffect(applied, undoList)
    BY <1>1, <1>7, <1>8 DEF ListInv, EffectFits
  <2>2. CASE k = 0
    <3>1. PICK b \in Seq(Edit) : InEffect(b, Front(undoList)) /\ applied = b \o c.edits
      BY <1>0, <1>1, <2>1, OneLessInEffect
    <3>2. SubSeq(c.edits, k + 1, 1) = <<e>>
      <4>1. k + 1 = 1
        BY <2>2
      <4> QED
        BY <1>4, <1>5, <4>1, SubSeqFull
    <3>3. applied' = FoldRight(TakeBack, <<e>>, applied)
      BY <1>6, <3>2
    <3>4. applied' = TakeBack(e, b \o <<e>>)
      BY <1>5, <3>1, <3>3, TakeBackOne
    <3>5. applied' = b
      BY <3>4, TakeBackLast
    <3>6. undoList' = Front(undoList)
      BY <1>3, <2>2 DEF Undo
    <3> QED
      BY <3>1, <3>5, <3>6
  <2>3. CASE k = 1
    <3>1. SubSeq(c.edits, k + 1, 1) = <<>>
      BY <2>3, SubSeqEmpty
    <3>2. applied' = applied
      BY <1>6, <2>3, <3>1, TakeBackNone
    <3>3. undoList' = undoList
      BY <1>3, <2>3 DEF Undo, vars
    <3> QED
      BY <2>1, <3>2, <3>3
  <2> QED
    BY <2>2, <2>3
<1> QED
  BY <1>1, <1>7, <1>8 DEF EffectFits

(* AppCommandList::Undo that neither stops in the middle nor overruns has  *)
(* taken nothing back.                                                     *)
LEMMA UndoListFits ==
  ASSUME ListInv, UndoList
  PROVE  EffectFits'
<1>0. PICK c : c = Last(undoList)
  OBVIOUS
<1>1. /\ torn \in BOOLEAN /\ ~overrun /\ undoList \in Seq(Command) /\ undoList # <<>>
  BY <1>0 DEF ListInv, EffectFits, TypeOK, UndoList
<1>2. c \in Command
  BY <1>0, <1>1, FrontLast
<1>3. PICK k \in 0 .. Len(c.edits) : /\ TakenBack(c, k)
                                     /\ overrun' = (k = 0)
                                     /\ Undo(FALSE)
  BY <1>0 DEF UndoList
<1>4. /\ applied' = FoldRight(TakeBack, SubSeq(c.edits, k + 1, Len(c.edits)), applied)
      /\ torn' = (torn \/ k \in 1 .. Len(c.edits) - 1)
  BY <1>3 DEF TakenBack
<1>5. undoList' = undoList
  BY <1>3 DEF Undo, vars
<1>6. ASSUME ~torn', ~overrun' PROVE InEffect(applied', undoList')
  <2>1. Len(c.edits) \in Nat
    BY <1>2, CommandType
  <2>2. ~torn /\ k # 0 /\ k \notin 1 .. Len(c.edits) - 1
    BY <1>3, <1>4, <1>6
  <2>3. ~torn /\ k = Len(c.edits)
    BY <2>1, <2>2
  <2>4. SubSeq(c.edits, k + 1, Len(c.edits)) = <<>>
    BY <2>1, <2>3, SubSeqEmpty
  <2>5. applied' = applied
    BY <1>4, <2>4, TakeBackNone
  <2> QED
    BY <1>1, <1>5, <2>3, <2>5 DEF ListInv, EffectFits
<1> QED
  BY <1>1, <1>3, <1>4, <1>6 DEF EffectFits

LEMMA ListInvStep == ListInv /\ [ListNext]_listVars => ListInv'
<1> SUFFICES ASSUME ListInv, [ListNext]_listVars PROVE ListInv'
  OBVIOUS
<1>1. TypeOK'
  BY ListStepIsStep, StacksStep DEF ListInv, EffectFits
<1>2. SUFFICES EffectFits'
  BY <1>1 DEF ListInv, EffectFits
<1>3. redoList \in Seq(Command)
  BY DEF ListInv, EffectFits, TypeOK
<1>4. ASSUME NEW c \in Command, NewCommand(c) PROVE EffectFits'
  <2>1. PICK k \in 0 .. Len(c.edits) : Executed(c, k) /\ AddCommand(c, TRUE, k = Len(c.edits))
    BY <1>4 DEF NewCommand
  <2>2. overrun' = overrun
    BY <1>4 DEF NewCommand
  <2>3. undoList' = IF k = Len(c.edits) THEN Append(undoList, c) ELSE undoList
    BY <2>1 DEF AddCommand, vars
  <2> QED
    BY <2>1, <2>2, <2>3, RunFits
<1>5. ASSUME NEW c \in Command, RecordCommand(c) PROVE EffectFits'
  <2>1. PICK k \in 0 .. Len(c.edits) : k = Len(c.edits) /\ Executed(c, k)
    BY <1>5, CommandType DEF RecordCommand
  <2>2. overrun' = overrun /\ undoList' = Append(undoList, c)
    BY <1>5 DEF RecordCommand, AddCommand
  <2> QED
    BY <2>1, <2>2, RunFits
<1>6. CASE RedoCommand
  <2>1. PICK c \in Command : c = Last(redoList)
    BY <1>3, <1>6, FrontLast DEF RedoCommand
  <2>2. PICK k \in 0 .. Len(c.edits) : Executed(c, k) /\ Redo(k = Len(c.edits))
    BY <1>6, <2>1 DEF RedoCommand
  <2>3. overrun' = overrun
    BY <1>6 DEF RedoCommand
  <2>4. undoList' = IF k = Len(c.edits) THEN Append(undoList, c) ELSE undoList
    BY <2>1, <2>2 DEF Redo, vars
  <2> QED
    BY <2>1, <2>2, <2>3, <2>4, RunFits
<1>7. CASE UndoSingle
  BY <1>7, UndoSingleFits
<1>8. CASE UndoList
  BY <1>8, UndoListFits
<1>9. CASE ClearAll
  <2>1. /\ applied' = <<>> /\ undoList' = <<>> /\ torn' = FALSE /\ overrun' = overrun
    BY <1>9 DEF ClearAll, Clear
  <2>2. overrun \in BOOLEAN
    BY DEF ListInv, EffectFits
  <2> QED
    BY <2>1, <2>2, NothingInEffect DEF EffectFits
<1>10. CASE UNCHANGED listVars
  BY <1>10 DEF listVars, vars, ListInv, EffectFits
<1> QED
  BY <1>4, <1>5, <1>6, <1>7, <1>8, <1>9, <1>10 DEF ListNext

(* As long as no list has stopped half way, the edits in effect are those  *)
(* of the commands on the undo stack, in their order, whatever the lists   *)
(* are made of and whichever edits are refused.                            *)
THEOREM StackIsInEffect == ListSpec => []RecordedIsInEffect
<1>1. ListInit => ListInv
  <2>1. <<>> \in Seq(Command) /\ Len(<<>>) + Len(<<>>) <= MaxCommands
    BY EmptySeq, MaxCommandsAssumption
  <2> QED
    BY <2>1, NothingInEffect DEF ListInit, Init, ListInv, EffectFits, TypeOK
<1>2. ListInv => RecordedIsInEffect
  <2> SUFFICES ASSUME ListInv, ~torn, ~overrun
               PROVE  applied = FlattenSeq([i \in DOMAIN undoList |-> undoList[i].edits])
    BY DEF RecordedIsInEffect
  <2>1. InEffect(applied, undoList) /\ undoList \in Seq(Command)
    BY DEF ListInv, EffectFits, TypeOK
  <2> QED
    BY <2>1, FlattenIs
<1> QED
  BY <1>1, <1>2, ListInvStep, PTL DEF ListSpec
=============================================================================
