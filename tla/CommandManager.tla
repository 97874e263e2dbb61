--------------------------- MODULE CommandManager ---------------------------
(***************************************************************************)
(* The two command stacks of class CommandManager (CommandManager.cpp).    *)
(* A command is a value here: what Execute and Undo do to the registry is  *)
(* in KeyTree.tla; whether they succeed is a choice, because the registry  *)
(* may refuse any of them (permissions, a key that is gone).               *)
(***************************************************************************)
EXTENDS Naturals, Sequences, SequencesExt

CONSTANTS Command,      \* the command objects (shared_ptr<AppCommandBase>)
          MaxCommands   \* bound: the most commands the two stacks hold

ASSUME MaxCommandsAssumption == MaxCommands \in Nat

VARIABLES undoList,     \* _undoList, newest last
          redoList      \* _redoList, most recently undone last

vars == <<undoList, redoList>>

(* The stacks hold commands, between them never more than were added.      *)
TypeOK == /\ undoList \in Seq(Command)
          /\ redoList \in Seq(Command)
          /\ Len(undoList) + Len(redoList) <= MaxCommands

Init == undoList = <<>> /\ redoList = <<>>

(* AddCommand: with execute = false the command is recorded without being  *)
(* run; a command whose Execute fails leaves both stacks alone.            *)
AddCommand_KeepsRedo(c, execute, executed) ==   \* variant: the redo stack is not cleared
  /\ Len(undoList) < MaxCommands
  /\ undoList' = IF execute => executed THEN Append(undoList, c) ELSE undoList
  /\ UNCHANGED redoList

AddCommand(c, execute, executed) ==
  /\ Len(undoList) < MaxCommands
  /\ IF execute => executed
       THEN /\ undoList' = Append(undoList, c)
            /\ redoList' = <<>>
       ELSE UNCHANGED vars

(* Undo: the newest command moves to the redo stack once its Undo worked.  *)
Undo_Drops(undone) ==                   \* variant: the command is not kept for Redo
  /\ undoList # <<>>
  /\ undoList' = IF undone THEN Front(undoList) ELSE undoList
  /\ UNCHANGED redoList

Undo(undone) ==
  /\ undoList # <<>>
  /\ IF undone
       THEN /\ redoList' = Append(redoList, Last(undoList))
            /\ undoList' = Front(undoList)
       ELSE UNCHANGED vars

(* Redo: the newest undone command is executed again and moves back.       *)
Redo(executed) ==
  /\ redoList # <<>>
  /\ IF executed
       THEN /\ undoList' = Append(undoList, Last(redoList))
            /\ redoList' = Front(redoList)
       ELSE UNCHANGED vars

Clear == undoList' = <<>> /\ redoList' = <<>>

Next == \/ \E c \in Command, execute, executed \in BOOLEAN : AddCommand(c, execute, executed)
        \/ \E undone \in BOOLEAN : Undo(undone)
        \/ \E executed \in BOOLEAN : Redo(executed)
        \/ Clear

Spec == Init /\ [][Next]_vars

-----------------------------------------------------------------------------
(* The stacks are one history read from its two ends: the undo stack is    *)
(* the part in effect, the redo stack reversed is the rest.                *)
History == undoList \o Reverse(redoList)

Abstract == INSTANCE UndoHistory WITH history <- History, cursor <- Len(undoList)

(* CommandManager::AddCommand, Undo, Redo and Clear keep one linear        *)
(* history: an undo only steps back in it, a redo re-executes exactly the  *)
(* command last undone, and a new command discards what was undone.        *)
IsLinearHistory == Abstract!Spec
=============================================================================
