---------------------------- MODULE CommandLists ----------------------------
(***************************************************************************)
(* CommandManager with commands of two kinds: a single edit and an         *)
(* AppCommandList, which runs several edits as one command                 *)
(* (AppCommandBase.cpp).  Each edit may be refused on its own.             *)
(***************************************************************************)
EXTENDS CommandManager

CONSTANTS Edit,         \* what a single command does to the registry
          MaxApplied    \* bound: the most edits in effect

ASSUME MaxAppliedAssumption == MaxApplied \in Nat

(* A single command is a sequence of one edit, which is not a list.        *)
ASSUME CommandAssumption ==
  \A c \in Command : /\ c \in [edits : Seq(Edit), list : BOOLEAN]
                     /\ ~c.list => Len(c.edits) = 1

VARIABLES applied,      \* the edits in effect since the last Clear, oldest first
          torn,         \* a list has stopped between two of its edits
          overrun       \* AppCommandList::Undo has read _commands[SIZE_MAX]

listVars == <<vars, applied, torn, overrun>>

ListInit == Init /\ applied = <<>> /\ torn = FALSE /\ overrun = FALSE

(* The first k edits of c are run; Execute stops at the first refusal and  *)
(* leaves what is done.                                                    *)
Executed_FromOne(c, k) ==               \* variant: the loop starts at the second command
  /\ Len(applied) + k <= MaxApplied
  /\ applied' = applied \o SubSeq(c.edits, IF c.list THEN 2 ELSE 1, k)
  /\ torn' = (torn \/ k \in 1 .. Len(c.edits) - 1)

Executed(c, k) ==
  /\ Len(applied) + k <= MaxApplied
  /\ applied' = applied \o SubSeq(c.edits, 1, k)
  /\ torn' = (torn \/ k \in 1 .. Len(c.edits) - 1)

(* The edits of c after the first k are taken back, the last one first.    *)
TakeBack(e, a) == Reverse(RemoveFirst(Reverse(a), e))

TakenBack(c, k) ==
  LET tail == SubSeq(c.edits, k + 1, Len(c.edits))
  IN  /\ Range(tail) \subseteq Range(applied)
      /\ applied' = FoldRight(TakeBack, tail, applied)
      /\ torn' = (torn \/ k \in 1 .. Len(c.edits) - 1)

-----------------------------------------------------------------------------
NewCommand(c) ==
  /\ ~overrun
  /\ \E k \in 0 .. Len(c.edits) : Executed(c, k) /\ AddCommand(c, TRUE, k = Len(c.edits))
  /\ UNCHANGED overrun

(* AddCommand(command, false): the caller has run it already.              *)
RecordCommand(c) == /\ ~overrun /\ Executed(c, Len(c.edits)) /\ AddCommand(c, FALSE, FALSE)
                    /\ UNCHANGED overrun

UndoSingle ==
  /\ ~overrun /\ undoList # <<>> /\ ~Last(undoList).list
  /\ \E k \in 0 .. 1 : TakenBack(Last(undoList), k) /\ Undo(k = 0)
  /\ UNCHANGED overrun

(* The index of AppCommandList::Undo is a size_t: i >= 0 always holds, so  *)
(* the loop ends when an edit is refused, or else runs past the first one  *)
(* (and past the end of an empty list at once).                            *)
UndoList_Signed ==                      \* variant: the index is an int
  /\ ~overrun /\ undoList # <<>> /\ Last(undoList).list
  /\ LET c == Last(undoList)
     IN  \E k \in 0 .. Len(c.edits) : TakenBack(c, k) /\ Undo(k = 0)
  /\ UNCHANGED overrun

UndoList ==
  /\ ~overrun /\ undoList # <<>> /\ Last(undoList).list
  /\ LET c == Last(undoList)
     IN  \E k \in 0 .. Len(c.edits) : /\ TakenBack(c, k)
                                      /\ overrun' = (k = 0)
                                      /\ Undo(FALSE)

RedoCommand ==
  /\ ~overrun /\ redoList # <<>>
  /\ LET c == Last(redoList)
     IN  \E k \in 0 .. Len(c.edits) : Executed(c, k) /\ Redo(k = Len(c.edits))
  /\ UNCHANGED overrun

ClearAll == ~overrun /\ Clear /\ applied' = <<>> /\ torn' = FALSE /\ UNCHANGED overrun

ListNext == \/ \E c \in Command : NewCommand(c) \/ RecordCommand(c)
            \/ UndoSingle
            \/ UndoList
            \/ RedoCommand
            \/ ClearAll

ListSpec == ListInit /\ [][ListNext]_listVars

-----------------------------------------------------------------------------
(* As long as no list has stopped half way, the edits in effect are those  *)
(* of the commands on the undo stack, in their order: CommandManager and   *)
(* AppCommandList::Execute together neither lose nor repeat nor reorder an *)
(* edit over any sequence of new commands, undo and redo.                  *)
RecordedIsInEffect ==
  ~torn /\ ~overrun => applied = FlattenSeq([i \in DOMAIN undoList |-> undoList[i].edits])

(* A list is never undone: AppCommandList::Undo (AppCommandBase.cpp:20)    *)
(* has no way to return true, so no list comes to the redo stack, and once *)
(* it is the newest command every command below it is out of Undo's reach  *)
(* until Clear.                                                            *)
ListsBlockUndo ==
  [][~ClearAll => \A i \in DOMAIN undoList :
       undoList[i].list => IsPrefix(SubSeq(undoList, 1, i), undoList')]_listVars
=============================================================================
