---------------------------- MODULE UndoHistory ----------------------------
(***************************************************************************)
(* What an undo/redo facility promises, with no stacks in it: one history  *)
(* of commands and a cursor.  The commands before the cursor are in        *)
(* effect, those after it have been stepped back over and can be stepped   *)
(* forward over again.  CommandManager.tla is shown to implement it.       *)
(***************************************************************************)
EXTENDS Naturals, Sequences

CONSTANT Command        \* the commands a user can record

VARIABLES history,      \* every command that can be reached, oldest first
          cursor        \* how many of them are in effect

vars == <<history, cursor>>

TypeOK == /\ history \in Seq(Command)
          /\ cursor \in 0 .. Len(history)

Init == history = <<>> /\ cursor = 0

(* Recording a command drops whatever had been stepped back over.          *)
Record(c) == /\ history' = Append(SubSeq(history, 1, cursor), c)
             /\ cursor' = cursor + 1

(* A step back cancels the newest command in effect; nothing is forgotten. *)
StepBack == /\ cursor > 0
            /\ cursor' = cursor - 1
            /\ UNCHANGED history

(* A step forward puts the oldest cancelled command into effect again.     *)
StepForward == /\ cursor < Len(history)
               /\ cursor' = cursor + 1
               /\ UNCHANGED history

Forget == history' = <<>> /\ cursor' = 0

Next == \/ \E c \in Command : Record(c)
        \/ StepBack
        \/ StepForward
        \/ Forget

Spec == Init /\ [][Next]_vars
=============================================================================
