--------------------------- MODULE MCCommandLists ---------------------------
(***************************************************************************)
(* An instance of CommandLists for TLC: two single edits, a list of both,  *)
(* a list of one and the empty list.                                       *)
(***************************************************************************)
EXTENDS CommandLists

CONSTANTS e1, e2

TwoEdits == {e1, e2}

Single(e)    == [edits |-> <<e>>, list |-> FALSE]
ListOf(s)    == [edits |-> s, list |-> TRUE]
SomeCommands == {Single(e1), Single(e2), ListOf(<<e1, e2>>), ListOf(<<e2>>), ListOf(<<>>)}
=============================================================================
