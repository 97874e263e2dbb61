--------------------------- MODULE MCIntValueDlg ---------------------------
(***************************************************************************)
(* An instance of IntValueDlg for TLC, with numbers of six bits and texts  *)
(* of at most half as many characters, as 64 and 32 are in the program.    *)
(***************************************************************************)
EXTENDS IntValueDlg

(* Zero, one, a number whose digits differ in all radices, one whose       *)
(* hexadecimal text is a letter, and two too long for a binary text.       *)
SomeInts == {0, 1, 5, 10, 16, 40}

(* Texts that are numbers in every radix, in some, in none, too large for  *)
(* six bits, and too long for the dialog.                                  *)
SomeTexts == {<<>>, <<1, 0>>, <<9, 1>>, <<15>>, <<16>>, <<1, 16, 1>>, <<8, 0>>, <<1, 0, 1, 1>>}
=============================================================================
