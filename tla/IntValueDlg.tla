---------------------------- MODULE IntValueDlg ----------------------------
(***************************************************************************)
(* The integer dialog, CIntValueDlg: one dialog after another, each opened *)
(* on a value and closed with OK or Cancel.  The radix m_HexOrDec is       *)
(* static and outlives the dialogs.                                        *)
(***************************************************************************)
EXTENDS IntText

CONSTANTS Given,        \* the values dialogs are opened on
          Typed,        \* the texts the user types
          MaxText,      \* the length DDX_TEXT_LEN accepts
          NoResult      \* no dialog was closed with OK yet

ASSUME DialogAssumption ==
  /\ Given \subseteq 0 .. MaxInt /\ Typed \subseteq Seq(Nat)
  /\ MaxText \in Nat /\ NoResult \notin Nat

VARIABLES m_HexOrDec,   \* the chosen radio button
          m_Value,      \* the text in the dialog object
          edit,         \* the text in the edit control
          m_CanModify,
          open,         \* a dialog is open
          given,        \* the value it was opened on
          typed,        \* the user has typed in it
          result        \* GetRealValue() of the last dialog closed with OK

vars == <<m_HexOrDec, m_Value, edit, m_CanModify, open, given, typed, result>>

TypeOK ==
  /\ m_HexOrDec \in HexOrDec
  /\ m_Value \in Seq(Nat) /\ edit \in Seq(Nat)
  /\ m_CanModify \in BOOLEAN /\ open \in BOOLEAN /\ typed \in BOOLEAN
  /\ given \in 0 .. MaxInt
  /\ result \in 0 .. MaxInt \union {NoResult}

Init ==
  /\ m_HexOrDec = 0
  /\ m_Value = <<>> /\ edit = <<>>
  /\ m_CanModify = FALSE /\ open = FALSE /\ typed = FALSE
  /\ given = 0 /\ result = NoResult

(* SetValue, and OnInitDialog with its DoDataExchange(FALSE).              *)
Open(v, canModify) ==
  /\ ~open
  /\ open' = TRUE /\ typed' = FALSE
  /\ given' = v /\ m_CanModify' = canModify
  /\ m_Value' = TextOf(v, m_HexOrDec) /\ edit' = m_Value'
  /\ UNCHANGED <<m_HexOrDec, result>>

Type(text) ==
  /\ open /\ m_CanModify /\ text # edit
  /\ edit' = text /\ typed' = TRUE
  /\ UNCHANGED <<m_HexOrDec, m_Value, m_CanModify, open, given, result>>

(* OnRadioButtonClicked: the number is taken from m_Value in the old radix *)
(* before DoDataExchange(TRUE) reads the controls.                         *)
OnRadioButtonClicked_OffByOne(n) ==     \* variant: the buttons are counted from one
  /\ open
  /\ m_HexOrDec' = n + 1
  /\ m_Value' = IF m_CanModify THEN TextOf(NumberOf(m_Value, m_HexOrDec), n) ELSE edit
  /\ edit' = m_Value'
  /\ UNCHANGED <<m_CanModify, open, given, typed, result>>

OnRadioButtonClicked(n) ==
  /\ open
  /\ m_HexOrDec' = n
  /\ m_Value' = IF m_CanModify THEN TextOf(NumberOf(m_Value, m_HexOrDec), n) ELSE edit
  /\ edit' = m_Value'
  /\ UNCHANGED <<m_CanModify, open, given, typed, result>>

(* OnSelectColor with a color chosen: SetValue takes 32 bits of it.        *)
OnSelectColor(c) ==
  /\ open /\ m_CanModify
  /\ m_Value' = TextOf(ToDword(c), m_HexOrDec) /\ edit' = m_Value'
  /\ typed' = TRUE
  /\ UNCHANGED <<m_HexOrDec, m_CanModify, open, given, result>>

(* OK is enabled while there is text; DoDataExchange(TRUE) refuses a text  *)
(* that is too long, and the dialog stays.                                 *)
OnCloseCmd_Hex ==                       \* variant: the text is always read as hexadecimal
  /\ open /\ edit # <<>>
  /\ m_Value' = edit
  /\ open' = (Len(edit) > MaxText)
  /\ result' = IF open' THEN result ELSE NumberOf(edit, 0)
  /\ UNCHANGED <<m_HexOrDec, edit, m_CanModify, given, typed>>

OnCloseCmd ==
  /\ open /\ edit # <<>>
  /\ m_Value' = edit
  /\ open' = (Len(edit) > MaxText)
  /\ result' = IF open' THEN result ELSE NumberOf(edit, m_HexOrDec)
  /\ UNCHANGED <<m_HexOrDec, edit, m_CanModify, given, typed>>

OnCancel ==
  /\ open /\ open' = FALSE
  /\ UNCHANGED <<m_HexOrDec, m_Value, edit, m_CanModify, given, typed, result>>

Next == \/ \E v \in Given, canModify \in BOOLEAN : Open(v, canModify)
        \/ \E text \in Typed : Type(text)
        \/ \E n \in HexOrDec : OnRadioButtonClicked(n)
        \/ \E c \in Given : OnSelectColor(c)
        \/ OnCloseCmd
        \/ OnCancel

Spec == Init /\ [][Next]_vars

-----------------------------------------------------------------------------
(* A dialog in which nothing was typed still has the value it was opened   *)
(* on: one that may modify shows it in the chosen radix, however often the *)
(* radix is switched and whichever radix an earlier dialog left behind; a  *)
(* read-only one shows one of its texts, which need not be the text in the *)
(* chosen radix, since a radio button then only puts the text back.        *)
RadixKeepsValue ==
  (open /\ ~typed) =>
    IF m_CanModify THEN NumberOf(edit, m_HexOrDec) = given
                   ELSE \E n \in HexOrDec : edit = TextOf(given, n)

(* OK in a dialog in which nothing was typed: one that may modify delivers *)
(* the value it was opened on, so that OnModifyValue makes no command.  A  *)
(* read-only one may deliver another value, which OnModifyValue writes     *)
(* although README.md:6 promises a "Read only mode": the text of the value *)
(* in one radix read in another, the answers that ValueEditor.tla takes    *)
(* from it.                                                                *)
UntouchedOkDelivers ==
  [][(OnCloseCmd /\ ~open' /\ ~typed) =>
       result' \in IF m_CanModify THEN {given} ELSE Rereadings(given)]_vars
=============================================================================
