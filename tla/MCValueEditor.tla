--------------------------- MODULE MCValueEditor ---------------------------
(***************************************************************************)
(* Instances of ValueEditor for TLC: the default name and two others, with *)
(* numbers of five bits of which a REG_DWORD keeps four.                   *)
(***************************************************************************)
EXTENDS ValueEditorProps

CONSTANTS x, y, z

Names   == {Default, x, y}
WithZ   == Names \union {z}
XOrNone == {Default, x}

(* A key with a default value and a multi-string of two lines and a        *)
(* binary value, and keys with fewer.                                      *)
Dword(v)  == [type |-> "dword", data |-> <<v>>]
Multi(s)  == [type |-> "multi", data |-> s]
TwoLines  == Multi(<<1, 0, 2, 0, 0>>)
ManyTypes == Default :> [type |-> "expand", data |-> <<1>>] @@ x :> TwoLines
               @@ z :> [type |-> "binary", data |-> <<1, 1>>]
TwoValues == Default :> [type |-> "expand", data |-> <<1>>] @@ x :> Dword(5)
OneValue  == x :> [type |-> "binary", data |-> <<1, 1>>]

(* Numbers that fit and do not fit a REG_DWORD, binary data, and texts for *)
(* the multi-string: one line without its end, an empty line in between.   *)
Numbers   == {Dword(3), Dword(19)}
OneNumber == {Dword(19)}
Typed     == OneNumber \union {[type |-> "binary", data |-> <<1>>], [type |-> "qword", data |-> <<19>>],
                             Multi(<<1>>), Multi(<<0, 1, 0, 0, 2>>)}

(* Behind a text lies a zero or another string.                            *)
SomeMemory == {<<>>, <<2>>}
=============================================================================
