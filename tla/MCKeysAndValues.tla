-------------------------- MODULE MCKeysAndValues ---------------------------
(***************************************************************************)
(* An instance of KeysAndValues for TLC: a key with three keys below it,   *)
(* of which two have the same value, and a free name: two renames can      *)
(* exchange keys with and without values.                                  *)
(***************************************************************************)
EXTENDS KeysAndValues, TLC

CONSTANTS k1, k2, k3, k4, v1, v2

FourNames == {k1, k2, k3, k4}
TwoData   == {v1, v2}
Siblings  == {<<>>, <<k1>>, <<k1, k1>>, <<k1, k2>>, <<k1, k3>>}
TwoValues == <<>> :> NoValue @@ <<k1>> :> NoValue @@ <<k1, k1>> :> v1
               @@ <<k1, k2>> :> NoValue @@ <<k1, k3>> :> v1
=============================================================================
