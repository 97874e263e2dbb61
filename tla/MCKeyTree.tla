----------------------------- MODULE MCKeyTree -----------------------------
(***************************************************************************)
(* Instances of KeyTree for TLC: two or three key names and small hives.   *)
(***************************************************************************)
EXTENDS KeyTreeProps

CONSTANTS k1, k2, k3

TwoNames   == {k1, k2}
ThreeNames == {k1, k2, k3}

(* A branch three keys deep: room for new keys beside and below old ones.  *)
DeepHive == {<<>>, <<k1>>, <<k1, k1>>, <<k1, k1, k2>>}

(* The smallest hive with a key that has a subkey.                         *)
SmallHive == {<<>>, <<k1>>, <<k1, k2>>}

(* A key with a subkey, a key without, and a free name.                    *)
Siblings == {<<>>, <<k1>>, <<k1, k1>>, <<k2>>}

(* Two branches, of which the deeper has a key that stays unexpanded when  *)
(* the branch is renamed into the other's place.                           *)
TwoBranches == {<<>>, <<k1>>, <<k1, k1>>, <<k2>>, <<k2, k1>>, <<k2, k1, k2>>}
=============================================================================
