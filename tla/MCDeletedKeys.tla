--------------------------- MODULE MCDeletedKeys ----------------------------
(***************************************************************************)
(* An instance of DeletedKeys for TLC: HKCU with a key and one below it,   *)
(* and HKCC, whose node has another text than the table of GetHiveNode.    *)
(***************************************************************************)
EXTENDS DeletedKeys, TLC

CONSTANTS user, config, upper, lower, HKCU, HKCC,
          HKEY_CURRENT_USER, HKEY_CURRENT_CONFIG, HKEY_CURENT_CONFIG, d1, d2, e1, e2

Names   == {user, config, upper, lower}
Hives   == {HKCU, HKCC}
Texts   == HKCU :> HKEY_CURRENT_USER @@ HKCC :> HKEY_CURENT_CONFIG
Table   == HKCU :> HKEY_CURRENT_USER @@ HKCC :> HKEY_CURRENT_CONFIG
Keys    == HKCU :> <<user>> @@ HKCC :> <<config>> @@ RegistryRoot :> <<>>
AllData == {d1, d2}
Editors == {e1, e2}

FirstKeys == <<>> :> d1 @@ <<user>> :> d1 @@ <<user, upper>> :> d1 @@ <<user, upper, lower>> :> d2
               @@ <<config>> :> d1 @@ <<config, upper>> :> d1

(* The paths of a key, of the one below it, of the same key below          *)
(* \REGISTRY, of a hive, and of a key of HKCC.                             *)
SomeTexts == {StandardText(HKCU, <<upper>>), StandardText(HKCU, <<upper, lower>>),
              RegistryText(<<user, upper, lower>>), StandardText(HKCU, <<>>),
              StandardText(HKCC, <<upper>>)}

EditorSymmetry == Permutations(Editors)
=============================================================================
