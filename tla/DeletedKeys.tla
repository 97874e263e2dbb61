---------------------------- MODULE DeletedKeys -----------------------------
(***************************************************************************)
(* Deleting keys with DeleteKeyCommand, in several editors on one          *)
(* registry: each copies a key below the backup key __deleted__ of HKCU    *)
(* before it deletes it.  Editors start, exit and crash at any moment, and *)
(* other processes create keys and write to them.                          *)
(*                                                                         *)
(* Each registry call is a step.  What DeleteKey does to the tree once the *)
(* key is gone is in KeyNodes.tla.                                         *)
(***************************************************************************)
EXTENDS RegistryPaths

CONSTANTS Editor,       \* the processes that run the editor
          Data,         \* what a key can hold: all its values
          InitialKeys,  \* the keys at first: a function from their paths to their data
          Deletable,    \* the full paths the command is given
          NoText,       \* no command
          MaxBackups,   \* bound: the most keys made below __deleted__
          MaxWrites     \* bound: how often another process writes

ASSUME DeletableAssumption == (\A t \in Deletable : IsNodeText(t)) /\ NoText \notin Text
ASSUME InitialKeysAssumption ==
  DOMAIN InitialKeys \subseteq Key /\ InitialKeys \in [DOMAIN InitialKeys -> Data]
ASSUME BoundsAssumption == MaxBackups \in Nat /\ MaxWrites \in Nat

VARIABLES reg,          \* the keys, __deleted__ and what is below it aside
          bin,          \* __deleted__ exists
          backups,      \* the keys below it, oldest first; their names are GUIDs
          editors,      \* the state of each editor
          writes,       \* how often another process has written
          last,         \* the data last written to each key there ever was
          raced         \* the keys written to between their copying and their deletion

vars == <<reg, bin, backups, editors, writes, last, raced>>

IsKeys(f) == DOMAIN f \subseteq Key /\ f \in [DOMAIN f -> Data]

(* A backup key: the copied keys by their paths below the key that was to  *)
(* be deleted.  That key, from, is not kept by the program.                *)
IsBackup(b) == b \in [from : Key, copy : {b.copy}] /\ IsKeys(b.copy)

(* An editor: whether GetDeletedKey() is open on a key that exists, how    *)
(* far it is in DeleteKeyCommand::Execute for which path, and the index of *)
(* its backup key.                                                         *)
EditorState == [pc : {"off", "idle", "copying", "copied"}, handle : BOOLEAN,
                path : Text \union {NoText}, backup : 0 .. MaxBackups]

Off          == [pc |-> "off", handle |-> FALSE, path |-> NoText, backup |-> 0]
Idle(handle) == [pc |-> "idle", handle |-> handle, path |-> NoText, backup |-> 0]

Init ==
  /\ reg = InitialKeys /\ last = InitialKeys
  /\ bin = FALSE /\ backups = <<>>
  /\ editors = [e \in Editor |-> Off]
  /\ writes = 0 /\ raced = {}

-----------------------------------------------------------------------------
Below(p) == {q \in DOMAIN reg : IsPrefix(p, q)}

SubPath(p, q) == SubSeq(q, Len(p) + 1, Len(q))

With(f, k, d) == [x \in DOMAIN f \union {k} |-> IF x = k THEN d ELSE f[x]]

(* The constructor of RegistryManager opens the backup key or makes it;    *)
(* that it could is only asserted.                                         *)
Start(e) ==
  /\ editors[e].pc = "off"
  /\ \E ok \in BOOLEAN : /\ bin' = (bin \/ ok)
                         /\ editors' = [editors EXCEPT ![e] = Idle(ok)]
  /\ UNCHANGED <<reg, backups, writes, last, raced>>

(* Destroy, as the window closes: RegDeleteKey takes __deleted__ only when *)
(* nothing is below it, and kills the handles that are open on it.         *)
Destroy_Tree(e) ==                      \* variant: what is below __deleted__ goes with it
  /\ editors[e].pc = "idle"
  /\ bin' = FALSE /\ backups' = <<>>
  /\ editors' = [x \in Editor |-> IF x = e THEN Off ELSE [editors[x] EXCEPT !.handle = FALSE]]
  /\ UNCHANGED <<reg, writes, last, raced>>

Destroy(e) ==
  /\ editors[e].pc = "idle"
  /\ \/ /\ backups = <<>> /\ bin' = FALSE
        /\ editors' = [x \in Editor |-> IF x = e THEN Off ELSE [editors[x] EXCEPT !.handle = FALSE]]
     \/ /\ UNCHANGED bin
        /\ editors' = [editors EXCEPT ![e] = Off]
  /\ UNCHANGED <<reg, backups, writes, last, raced>>

Crash(e) ==
  /\ editors[e].pc # "off"
  /\ editors' = [editors EXCEPT ![e] = Off]
  /\ UNCHANGED <<reg, bin, backups, writes, last, raced>>

-----------------------------------------------------------------------------
(* DeleteKeyCommand::Execute.                                              *)

(* A key of a new name below __deleted__, when the path has a root and the *)
(* handle is still good.                                                   *)
CreateBackup_AnyHandle(e, t) ==         \* variant: a dead handle will do
  /\ editors[e].pc = "idle" /\ Len(backups) < MaxBackups
  /\ Opened(t) # NoKey
  /\ backups' = Append(backups, [from |-> Opened(t), copy |-> <<>>])
  /\ editors' = [editors EXCEPT ![e].pc = "copying", ![e].path = t, ![e].backup = Len(backups')]
  /\ UNCHANGED <<reg, bin, writes, last, raced>>

CreateBackup(e, t) ==
  /\ editors[e].pc = "idle" /\ editors[e].handle /\ Len(backups) < MaxBackups
  /\ Opened(t) # NoKey
  /\ backups' = Append(backups, [from |-> Opened(t), copy |-> <<>>])
  /\ editors' = [editors EXCEPT ![e].pc = "copying", ![e].path = t, ![e].backup = Len(backups')]
  /\ UNCHANGED <<reg, bin, writes, last, raced>>

(* RegCopyTree copies one key after the other, a key before those below.   *)
CopyKey(e, q) ==
  LET me   == editors[e]
      from == Opened(me.path)
      copy == backups[me.backup].copy
  IN  /\ me.pc = "copying" /\ IsPrefix(from, q)
      /\ SubPath(from, q) \notin DOMAIN copy
      /\ q # from => SubPath(from, Front(q)) \in DOMAIN copy
      /\ backups' = [backups EXCEPT ![me.backup].copy = With(copy, SubPath(from, q), reg[q])]
      /\ UNCHANGED <<reg, bin, editors, writes, last, raced>>

CopyDone_Early(e) ==                    \* variant: the status of RegCopyTree is not looked at
  /\ editors[e].pc = "copying"
  /\ editors' = [editors EXCEPT ![e].pc = "copied"]
  /\ UNCHANGED <<reg, bin, backups, writes, last, raced>>

CopyDone(e) ==
  LET from == Opened(editors[e].path)
  IN  /\ editors[e].pc = "copying"
      /\ from \in DOMAIN reg
      /\ {SubPath(from, q) : q \in Below(from)} \subseteq DOMAIN backups[editors[e].backup].copy
      /\ editors' = [editors EXCEPT ![e].pc = "copied"]
      /\ UNCHANGED <<reg, bin, backups, writes, last, raced>>

(* RegistryManager::DeleteKey opens the parent and deletes the name, if no *)
(* key is below it.                                                        *)
Done(e) == editors' = [editors EXCEPT ![e] = Idle(editors[e].handle)]

DeleteKey_Tree(e) ==                    \* variant: the keys below go too
  LET split == ParentAndName(editors[e].path)
      key   == Append(Opened(split.parent), split.name)
  IN  /\ editors[e].pc = "copied"
      /\ Opened(split.parent) # NoKey
      /\ key \in DOMAIN reg
      /\ reg' = [q \in DOMAIN reg \ Below(key) |-> reg[q]]
      /\ Done(e)
      /\ UNCHANGED <<bin, backups, writes, last, raced>>

DeleteKey(e) ==
  LET split == ParentAndName(editors[e].path)
      key   == Append(Opened(split.parent), split.name)
  IN  /\ editors[e].pc = "copied"
      /\ Opened(split.parent) # NoKey
      /\ key \in DOMAIN reg /\ Below(key) = {key}
      /\ reg' = [q \in DOMAIN reg \ {key} |-> reg[q]]
      /\ Done(e)
      /\ UNCHANGED <<bin, backups, writes, last, raced>>

(* Any call may be refused; the command is dropped, its backup key stays.  *)
Fail(e) ==
  /\ editors[e].pc \in {"copying", "copied"}
  /\ Done(e)
  /\ UNCHANGED <<reg, bin, backups, writes, last, raced>>

-----------------------------------------------------------------------------
(* Another process, or the editor's user with another command, creates a   *)
(* key or writes to one.                                                   *)

Deleting(k) == {e \in Editor : editors[e].pc \in {"copying", "copied"}
                               /\ Opened(editors[e].path) = k}

Write(k, d) ==
  /\ writes < MaxWrites /\ writes' = writes + 1
  /\ Front(k) \in DOMAIN reg
  /\ reg' = With(reg, k, d) /\ last' = With(last, k, d)
  /\ raced' = IF Deleting(k) = {} THEN raced ELSE raced \union {k}
  /\ UNCHANGED <<bin, backups, editors>>

Next == \/ \E e \in Editor : \/ Start(e)
                             \/ Destroy(e)
                             \/ Crash(e)
                             \/ \E t \in Deletable : CreateBackup(e, t)
                             \/ \E q \in DOMAIN reg : CopyKey(e, q)
                             \/ CopyDone(e)
                             \/ DeleteKey(e)
                             \/ Fail(e)
        \/ \E k \in DOMAIN InitialKeys \ {<<>>}, d \in Data : Write(k, d)

Spec == Init /\ [][Next]_vars

-----------------------------------------------------------------------------
(* Every variable keeps its type; a good handle has its __deleted__, a     *)
(* backup key too, and a command in progress its backup key.               *)
TypeOK ==
  /\ IsKeys(reg) /\ IsKeys(last)
  /\ bin \in BOOLEAN /\ raced \subseteq Key /\ writes \in Nat
  /\ editors \in [Editor -> EditorState]
  /\ backups \in Seq(Range(backups)) /\ Len(backups) <= MaxBackups
  /\ \A i \in DOMAIN backups : IsBackup(backups[i])
  /\ backups # <<>> => bin
  /\ \A e \in Editor :
       /\ editors[e].handle => bin
       /\ editors[e].pc \in {"copying", "copied"} => editors[e].backup \in DOMAIN backups

Kept(k, d) ==
  \/ k \in DOMAIN reg /\ reg[k] = d
  \/ \E i \in DOMAIN backups :
       LET b == backups[i]
       IN  \E p \in DOMAIN b.copy : b.from \o p = k /\ b.copy[p] = d

(* Whatever fails, exits or crashes, and however many editors delete the   *)
(* same key by whatever path: the data last written to a key is in the     *)
(* registry or in a backup, unless it was written to between the copying   *)
(* and the deletion of that very key (DeleteKeyCommand::Execute).          *)
NothingIsLost == \A k \in DOMAIN last : k \in raced \/ Kept(k, last[k])

(* No exit of an editor takes a backup that it or another editor made      *)
(* (RegistryManager::Destroy), and nothing that was copied changes.        *)
BackupsSurvive ==
  [][\A i \in DOMAIN backups : i \in DOMAIN backups' /\ backups'[i].from = backups[i].from
       /\ \A p \in DOMAIN backups[i].copy :
            p \in DOMAIN backups'[i].copy /\ backups'[i].copy[p] = backups[i].copy[p]]_vars

(* Execute deletes one key, the one it was given: what DeleteKey finds     *)
(* again from the parent's path and the name is the key whose copy was     *)
(* taken, and the copy holds what is deleted, unless another process wrote *)
(* to that key after it was copied (raced): then the data it wrote goes.   *)
DeletesWhatItCopied ==
  [][\A k \in DOMAIN reg \ DOMAIN reg' :
       \E e \in Editor :
         LET b == backups[editors[e].backup]
         IN  /\ editors[e].pc = "copied" /\ Opened(editors[e].path) = k
             /\ b.from = k /\ <<>> \in DOMAIN b.copy
             /\ k \in raced \/ b.copy[<<>>] = reg[k]]_vars
=============================================================================
