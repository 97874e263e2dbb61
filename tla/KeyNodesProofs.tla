--------------------------- MODULE KeyNodesProofs ---------------------------
(***************************************************************************)
(* Lemmas about KeyNodes.tla: paths and prefixes, and what each function   *)
(* that changes the tree does to its type, to the paths it is defined on   *)
(* and to the nodes the selection and the list view point to; and, for     *)
(* trees whose nodes stand where their keys are, what it does to that and  *)
(* to the children a node lists.                                           *)
(***************************************************************************)
EXTENDS KeyNodes, SequenceTheorems, TLAPS
-----------------------------------------------------------------------------
(* Paths.                                                                  *)

(* A path and the path of one of its children.                             *)
LEMMA ChildPath ==
  ASSUME NEW p \in Path, NEW x \in Name
  PROVE  /\ Append(p, x) \in Path
         /\ Append(p, x) # <<>>
         /\ Front(Append(p, x)) = p
         /\ Last(Append(p, x)) = x
  BY AppendProperties DEF Path, Front, Last

(* A path below the hive is a child of its parent.                         *)
LEMMA ParentPath ==
  ASSUME NEW p \in Path, p # <<>>
  PROVE  Front(p) \in Path /\ Last(p) \in Name /\ p = Append(Front(p), Last(p))
<1>1. PICK s \in Path, x \in Name : p = Append(s, x)
  BY SequenceEmptyOrAppend DEF Path
<1> QED
  BY <1>1, ChildPath

(* Front and Append stay within Path.                                      *)
LEMMA FrontPath ==
  ASSUME NEW p \in Path
  PROVE  Front(p) \in Path
<1>1. CASE p = <<>>
  BY <1>1 DEF Front, Path
<1> QED
  BY <1>1, ParentPath

(* A prefix, element by element.                                           *)
LEMMA PrefixByElement ==
  ASSUME NEW p \in Path, NEW q \in Path
  PROVE  IsPrefix(p, q) <=> Len(p) <= Len(q) /\ \A i \in 1 .. Len(p) : p[i] = q[i]
<1>1. /\ Len(p) \in Nat /\ Len(q) \in Nat
      /\ \A i \in 1 .. Len(p) : p[i] \in Name
      /\ \A i \in 1 .. Len(q) : q[i] \in Name
  BY LenProperties, ElementOfSeq DEF Path
<1>2. CASE Len(p) <= Len(q)
  <2>1. SubSeq(p, 1, Len(p)) = p
    BY SubSeqFull DEF Path
  <2>2. \A i \in 1 .. Len(p) : q[i] \in Name /\ 1 + i - 1 = i
    BY <1>1, <1>2
  <2>3. \A n \in Nat : n - 1 + 1 = n /\ (IF 1 <= n THEN n - 1 + 1 ELSE 0) = n
    OBVIOUS
  <2>4. /\ SubSeq(q, 1, Len(p)) \in Seq(Name)
        /\ Len(SubSeq(q, 1, Len(p))) = Len(p)
        /\ \A i \in 1 .. Len(p) : SubSeq(q, 1, Len(p))[i] = q[i]
    BY <1>1, <2>2, <2>3, SubSeqProperties
  <2>5. (\A i \in 1 .. Len(p) : p[i] = q[i]) => p = SubSeq(q, 1, Len(p))
    BY <2>4, SeqEqual DEF Path
  <2> QED
    BY <1>2, <2>1, <2>4, <2>5 DEF IsPrefix
<1>3. CASE ~(Len(p) <= Len(q))
  BY <1>3 DEF IsPrefix
<1> QED
  BY <1>2, <1>3

LEMMA PrefixReflexive ==
  ASSUME NEW p \in Path
  PROVE  IsPrefix(p, p) /\ IsPrefix(<<>>, p) /\ <<>> \in Path
<1>1. Len(p) \in Nat /\ <<>> \in Path /\ Len(<<>>) = 0
  BY LenProperties, EmptySeq DEF Path
<1>2. IsPrefix(p, p)
  BY <1>1, PrefixByElement
<1>3. IsPrefix(<<>>, p)
  <2>1. Len(<<>>) <= Len(p) /\ \A i \in 1 .. Len(<<>>) : <<>>[i] = p[i]
    BY <1>1
  <2> QED
    BY <1>1, <2>1, PrefixByElement
<1> QED
  BY <1>1, <1>2, <1>3

LEMMA PrefixTransitive ==
  ASSUME NEW p \in Path, NEW q \in Path, NEW s \in Path, IsPrefix(p, q), IsPrefix(q, s)
  PROVE  IsPrefix(p, s)
<1>1. Len(p) \in Nat /\ Len(q) \in Nat /\ Len(s) \in Nat
  BY LenProperties DEF Path
<1> QED
  BY <1>1, PrefixByElement

(* Two prefixes of one path are comparable.                                *)
LEMMA PrefixesCompare ==
  ASSUME NEW p \in Path, NEW q \in Path, NEW s \in Path, IsPrefix(p, s), IsPrefix(q, s)
  PROVE  IsPrefix(p, q) \/ IsPrefix(q, p)
<1>1. Len(p) \in Nat /\ Len(q) \in Nat /\ Len(s) \in Nat
  BY LenProperties DEF Path
<1> QED
  BY <1>1, PrefixByElement

(* What is above a child is above its parent, or the child itself.         *)
LEMMA PrefixOfChild ==
  ASSUME NEW p \in Path, NEW q \in Path, NEW x \in Name
  PROVE  /\ IsPrefix(p, Append(q, x)) <=> IsPrefix(p, q) \/ p = Append(q, x)
         /\ ~IsPrefix(Append(q, x), q)
<1> DEFINE c == Append(q, x)
<1>1. /\ Len(p) \in Nat /\ Len(q) \in Nat /\ c \in Path /\ Len(c) = Len(q) + 1
      /\ \A i \in 1 .. Len(q) : c[i] = q[i]
  BY LenProperties, AppendProperties DEF Path
<1> HIDE DEF c
<1>2. ASSUME IsPrefix(p, c), Len(p) <= Len(q) PROVE IsPrefix(p, q)
  BY <1>1, <1>2, PrefixByElement
<1>3. ASSUME IsPrefix(p, c), ~(Len(p) <= Len(q)) PROVE p = c
  BY <1>1, <1>3, PrefixByElement, SeqEqual DEF Path
<1>4. ASSUME IsPrefix(p, q) PROVE IsPrefix(p, c)
  BY <1>1, <1>4, PrefixByElement
<1>5. ~IsPrefix(c, q)
  BY <1>1, PrefixByElement
<1> QED
  BY <1>1, <1>2, <1>3, <1>4, <1>5, PrefixReflexive DEF c

(* A prefix and the rest of the path.                                      *)
LEMMA PrefixSplit ==
  ASSUME NEW p \in Path, NEW q \in Path, IsPrefix(p, q)
  PROVE  LET rest == SubSeq(q, Len(p) + 1, Len(q)) IN rest \in Path /\ q = p \o rest
<1> DEFINE rest == SubSeq(q, Len(p) + 1, Len(q))
<1>1. /\ Len(p) \in Nat /\ Len(q) \in Nat /\ Len(p) <= Len(q)
      /\ \A i \in 1 .. Len(p) : p[i] = q[i]
      /\ \A i \in 1 .. Len(q) : q[i] \in Name
  BY LenProperties, ElementOfSeq, PrefixByElement DEF Path
<1>2. \A i \in Len(p) + 1 .. Len(q) : q[i] \in Name
  BY <1>1
<1>3. /\ rest \in Seq(Name)
      /\ Len(rest) = IF Len(p) + 1 <= Len(q) THEN Len(q) - (Len(p) + 1) + 1 ELSE 0
      /\ \A i \in 1 .. Len(q) - (Len(p) + 1) + 1 : rest[i] = q[Len(p) + 1 + i - 1]
  BY <1>1, <1>2, SubSeqProperties
<1> HIDE DEF rest
<1>4. /\ Len(rest) = Len(q) - Len(p)
      /\ \A i \in 1 .. Len(q) - Len(p) : rest[i] = q[Len(p) + i]
  BY <1>1, <1>3
<1>5. /\ p \o rest \in Seq(Name)
      /\ Len(p \o rest) = Len(q)
      /\ \A i \in 1 .. Len(q) : (p \o rest)[i] = IF i <= Len(p) THEN p[i] ELSE rest[i - Len(p)]
  BY <1>1, <1>3, <1>4, ConcatProperties DEF Path
<1>6. ASSUME NEW i \in 1 .. Len(q) PROVE (p \o rest)[i] = q[i]
  <2>1. CASE i <= Len(p)
    <3>1. i \in 1 .. Len(p)
      BY <1>1, <2>1
    <3> QED
      BY <1>1, <1>5, <2>1, <3>1
  <2>2. CASE ~(i <= Len(p))
    <3>1. i - Len(p) \in 1 .. Len(q) - Len(p) /\ Len(p) + (i - Len(p)) = i
      BY <1>1, <2>2
    <3> QED
      BY <1>4, <1>5, <2>2, <3>1
  <2> QED
    BY <2>1, <2>2
<1>7. q = p \o rest
  BY <1>5, <1>6, SeqEqual DEF Path
<1> QED
  BY <1>3, <1>7 DEF rest, Path

LEMMA PrefixOfConcat ==
  ASSUME NEW p \in Path, NEW s \in Path
  PROVE  /\ p \o s \in Path
         /\ IsPrefix(p, p \o s)
         /\ SubSeq(p \o s, Len(p) + 1, Len(p \o s)) = s
<1>1. /\ p \o s \in Path /\ Len(p \o s) = Len(p) + Len(s)
      /\ Len(p) \in Nat /\ Len(s) \in Nat
      /\ \A i \in 1 .. Len(p) + Len(s) :
            (p \o s)[i] = IF i <= Len(p) THEN p[i] ELSE s[i - Len(p)]
  BY ConcatProperties, LenProperties DEF Path
<1>2. IsPrefix(p, p \o s)
  <2> DEFINE q == p \o s
  <2>1. q \in Path /\ Len(p) <= Len(q) /\ \A i \in 1 .. Len(p) : p[i] = q[i]
    BY <1>1
  <2> HIDE DEF q
  <2>2. IsPrefix(p, q)
    BY <2>1, PrefixByElement
  <2> QED
    BY <2>2 DEF q
<1>3. p \o SubSeq(p \o s, Len(p) + 1, Len(p \o s)) = p \o s
      /\ SubSeq(p \o s, Len(p) + 1, Len(p \o s)) \in Path
  BY <1>1, <1>2, PrefixSplit
<1> QED
  BY <1>1, <1>2, <1>3, ConcatSimplifications DEF Path

(* The path s below the path p, as an operator the provers leave alone.    *)
Below(p, s) == p \o s

LEMMA BelowFacts ==
  ASSUME NEW p \in Path, NEW s \in Path
  PROVE  /\ Below(p, s) \in Path
         /\ IsPrefix(p, Below(p, s))
         /\ Below(p, <<>>) = p
         /\ \A n \in Name : Append(Below(p, s), n) = Below(p, Append(s, n))
<1>1. p \o <<>> = p
  BY ConcatEmptySeq DEF Path
<1>2. ASSUME NEW n \in Name PROVE Append(p \o s, n) = p \o Append(s, n)
  <2>1. <<n>> \in Seq(Name) /\ p \in Seq(Name) /\ s \in Seq(Name) /\ p \o s \in Seq(Name)
    BY PrefixOfConcat DEF Path
  <2>2. Append(p \o s, n) = (p \o s) \o <<n>> /\ Append(s, n) = s \o <<n>>
    BY <2>1, AppendIsConcat
  <2>3. (p \o s) \o <<n>> = p \o (s \o <<n>>)
    BY <2>1, ConcatAssociative
  <2> QED
    BY <2>2, <2>3
<1> QED
  BY <1>1, <1>2, PrefixOfConcat DEF Below

LEMMA PrefixBelow ==
  ASSUME NEW p \in Path, NEW q \in Path, IsPrefix(p, q)
  PROVE  \E s \in Path : q = Below(p, s)
  BY PrefixSplit DEF Below

LEMMA BelowElements ==
  ASSUME NEW p \in Path, NEW s \in Path
  PROVE  /\ Below(p, s) \in Path /\ Len(p) \in Nat /\ Len(s) \in Nat
         /\ Len(Below(p, s)) = Len(p) + Len(s)
         /\ \A i \in 1 .. Len(p) : Below(p, s)[i] = p[i]
         /\ \A i \in 1 .. Len(s) : Below(p, s)[Len(p) + i] = s[i]
<1>1. /\ p \o s \in Path /\ Len(p) \in Nat /\ Len(s) \in Nat
      /\ Len(p \o s) = Len(p) + Len(s)
      /\ \A i \in 1 .. Len(p) + Len(s) :
            (p \o s)[i] = IF i <= Len(p) THEN p[i] ELSE s[i - Len(p)]
  BY ConcatProperties, LenProperties DEF Path
<1>2. \A m, n \in Nat : /\ \A i \in 1 .. m : i \in 1 .. m + n /\ i <= m
                       /\ \A i \in 1 .. n : /\ m + i \in 1 .. m + n
                                            /\ ~(m + i <= m) /\ m + i - m = i
  OBVIOUS
<1> DEFINE c == p \o s
<1>3. /\ \A i \in 1 .. Len(p) : c[i] = p[i]
      /\ \A i \in 1 .. Len(s) : c[Len(p) + i] = s[i]
  <2>1. \A i \in 1 .. Len(p) + Len(s) : c[i] = IF i <= Len(p) THEN p[i] ELSE s[i - Len(p)]
    BY <1>1
  <2> HIDE DEF c
  <2> QED
    BY <1>1, <1>2, <2>1
<1> QED
  BY <1>1, <1>3 DEF Below

(* A common beginning does not matter to a prefix.                         *)
LEMMA BelowPrefix ==
  ASSUME NEW p \in Path, NEW s1 \in Path, NEW s2 \in Path
  PROVE  IsPrefix(Below(p, s1), Below(p, s2)) <=> IsPrefix(s1, s2)
<1> DEFINE b1 == Below(p, s1)
           b2 == Below(p, s2)
<1>1. /\ b1 \in Path /\ Len(p) \in Nat /\ Len(s1) \in Nat /\ Len(b1) = Len(p) + Len(s1)
      /\ \A i \in 1 .. Len(p) : b1[i] = p[i]
      /\ \A i \in 1 .. Len(s1) : b1[Len(p) + i] = s1[i]
  BY BelowElements
<1>2. /\ b2 \in Path /\ Len(s2) \in Nat /\ Len(b2) = Len(p) + Len(s2)
      /\ \A i \in 1 .. Len(p) : b2[i] = p[i]
      /\ \A i \in 1 .. Len(s2) : b2[Len(p) + i] = s2[i]
  BY BelowElements
<1> HIDE DEF b1, b2
<1>3. ASSUME IsPrefix(b1, b2) PROVE IsPrefix(s1, s2)
  <2>1. Len(b1) <= Len(b2) /\ \A i \in 1 .. Len(b1) : b1[i] = b2[i]
    BY <1>1, <1>2, <1>3, PrefixByElement
  <2>2. Len(s1) <= Len(s2)
    BY <1>1, <1>2, <2>1
  <2>3. ASSUME NEW i \in 1 .. Len(s1) PROVE s1[i] = s2[i]
    <3>1. Len(p) + i \in 1 .. Len(b1) /\ i \in 1 .. Len(s2)
      BY <1>1, <1>2, <2>2
    <3> QED
      BY <1>1, <1>2, <2>1, <3>1
  <2> QED
    BY <2>2, <2>3, PrefixByElement
<1>4. ASSUME IsPrefix(s1, s2) PROVE IsPrefix(b1, b2)
  <2>1. Len(s1) <= Len(s2) /\ \A i \in 1 .. Len(s1) : s1[i] = s2[i]
    BY <1>4, PrefixByElement
  <2>2. Len(b1) <= Len(b2)
    BY <1>1, <1>2, <2>1
  <2>3. ASSUME NEW i \in 1 .. Len(b1) PROVE b1[i] = b2[i]
    <3>1. CASE i <= Len(p)
      <4>1. i \in 1 .. Len(p)
        BY <1>1, <3>1
      <4> QED
        BY <1>1, <1>2, <4>1
    <3>2. CASE ~(i <= Len(p))
      <4>1. PICK j \in 1 .. Len(s1) : i = Len(p) + j
        <5>1. i - Len(p) \in 1 .. Len(s1) /\ i = Len(p) + (i - Len(p))
          BY <1>1, <3>2
        <5> QED
          BY <5>1
      <4>2. j \in 1 .. Len(s2) /\ s1[j] = s2[j]
        BY <1>1, <1>2, <2>1
      <4> QED
        BY <1>1, <1>2, <4>1, <4>2
    <3> QED
      BY <3>1, <3>2
  <2> QED
    BY <1>1, <1>2, <2>2, <2>3, PrefixByElement
<1> QED
  BY <1>3, <1>4 DEF b1, b2

-----------------------------------------------------------------------------
(* Rebase.                                                                 *)

LEMMA RebaseBelow ==
  ASSUME NEW p \in Path, NEW q \in Path, NEW s \in Path
  PROVE  Rebase(p, q, Below(p, s)) = Below(q, s)
  BY PrefixOfConcat DEF Rebase, Below

LEMMA RebaseElsewhere ==
  ASSUME NEW p \in Path, NEW q \in Path, NEW x \in Path, ~IsPrefix(p, x)
  PROVE  Rebase(p, q, x) = x
  BY DEF Rebase

LEMMA RebaseType ==
  ASSUME NEW p \in Path, NEW q \in Path, NEW x \in Path
  PROVE  Rebase(p, q, x) \in Path
<1>1. CASE IsPrefix(p, x)
  <2>1. PICK s \in Path : x = Below(p, s)
    BY <1>1, PrefixBelow
  <2>2. Rebase(p, q, x) = Below(q, s)
    BY <2>1, RebaseBelow
  <2> QED
    BY <2>2, BelowFacts
<1> QED
  BY <1>1, RebaseElsewhere

(* Rebase takes a child to a child, the key itself excepted.               *)
LEMMA RebaseChild ==
  ASSUME NEW p \in Path, NEW q \in Path, NEW x \in Path, NEW n \in Name
  PROVE  /\ Append(x, n) # p => Rebase(p, q, Append(x, n)) = Append(Rebase(p, q, x), n)
         /\ Rebase(p, q, p) = q
<1>1. Rebase(p, q, p) = q
  BY PrefixReflexive, BelowFacts, RebaseBelow
<1>2. ASSUME Append(x, n) # p, IsPrefix(p, x)
      PROVE  Rebase(p, q, Append(x, n)) = Append(Rebase(p, q, x), n)
  <2>1. PICK s \in Path : x = Below(p, s)
    BY <1>2, PrefixBelow
  <2>2. Append(x, n) = Below(p, Append(s, n)) /\ Append(s, n) \in Path
    BY <2>1, BelowFacts, ChildPath
  <2>3. Rebase(p, q, Append(x, n)) = Below(q, Append(s, n))
    BY <2>2, RebaseBelow
  <2>4. Append(Rebase(p, q, x), n) = Below(q, Append(s, n))
    <3>1. Rebase(p, q, x) = Below(q, s)
      BY <2>1, RebaseBelow
    <3> QED
      BY <3>1, BelowFacts
  <2> QED
    BY <2>3, <2>4
<1>3. ASSUME Append(x, n) # p, ~IsPrefix(p, x)
      PROVE  Rebase(p, q, Append(x, n)) = Append(Rebase(p, q, x), n)
  <2>1. ~IsPrefix(p, Append(x, n)) /\ Append(x, n) \in Path
    BY <1>3, PrefixOfChild, ChildPath
  <2> QED
    BY <1>3, <2>1, RebaseElsewhere
<1> QED
  BY <1>1, <1>2, <1>3

(* Moving back undoes a move, for a path that was not below the new place. *)
LEMMA RebaseBack ==
  ASSUME NEW p \in Path, NEW q \in Path, NEW x \in Path, ~IsPrefix(q, x)
  PROVE  Rebase(q, p, Rebase(p, q, x)) = x
<1>1. CASE IsPrefix(p, x)
  BY <1>1, PrefixBelow, RebaseBelow
<1>2. CASE ~IsPrefix(p, x)
  BY <1>2, RebaseElsewhere
<1> QED
  BY <1>1, <1>2

-----------------------------------------------------------------------------
(* Trees.                                                                  *)

(* A node's ancestors are in the tree.                                     *)
Closed(t) == \A p \in DOMAIN t, q \in Path : IsPrefix(q, p) => q \in DOMAIN t

(* A UI record all of whose pointers are good while the program runs; the  *)
(* shown node is freed only while no node is selected.                     *)
Sound(u) ==
  /\ IsUI(u)
  /\ u.status = "dangling" => u.sel = NoNode
  /\ u.status = "running" =>
       /\ Closed(u.tree)
       /\ u.cur \in DOMAIN u.tree
       /\ u.sel \in {NoNode, u.cur}

(* The key rows of the view are children of the node it shows.             *)
RowsLive(u) == u.status = "running" => u.rows \subseteq KidPaths(u.tree, u.cur)

LEMMA NodeFields ==
  ASSUME NEW t, IsTree(t), NEW p \in DOMAIN t
  PROVE  /\ p \in Path /\ t[p] \in Node
         /\ t[p].at \in Path \union {Gone} /\ t[p].full \in Path
  BY DEF IsTree, Node

LEMMA KidFacts ==
  ASSUME NEW t, IsTree(t), NEW p \in Path, NEW q \in KidPaths(t, p)
  PROVE  /\ q \in DOMAIN t /\ q \in Path /\ q # <<>> /\ Front(q) = p
         /\ \E x \in Name : q = Append(p, x)
  BY ChildPath DEF KidPaths, Kids, IsTree

LEMMA KidsGrow ==
  ASSUME NEW t, NEW v, NEW p, DOMAIN t \subseteq DOMAIN v
  PROVE  KidPaths(t, p) \subseteq KidPaths(v, p)
  BY DEF KidPaths, Kids

(* A closed tree with a node has its hive and every node's parent.         *)
LEMMA ParentInTree ==
  ASSUME NEW t, IsTree(t), Closed(t), NEW p \in DOMAIN t
  PROVE  /\ <<>> \in DOMAIN t
         /\ p # <<>> => Front(p) \in DOMAIN t /\ p \in KidPaths(t, Front(p))
<1>1. p \in Path
  BY DEF IsTree
<1>2. <<>> \in DOMAIN t
  BY <1>1, PrefixReflexive DEF Closed
<1>3. ASSUME p # <<>> PROVE Front(p) \in DOMAIN t /\ p \in KidPaths(t, Front(p))
  <2>1. Front(p) \in Path /\ Last(p) \in Name /\ p = Append(Front(p), Last(p))
    BY <1>1, <1>3, ParentPath
  <2>2. IsPrefix(Front(p), Append(Front(p), Last(p)))
    BY <2>1, PrefixOfChild, PrefixReflexive
  <2> QED
    BY <2>1, <2>2 DEF Closed, KidPaths, Kids
<1> QED
  BY <1>2, <1>3

(* Children may be added to any node.                                      *)
LEMMA ClosedWithKids ==
  ASSUME NEW t, IsTree(t), Closed(t), NEW p \in DOMAIN t, NEW names \in SUBSET Name,
         NEW v, DOMAIN v = DOMAIN t \union {Append(p, x) : x \in names}
  PROVE  Closed(v)
<1>1. SUFFICES ASSUME NEW x \in DOMAIN v, NEW q \in Path, IsPrefix(q, x)
               PROVE  q \in DOMAIN v
  BY DEF Closed
<1>2. CASE x \in DOMAIN t
  BY <1>1, <1>2 DEF Closed
<1>3. CASE x \notin DOMAIN t
  <2>1. PICK n \in names : x = Append(p, n)
    BY <1>3
  <2>2. p \in Path /\ (IsPrefix(q, p) \/ q = x)
    BY <1>1, <2>1, PrefixOfChild DEF IsTree
  <2> QED
    BY <2>2 DEF Closed
<1> QED
  BY <1>2, <1>3

LEMMA BareNodeType ==
  ASSUME NEW at \in Path, NEW full \in Path
  PROVE  BareNode(at, full) \in Node
  BY DEF BareNode, Node

LEMMA AddItemType ==
  ASSUME NEW r, NEW n \in Node
  PROVE  AddItem(r, n) \in Node /\ AddItem(r, n).item = TRUE
<1>1. ASSUME NEW m \in {"none", "closed"}
      PROVE  [n EXCEPT !.item = TRUE, !.mark = m] \in Node
             /\ [n EXCEPT !.item = TRUE, !.mark = m].item = TRUE
  BY DEF Node
<1> QED
  BY <1>1 DEF AddItem

LEMMA AddChildrenTree ==
  ASSUME NEW t, IsTree(t), Closed(t), NEW p \in DOMAIN t, NEW names \in SUBSET Name,
         names = {} \/ t[p].at # Gone
  PROVE  /\ IsTree(AddChildren(t, p, names))
         /\ Closed(AddChildren(t, p, names))
         /\ DOMAIN t \subseteq DOMAIN AddChildren(t, p, names)
<1> DEFINE v == AddChildren(t, p, names)
           node(q) == IF q \in DOMAIN t THEN t[q]
                      ELSE BareNode(Append(t[p].at, Last(q)), Append(t[p].full, Last(q)))
<1>1. DOMAIN v = DOMAIN t \union {Append(p, x) : x \in names}
  BY DEF AddChildren
<1>2. DOMAIN v \subseteq Path
  BY <1>1, ChildPath DEF IsTree
<1>3. ASSUME NEW q \in DOMAIN v PROVE node(q) \in Node
  <2>1. CASE q \in DOMAIN t
    BY <2>1, NodeFields
  <2>2. CASE q \notin DOMAIN t
    <3>1. PICK x \in names : q = Append(p, x)
      BY <1>1, <1>3, <2>2
    <3>2. Last(q) = x /\ x \in Name
      BY <3>1, ChildPath, NodeFields
    <3>3. t[p].at \in Path /\ t[p].full \in Path
      BY <3>1, NodeFields
    <3>4. node(q) = BareNode(Append(t[p].at, x), Append(t[p].full, x))
      BY <2>2, <3>2
    <3> HIDE DEF node
    <3> QED
      BY <3>2, <3>3, <3>4, ChildPath, BareNodeType
  <2> QED
    BY <2>1, <2>2
<1>4. v = [q \in DOMAIN v |-> node(q)]
  BY DEF AddChildren
<1>5. IsTree(v)
  <2> HIDE DEF v, node
  <2>1. v \in [DOMAIN v -> Node]
    BY <1>3, <1>4
  <2> QED
    BY <1>2, <2>1 DEF IsTree
<1>6. Closed(v)
  <2> HIDE DEF v
  <2> QED
    BY <1>1, ClosedWithKids
<1> QED
  BY <1>1, <1>5, <1>6

(* RegKeyTreeNode::Expand adds children to the node and nothing else.      *)
LEMMA ExpandTree ==
  ASSUME NEW r, NEW t, IsTree(t), Closed(t), NEW p \in DOMAIN t
  PROVE  /\ IsTree(Expand(r, t, p))
         /\ Closed(Expand(r, t, p))
         /\ DOMAIN t \subseteq DOMAIN Expand(r, t, p)
<1> DEFINE listed == IF t[p].at = Gone THEN {} ELSE SubKeys(r, t[p].at) \ {DeletedKey}
           v == AddChildren(t, p, listed)
           w == [v EXCEPT ![p].expanded = TRUE]
<1>1. listed \in SUBSET Name /\ (listed = {} \/ t[p].at # Gone)
  BY DEF SubKeys
<1>2. IsTree(v) /\ Closed(v) /\ DOMAIN t \subseteq DOMAIN v
  <2> SUFFICES ASSUME NEW names \in SUBSET Name, names = {} \/ t[p].at # Gone
               PROVE  /\ IsTree(AddChildren(t, p, names)) /\ Closed(AddChildren(t, p, names))
                      /\ DOMAIN t \subseteq DOMAIN AddChildren(t, p, names)
    BY <1>1
  <2> QED
    BY AddChildrenTree
<1>3. IsTree(w) /\ DOMAIN w = DOMAIN v
  <2> HIDE DEF v
  <2>1. DOMAIN w = DOMAIN v /\ DOMAIN v \in SUBSET Path /\ \A y \in DOMAIN v : v[y] \in Node
    BY <1>2 DEF IsTree
  <2>2. p \in DOMAIN v
    BY <1>2
  <2>3. [v[p] EXCEPT !.expanded = TRUE] \in Node
    BY <2>1, <2>2 DEF Node
  <2>4. \A y \in DOMAIN v : w[y] = IF y = p THEN [v[p] EXCEPT !.expanded = TRUE] ELSE v[y]
    BY <2>2
  <2>5. w = [y \in DOMAIN w |-> w[y]]
    OBVIOUS
  <2> HIDE DEF w
  <2>6. \A y \in DOMAIN w : w[y] \in Node
    BY <2>1, <2>3, <2>4
  <2> QED
    BY <2>1, <2>5, <2>6 DEF IsTree
<1>4. Closed(w)
  BY <1>2, <1>3 DEF Closed
<1>5. Expand(r, t, p) = IF Kids(t, p) # {} THEN t ELSE w
  BY DEF Expand
<1> HIDE DEF w, v
<1> QED
  BY <1>2, <1>3, <1>4, <1>5

-----------------------------------------------------------------------------
(* What the functions do to a UI record.                                   *)

LEMMA UIFields ==
  ASSUME NEW u, IsUI(u)
  PROVE  /\ IsTree(u.tree) /\ u.sel \in Path \union {NoNode} /\ u.under \in Path /\ u.cur \in Path
         /\ u.rows \subseteq Path /\ u.status \in Status
  BY DEF IsUI

LEMMA NewTree ==
  ASSUME NEW u, IsUI(u), NEW t, IsTree(t)
  PROVE  LET v == [u EXCEPT !.tree = t]
         IN  /\ IsUI(v) /\ v.tree = t /\ v.sel = u.sel /\ v.cur = u.cur
             /\ v.rows = u.rows /\ v.status = u.status /\ v.under = u.under
  BY DEF IsUI

(* A program that stopped keeps its types.                                 *)
LEMMA StopSound ==
  ASSUME NEW u, IsUI(u), NEW why \in Status \ {"running", "dangling"}
  PROVE  Sound(Stop(u, why)) /\ RowsLive(Stop(u, why)) /\ Stop(u, why).status = why
<1> DEFINE v == Stop(u, why)
<1>1. IsUI(v) /\ v.status = why
  BY DEF Stop, IsUI
<1> HIDE DEF v
<1>2. v.status # "running" /\ v.status # "dangling"
  BY <1>1
<1> QED
  BY <1>1, <1>2 DEF Sound, RowsLive, v

(* So does one whose view shows a freed node.                              *)
LEMMA DanglingSound ==
  ASSUME NEW u, IsUI(u), u.sel = NoNode
  PROVE  Sound(Stop(u, "dangling")) /\ Stop(u, "dangling").status = "dangling"
<1>1. PICK v : v = Stop(u, "dangling")
  OBVIOUS
<1>2. IsUI(v) /\ v.status = "dangling" /\ v.sel = NoNode
  BY <1>1 DEF Stop, IsUI, Status
<1> QED
  BY <1>1, <1>2 DEF Sound

(* UpdateUI can only stop the program.                                     *)
LEMMA UpdateUISound ==
  ASSUME NEW allow, NEW u, Sound(u)
  PROVE  /\ Sound(UpdateUI(allow, u))
         /\ RowsLive(u) => RowsLive(UpdateUI(allow, u))
  BY StopSound DEF UpdateUI, Sound, Status

(* A larger tree, nothing else changed.                                    *)
LEMMA GrowSound ==
  ASSUME NEW u, Sound(u), NEW t, IsTree(t), u.status = "running" => Closed(t),
         DOMAIN u.tree \subseteq DOMAIN t
  PROVE  LET v == [u EXCEPT !.tree = t] IN Sound(v) /\ (RowsLive(u) => RowsLive(v))
<1> DEFINE v == [u EXCEPT !.tree = t]
<1>1. /\ IsUI(v) /\ v.tree = t /\ v.sel = u.sel /\ v.cur = u.cur
      /\ v.rows = u.rows /\ v.status = u.status
  BY NewTree DEF Sound
<1> HIDE DEF v
<1>2. KidPaths(u.tree, u.cur) \subseteq KidPaths(t, u.cur)
  BY KidsGrow
<1>3. Sound(v) /\ (RowsLive(u) => RowsLive(v))
  BY <1>1, <1>2 DEF Sound, RowsLive
<1> QED
  BY <1>3 DEF v

(* CView::Update shows a node of the tree and exactly its children.        *)
LEMMA UpdateSound ==
  ASSUME NEW r, NEW u, IsUI(u), u.status = "dangling" => u.sel = NoNode, NEW p,
         u.status = "running" => /\ Closed(u.tree)
                                 /\ p \in DOMAIN u.tree
                                 /\ u.sel \in {NoNode, p}
  PROVE  LET v == Update(r, u, p)
         IN  /\ Sound(v) /\ RowsLive(v)
             /\ v.status = "running" =>
                  u.status = "running" /\ DOMAIN u.tree \subseteq DOMAIN v.tree
<1> DEFINE v == Update(r, u, p)
           t == Expand(r, u.tree, p)
           w == [u EXCEPT !.tree = t, !.cur = p, !.rows = KidPaths(t, p)]
<1> SUFFICES /\ Sound(v) /\ RowsLive(v)
             /\ v.status = "running" =>
                  u.status = "running" /\ DOMAIN u.tree \subseteq DOMAIN v.tree
  OBVIOUS
<1>1. CASE u.status # "running"
  <2>1. v = u
    BY <1>1 DEF Update
  <2> HIDE DEF v
  <2> QED
    BY <1>1, <2>1 DEF Sound, RowsLive
<1>2. CASE u.status = "running" /\ t[p].at = Gone
  <2>1. v = Stop(u, "hung") /\ "hung" \in Status \ {"running", "dangling"}
    BY <1>2 DEF Update, Status
  <2> HIDE DEF v
  <2> QED
    BY <2>1, StopSound
<1>3. CASE u.status = "running" /\ t[p].at # Gone
  <2>1. v = w
    BY <1>3 DEF Update
  <2>2. IsTree(t) /\ Closed(t) /\ DOMAIN u.tree \subseteq DOMAIN t /\ p \in Path
    BY <1>3, ExpandTree, UIFields DEF IsTree
  <2> HIDE DEF t, v
  <2>3. KidPaths(t, p) \subseteq Path
    BY <2>2, KidFacts
  <2>4. /\ IsUI(w) /\ w.tree = t /\ w.cur = p /\ w.rows = KidPaths(t, p)
        /\ w.sel = u.sel /\ w.status = u.status
    BY <2>2, <2>3 DEF IsUI
  <2> HIDE DEF w
  <2> QED
    BY <1>3, <2>1, <2>2, <2>4 DEF Sound, RowsLive
<1> QED
  BY <1>1, <1>2, <1>3

(* UpdateIfSame updates a shown node, and always for the selection.        *)
LEMMA UpdateIfSameSound ==
  ASSUME NEW r, NEW u, Sound(u), NEW p
  PROVE  /\ Sound(UpdateIfSame(r, u, p))
         /\ (RowsLive(u) \/ p \in {NoNode, u.cur}) => RowsLive(UpdateIfSame(r, u, p))
<1>1. Sound(Update(r, u, u.cur)) /\ RowsLive(Update(r, u, u.cur))
  BY UpdateSound DEF Sound
<1> QED
  BY <1>1 DEF UpdateIfSame

(* Selecting a node's item.                                                *)
LEMMA SelectSound ==
  ASSUME NEW r, NEW u, IsUI(u), u.status = "running", Closed(u.tree), NEW p \in DOMAIN u.tree,
         p = u.sel => u.cur \in DOMAIN u.tree /\ u.sel \in {NoNode, u.cur}
  PROVE  LET v == Select(r, u, p)
         IN  /\ Sound(v)
             /\ (RowsLive(u) \/ p # u.sel) => RowsLive(v)
             /\ v.status = "running" => DOMAIN u.tree \subseteq DOMAIN v.tree
<1>1. CASE p = u.sel
  BY <1>1 DEF Select, Sound
<1>2. CASE p # u.sel
  <2>1. PICK w : w = [u EXCEPT !.sel = p, !.under = <<>>]
    OBVIOUS
  <2>2. Select(r, u, p) = Update(r, w, p)
    BY <1>2, <2>1 DEF Select
  <2>3. IsUI(w) /\ w.tree = u.tree /\ w.sel = p /\ w.status = u.status
    BY <2>1, EmptySeq DEF IsUI, IsTree, Path
  <2> QED
    BY <1>2, <2>2, <2>3, UpdateSound
<1> QED
  BY <1>1, <1>2

(* Selecting the placeholder below a node.                                 *)
LEMMA SelectMarkSound ==
  ASSUME NEW r, NEW u, Sound(u), u.status = "running", NEW p \in Path
  PROVE  LET v == SelectMark(r, u, p)
         IN  /\ Sound(v)
             /\ (RowsLive(u) \/ ~(u.sel = NoNode /\ u.under = p)) => RowsLive(v)
             /\ v.status = "running" => DOMAIN u.tree \subseteq DOMAIN v.tree
<1>1. CASE u.sel = NoNode /\ u.under = p
  BY <1>1 DEF SelectMark
<1>2. CASE ~(u.sel = NoNode /\ u.under = p)
  <2>1. PICK w : w = [u EXCEPT !.sel = NoNode, !.under = p]
    OBVIOUS
  <2>2. SelectMark(r, u, p) = Update(r, w, u.cur)
    BY <1>2, <2>1 DEF SelectMark
  <2>3. IsUI(w) /\ w.tree = u.tree /\ w.sel = NoNode /\ w.status = u.status
    BY <2>1 DEF Sound, IsUI
  <2> QED
    BY <1>2, <2>2, <2>3, UpdateSound DEF Sound
<1> QED
  BY <1>1, <1>2

(* Expanding a node in the tree control.                                   *)
LEMMA ExpandItemSound ==
  ASSUME NEW r, NEW u, Sound(u), u.status = "running", NEW p \in DOMAIN u.tree
  PROVE  LET v == ExpandItem(r, u, p)
         IN  /\ Sound(v)
             /\ RowsLive(u) => RowsLive(v)
             /\ v.status = "running" =>
                  DOMAIN u.tree \subseteq DOMAIN v.tree /\ v.cur = u.cur /\ v.sel = u.sel
<1> DEFINE v == ExpandItem(r, u, p)
           t == Expand(r, u.tree, p)
           node(q) == IF q \in KidPaths(t, p) THEN AddItem(r, t[q])
                      ELSE IF q = p THEN [t[q] EXCEPT !.mark = "none"]
                      ELSE t[q]
           opened == [q \in DOMAIN t |-> node(q)]
           w == [u EXCEPT !.tree = opened]
<1> SUFFICES /\ Sound(v)
             /\ RowsLive(u) => RowsLive(v)
             /\ v.status = "running" =>
                  DOMAIN u.tree \subseteq DOMAIN v.tree /\ v.cur = u.cur /\ v.sel = u.sel
  OBVIOUS
<1>1. IsUI(u) /\ IsTree(u.tree) /\ Closed(u.tree)
  BY UIFields DEF Sound
<1>2. IsTree(t) /\ Closed(t) /\ DOMAIN u.tree \subseteq DOMAIN t
  BY <1>1, ExpandTree
<1>3. CASE \E q \in KidPaths(t, p) : t[q].item
  <2>1. v = Stop(u, "torn") /\ "torn" \in Status \ {"running", "dangling"}
    BY <1>3 DEF ExpandItem, Status
  <2> HIDE DEF v
  <2> QED
    BY <1>1, <2>1, StopSound
<1>4. CASE ~\E q \in KidPaths(t, p) : t[q].item
  <2>1. v = w
    BY <1>4 DEF ExpandItem
  <2>2. ASSUME NEW q \in DOMAIN t PROVE node(q) \in Node
    <3> HIDE DEF t
    <3>1. t[q] \in Node
      BY <1>2, <2>2, NodeFields
    <3>2. [t[q] EXCEPT !.mark = "none"] \in Node
      BY <3>1 DEF Node
    <3> QED
      BY <3>1, <3>2, AddItemType
  <2>3. IsTree(opened) /\ DOMAIN opened = DOMAIN t
    <3> HIDE DEF t, node
    <3> QED
      BY <1>2, <2>2 DEF IsTree
  <2> HIDE DEF opened, t, v
  <2>4. Closed(opened)
    BY <1>2, <2>3 DEF Closed
  <2>5. Sound(w) /\ (RowsLive(u) => RowsLive(w))
    BY <1>2, <2>3, <2>4, GrowSound
  <2>6. w.tree = opened /\ w.cur = u.cur /\ w.sel = u.sel
    BY <1>1, <2>3, NewTree
  <2> HIDE DEF w
  <2> QED
    BY <1>2, <2>1, <2>3, <2>5, <2>6
<1> QED
  BY <1>3, <1>4

(* Changing fields of the node at p alone.                                 *)
LEMMA OpenItemSound ==
  ASSUME NEW r, NEW u, Sound(u), u.status = "running", NEW p \in DOMAIN u.tree
  PROVE  LET v == OpenItem(r, u, p)
         IN  /\ Sound(v)
             /\ RowsLive(u) => RowsLive(v)
             /\ v.status = "running" =>
                  DOMAIN u.tree \subseteq DOMAIN v.tree /\ v.cur = u.cur /\ v.sel = u.sel
<1> DEFINE v == OpenItem(r, u, p)
           t == [u.tree EXCEPT ![p].mark = "shown"]
           w == [u EXCEPT !.tree = t]
<1> SUFFICES /\ Sound(v)
             /\ RowsLive(u) => RowsLive(v)
             /\ v.status = "running" =>
                  DOMAIN u.tree \subseteq DOMAIN v.tree /\ v.cur = u.cur /\ v.sel = u.sel
  OBVIOUS
<1>1. CASE HasChildren(r, u.tree[p].at)
  <2>1. v = ExpandItem(r, u, p)
    BY <1>1 DEF OpenItem
  <2> HIDE DEF v
  <2> QED
    BY <2>1, ExpandItemSound
<1>2. CASE ~HasChildren(r, u.tree[p].at)
  <2>1. v = w
    BY <1>2 DEF OpenItem
  <2>2. IsTree(u.tree) /\ Closed(u.tree) /\ IsUI(u)
    BY UIFields DEF Sound
  <2>3. IsTree(t) /\ DOMAIN t = DOMAIN u.tree
    BY <2>2 DEF IsTree, Node
  <2> HIDE DEF t, v
  <2>4. Closed(t)
    BY <2>2, <2>3 DEF Closed
  <2>5. Sound(w) /\ (RowsLive(u) => RowsLive(w))
    BY <2>3, <2>4, GrowSound
  <2>6. w.tree = t /\ w.cur = u.cur /\ w.sel = u.sel
    BY <2>2, <2>3, NewTree
  <2> HIDE DEF w
  <2> QED
    BY <2>1, <2>3, <2>5, <2>6
<1> QED
  BY <1>1, <1>2

(* Choosing a child of a node in the list view.                            *)
LEMMA SelectNodeSound ==
  ASSUME NEW r, NEW u, Sound(u), RowsLive(u), u.status = "running",
         NEW q \in DOMAIN u.tree, Front(q) \in DOMAIN u.tree
  PROVE  Sound(SelectNode(r, u, q)) /\ RowsLive(SelectNode(r, u, q))
<1> DEFINE p      == Front(q)
           opened == IF u.tree[p].mark = "closed" THEN OpenItem(r, u, p) ELSE u
           chosen == Select(r, opened, q)
           v == IF opened.status # "running" THEN opened
                ELSE IF ~opened.tree[q].item THEN Stop(opened, "noItem")
                ELSE IF chosen.status = "running" /\ chosen.tree[q].mark # "none"
                  THEN ExpandItem(r, chosen, q)
                ELSE chosen
<1>1. SelectNode(r, u, q) = v
  BY DEF SelectNode
<1>2. q \in Path /\ p \in DOMAIN u.tree
  BY UIFields, NodeFields DEF Sound
<1> HIDE DEF p
<1>3. /\ Sound(opened) /\ RowsLive(opened)
      /\ opened.status = "running" => DOMAIN u.tree \subseteq DOMAIN opened.tree
  <2>1. CASE u.tree[p].mark = "closed"
    BY <1>2, <2>1, OpenItemSound
  <2>2. CASE u.tree[p].mark # "closed"
    BY <2>2
  <2> QED
    BY <2>1, <2>2
<1> HIDE DEF opened
<1>4. Sound(v) /\ RowsLive(v)
  <2>1. CASE opened.status # "running"
    BY <1>3, <2>1
  <2>2. CASE opened.status = "running" /\ ~opened.tree[q].item
    <3>1. "noItem" \in Status \ {"running", "dangling"} /\ IsUI(opened)
      BY <1>3 DEF Status, Sound
    <3> QED
      BY <2>2, <3>1, StopSound
  <2>3. CASE opened.status = "running" /\ opened.tree[q].item
    <3>1. /\ Sound(chosen) /\ RowsLive(chosen)
          /\ chosen.status = "running" => q \in DOMAIN chosen.tree
      BY <1>2, <1>3, <2>3, SelectSound DEF Sound
    <3> HIDE DEF chosen
    <3>2. ASSUME chosen.status = "running"
          PROVE  Sound(ExpandItem(r, chosen, q)) /\ RowsLive(ExpandItem(r, chosen, q))
      BY <3>1, <3>2, ExpandItemSound
    <3> QED
      BY <2>3, <3>1, <3>2
  <2> QED
    BY <2>1, <2>2, <2>3
<1> QED
  BY <1>1, <1>4

-----------------------------------------------------------------------------
(* Taking nodes away.                                                      *)

(* Without a subtree the tree is still closed.                             *)
LEMMA PrunedTree ==
  ASSUME NEW t, IsTree(t), Closed(t), NEW p \in DOMAIN t, p # <<>>,
         NEW kept, kept = {q \in DOMAIN t : ~IsPrefix(p, q)}
  PROVE  /\ IsTree([q \in kept |-> t[q]])
         /\ Closed([q \in kept |-> t[q]])
         /\ Front(p) \in kept /\ p \notin kept
<1> DEFINE v == [q \in kept |-> t[q]]
<1>1. p \in Path /\ DOMAIN t \subseteq Path
  BY DEF IsTree
<1>2. IsTree(v) /\ DOMAIN v = kept
  BY <1>1 DEF IsTree
<1> HIDE DEF v
<1>3. Closed(v)
  <2> SUFFICES ASSUME NEW x \in kept, NEW q \in Path, IsPrefix(q, x)
               PROVE  q \in kept
    BY <1>2 DEF Closed
  <2>1. q \in DOMAIN t
    BY DEF Closed
  <2>2. ~IsPrefix(p, q)
    BY <1>1, PrefixTransitive
  <2> QED
    BY <2>1, <2>2
<1>4. Front(p) \in kept
  <2>1. Front(p) \in DOMAIN t /\ Front(p) \in Path /\ Last(p) \in Name
    BY <1>1, ParentInTree, ParentPath
  <2>2. ~IsPrefix(Append(Front(p), Last(p)), Front(p))
    BY <2>1, PrefixOfChild
  <2>3. ~IsPrefix(p, Front(p))
    BY <1>1, <2>2, ParentPath
  <2> QED
    BY <2>1, <2>3
<1>5. p \notin kept
  BY <1>1, PrefixReflexive
<1> QED
  BY <1>2, <1>3, <1>4, <1>5 DEF v

(* The rows of a node other than the parent of the subtree stay.           *)
LEMMA PrunedKids ==
  ASSUME NEW t, IsTree(t), NEW p \in Path, NEW c \in Path, ~IsPrefix(p, c), c # Front(p),
         NEW v, DOMAIN v = {q \in DOMAIN t : ~IsPrefix(p, q)}
  PROVE  KidPaths(t, c) \subseteq KidPaths(v, c)
<1> SUFFICES ASSUME NEW x \in Name, Append(c, x) \in DOMAIN t
             PROVE  ~IsPrefix(p, Append(c, x))
  BY DEF KidPaths, Kids
<1> QED
  BY PrefixOfChild, ChildPath

(* The tree without the subtree of p.                                      *)
Pruned(t, p) == [q \in {x \in DOMAIN t : ~IsPrefix(p, x)} |-> t[q]]

(* The outcomes v of DeleteItem, left being u without the subtree: the     *)
(* tree is wiped; the view shows a freed node and no node is selected; the *)
(* selection stays; it goes to a placeholder it was not on; it goes to a   *)
(* node that is left.                                                      *)
ItemDeleted(r, u, p, left, v) ==
  \/ v = Stop(u, "wiped") /\ ~u.tree[p].item
  \/ \E w : /\ IsUI(w) /\ w.tree = left.tree /\ w.sel = NoNode
            /\ v = Stop(w, "dangling") /\ IsPrefix(p, u.cur)
            /\ u.sel = NoNode \/ NoNode \in Successors(left.tree, p)
  \/ v = left /\ ~IsPrefix(p, u.cur)
  \/ /\ v = SelectMark(r, left, Front(p))
     /\ ~IsPrefix(p, u.cur) /\ ~(left.sel = NoNode /\ left.under = Front(p))
     /\ NoNode \in Successors(left.tree, p)
  \/ \E q \in Successors(left.tree, p) \ {NoNode} :
       q \in DOMAIN left.tree /\ q # left.sel /\ v = Select(r, left, q)

LEMMA DeleteItemCases ==
  ASSUME NEW r, NEW u, Sound(u), u.status = "running", NEW p \in DOMAIN u.tree, p # <<>>,
         NEW v \in DeleteItem(r, u, p),
         NEW left, left = [u EXCEPT !.tree = Pruned(u.tree, p)]
  PROVE  ItemDeleted(r, u, p, left, v)
<1> DEFINE kept  == {q \in DOMAIN u.tree : ~IsPrefix(p, q)}
           moved == IsPrefix(p, IF u.sel = NoNode THEN u.under ELSE u.sel)
           freed == IsPrefix(p, u.cur)
<1>1. /\ IsUI(u) /\ IsTree(u.tree) /\ Closed(u.tree) /\ u.sel \in {NoNode, u.cur}
      /\ p \in Path /\ p # NoNode
  BY UIFields, DistinctAssumption DEF Sound, IsTree
<1>2. /\ IsTree(Pruned(u.tree, p)) /\ DOMAIN Pruned(u.tree, p) = kept
      /\ Front(p) \in kept /\ p \notin kept
  BY <1>1, PrunedTree DEF Pruned
<1>3. /\ IsUI(left) /\ left.tree = Pruned(u.tree, p) /\ left.sel = u.sel
      /\ left.under = u.under
  BY <1>1, <1>2, NewTree
<1>4. DeleteItem(r, u, p) =
        IF ~u.tree[p].item THEN {Stop(u, "wiped")}
        ELSE IF ~moved THEN {IF freed THEN Stop(left, "dangling") ELSE left}
        ELSE {IF q # NoNode THEN Select(r, left, q)
              ELSE IF freed THEN Stop([left EXCEPT !.sel = NoNode], "dangling")
              ELSE SelectMark(r, left, Front(p)) : q \in Successors(left.tree, p)}
  BY DEF DeleteItem, Pruned
<1>5. CASE ~u.tree[p].item
  BY <1>4, <1>5 DEF ItemDeleted
<1>6. CASE u.tree[p].item /\ ~moved
  <2>1. freed => left.sel = NoNode
    BY <1>1, <1>3, <1>6
  <2> QED
    BY <1>3, <1>4, <1>6, <2>1 DEF ItemDeleted
<1>7. CASE u.tree[p].item /\ moved
  <2>1. PICK q \in Successors(left.tree, p) :
          v = IF q # NoNode THEN Select(r, left, q)
              ELSE IF freed THEN Stop([left EXCEPT !.sel = NoNode], "dangling")
              ELSE SelectMark(r, left, Front(p))
    BY <1>4, <1>7
  <2>2. CASE q # NoNode
    <3>1. q \in KidPaths(left.tree, Front(p)) \union {Front(p)}
      BY <2>1, <2>2 DEF Successors
    <3>2. q \in DOMAIN left.tree
      BY <1>2, <1>3, <3>1 DEF KidPaths, Kids
    <3>3. q # left.sel
      BY <1>2, <1>3, <1>7, <2>2, <3>2
    <3> QED
      BY <2>1, <2>2, <3>2, <3>3 DEF ItemDeleted
  <2>3. CASE q = NoNode /\ freed
    <3>1. PICK w : w = [left EXCEPT !.sel = NoNode]
      OBVIOUS
    <3>2. IsUI(w) /\ w.tree = left.tree /\ w.sel = NoNode
      BY <1>3, <3>1 DEF IsUI
    <3> QED
      BY <2>1, <2>3, <3>1, <3>2 DEF ItemDeleted
  <2>4. CASE q = NoNode /\ ~freed
    <3>1. ~(left.sel = NoNode /\ left.under = Front(p))
      BY <1>2, <1>3, <1>7
    <3> QED
      BY <2>1, <2>4, <3>1 DEF ItemDeleted
  <2> QED
    BY <2>2, <2>3, <2>4
<1> QED
  BY <1>5, <1>6, <1>7

(* RemoveChild and DeleteItem: the selection and the view leave the        *)
(* subtree that is freed, or the program stops.                            *)
LEMMA DeleteItemSound ==
  ASSUME NEW r, NEW u, Sound(u), u.status = "running", NEW p \in DOMAIN u.tree, p # <<>>,
         NEW v \in DeleteItem(r, u, p)
  PROVE  /\ Sound(v)
         /\ v.status = "running" =>
              \A x \in DOMAIN u.tree : ~IsPrefix(p, x) => x \in DOMAIN v.tree
         /\ RowsLive(u) /\ v.cur # Front(p) => RowsLive(v)
<1> DEFINE kept == {q \in DOMAIN u.tree : ~IsPrefix(p, q)}
<1>1. PICK left : left = [u EXCEPT !.tree = Pruned(u.tree, p)]
  OBVIOUS
<1>2. /\ IsUI(u) /\ IsTree(u.tree) /\ Closed(u.tree) /\ u.cur \in DOMAIN u.tree
      /\ u.sel \in {NoNode, u.cur} /\ DOMAIN u.tree \subseteq Path /\ p \in Path
  BY UIFields DEF Sound, IsTree
<1>3. /\ IsTree(Pruned(u.tree, p)) /\ Closed(Pruned(u.tree, p)) /\ DOMAIN Pruned(u.tree, p) = kept
      /\ Front(p) \in kept
  BY <1>2, PrunedTree DEF Pruned
<1>4. /\ IsUI(left) /\ left.tree = Pruned(u.tree, p) /\ left.sel = u.sel /\ left.cur = u.cur
      /\ left.rows = u.rows /\ left.status = "running"
  BY <1>1, <1>2, <1>3, NewTree
<1>5. CASE v = Stop(u, "wiped")
  <2>1. "wiped" \in Status \ {"running", "dangling"}
    BY DEF Status
  <2>2. Sound(v) /\ RowsLive(v) /\ v.status = "wiped"
    BY <1>2, <1>5, <2>1, StopSound
  <2> QED
    BY <2>2
<1>6. ASSUME NEW w, IsUI(w), w.sel = NoNode, v = Stop(w, "dangling")
      PROVE  Sound(v) /\ RowsLive(v) /\ v.status # "running"
  BY <1>6, DanglingSound DEF RowsLive
<1>7. ~IsPrefix(p, u.cur) => Sound(left)
  BY <1>2, <1>3, <1>4 DEF Sound
<1>8. CASE v = left /\ ~IsPrefix(p, u.cur)
  <2>1. ASSUME RowsLive(u), v.cur # Front(p) PROVE RowsLive(left)
    <3>1. KidPaths(u.tree, u.cur) \subseteq KidPaths(Pruned(u.tree, p), u.cur)
      BY <1>2, <1>3, <1>4, <1>8, <2>1, PrunedKids
    <3> QED
      BY <1>4, <2>1, <3>1 DEF RowsLive
  <2> QED
    BY <1>3, <1>4, <1>7, <1>8, <2>1
<1>9. CASE /\ v = SelectMark(r, left, Front(p))
           /\ ~IsPrefix(p, u.cur) /\ ~(left.sel = NoNode /\ left.under = Front(p))
  <2>1. Front(p) \in Path
    BY <1>2, <1>3
  <2>2. /\ Sound(v) /\ RowsLive(v)
        /\ v.status = "running" => DOMAIN left.tree \subseteq DOMAIN v.tree
    BY <1>4, <1>7, <1>9, <2>1, SelectMarkSound
  <2> QED
    BY <1>3, <1>4, <2>2
<1>10. ASSUME NEW q \in DOMAIN left.tree, q # left.sel, v = Select(r, left, q)
       PROVE  /\ Sound(v) /\ RowsLive(v)
              /\ v.status = "running" => DOMAIN left.tree \subseteq DOMAIN v.tree
  BY <1>3, <1>4, <1>10, SelectSound
<1>11. ItemDeleted(r, u, p, left, v)
  BY <1>1, DeleteItemCases
<1> HIDE DEF kept
<1>12. v.status = "running" /\ DOMAIN left.tree \subseteq DOMAIN v.tree =>
         \A x \in DOMAIN u.tree : ~IsPrefix(p, x) => x \in DOMAIN v.tree
  BY <1>3, <1>4 DEF kept
<1>13. \/ v = Stop(u, "wiped")
       \/ \E w : IsUI(w) /\ w.sel = NoNode /\ v = Stop(w, "dangling")
       \/ v = left /\ ~IsPrefix(p, u.cur)
       \/ /\ v = SelectMark(r, left, Front(p))
          /\ ~IsPrefix(p, u.cur) /\ ~(left.sel = NoNode /\ left.under = Front(p))
       \/ \E q \in DOMAIN left.tree : q # left.sel /\ v = Select(r, left, q)
  BY <1>11, Zenon DEF ItemDeleted
<1>14. CASE \E w : IsUI(w) /\ w.sel = NoNode /\ v = Stop(w, "dangling")
  BY <1>6, <1>14
<1>15. CASE \E q \in DOMAIN left.tree : q # left.sel /\ v = Select(r, left, q)
  BY <1>10, <1>12, <1>15
<1> QED
  BY <1>5, <1>8, <1>9, <1>13, <1>14, <1>15

-----------------------------------------------------------------------------
(* Moving nodes and keys.                                                  *)

(* A rename in the registry or a deletion changes where handles point, not *)
(* the tree's shape.                                                       *)
LEMMA HandlesSound ==
  ASSUME NEW u, Sound(u), NEW at, \A x \in DOMAIN u.tree : at[x] \in Path \union {Gone},
         NEW t, t = [x \in DOMAIN u.tree |-> [u.tree[x] EXCEPT !.at = at[x]]]
  PROVE  LET v == [u EXCEPT !.tree = t]
         IN  /\ Sound(v) /\ (RowsLive(u) => RowsLive(v))
             /\ v.tree = t /\ DOMAIN t = DOMAIN u.tree
             /\ v.status = u.status /\ v.sel = u.sel /\ v.cur = u.cur
<1>1. IsUI(u) /\ IsTree(u.tree)
  BY UIFields DEF Sound
<1>2. ASSUME NEW x \in DOMAIN u.tree PROVE [u.tree[x] EXCEPT !.at = at[x]] \in Node
  BY <1>1, NodeFields DEF Node
<1>3. IsTree(t) /\ DOMAIN t = DOMAIN u.tree
  BY <1>1, <1>2 DEF IsTree
<1>4. u.status = "running" => Closed(t)
  BY <1>3 DEF Closed, Sound
<1> QED
  BY <1>1, <1>3, <1>4, GrowSound, NewTree

LEMMA KillHandlesSound ==
  ASSUME NEW u, Sound(u), NEW p
  PROVE  LET v == [u EXCEPT !.tree = KillHandles(u.tree, p)]
         IN  /\ Sound(v) /\ (RowsLive(u) => RowsLive(v))
             /\ DOMAIN v.tree = DOMAIN u.tree
             /\ v.status = u.status /\ v.sel = u.sel /\ v.cur = u.cur
<1> DEFINE at == [x \in DOMAIN u.tree |-> IF u.tree[x].at = p THEN Gone ELSE u.tree[x].at]
<1>1. IsTree(u.tree)
  BY UIFields DEF Sound
<1>2. \A x \in DOMAIN u.tree : at[x] \in Path \union {Gone}
  BY <1>1, NodeFields
<1>3. KillHandles(u.tree, p) = [x \in DOMAIN u.tree |-> [u.tree[x] EXCEPT !.at = at[x]]]
  <2>1. ASSUME NEW x \in DOMAIN u.tree
        PROVE  (IF u.tree[x].at = p THEN [u.tree[x] EXCEPT !.at = Gone] ELSE u.tree[x])
                 = [u.tree[x] EXCEPT !.at = at[x]]
    BY <1>1, NodeFields DEF Node
  <2> QED
    BY <2>1 DEF KillHandles
<1> HIDE DEF at
<1> QED
  BY <1>2, <1>3, HandlesSound

LEMMA MoveHandlesSound ==
  ASSUME NEW u, Sound(u), NEW p \in Path, NEW q \in Path
  PROVE  LET v == [u EXCEPT !.tree = MoveHandles(u.tree, p, q)]
         IN  /\ Sound(v) /\ (RowsLive(u) => RowsLive(v))
             /\ DOMAIN v.tree = DOMAIN u.tree
             /\ v.status = u.status /\ v.sel = u.sel /\ v.cur = u.cur
<1> DEFINE at == [x \in DOMAIN u.tree |-> RebaseHandle(p, q, u.tree[x].at)]
<1>1. IsTree(u.tree)
  BY UIFields DEF Sound
<1>2. \A x \in DOMAIN u.tree : at[x] \in Path \union {Gone}
  BY <1>1, NodeFields, RebaseType DEF RebaseHandle
<1>3. MoveHandles(u.tree, p, q) = [x \in DOMAIN u.tree |-> [u.tree[x] EXCEPT !.at = at[x]]]
  BY DEF MoveHandles
<1> HIDE DEF at
<1> QED
  BY <1>2, <1>3, HandlesSound

(* A node with its subtree moves to a free place below the same parent:    *)
(* every pointer into the subtree moves with it.                           *)
LEMMA MoveNodeSound ==
  ASSUME NEW u, Sound(u), u.status = "running", NEW p \in DOMAIN u.tree, p # <<>>,
         NEW name \in Name, NEW q, q = Append(Front(p), name), q \notin DOMAIN u.tree
  PROVE  /\ Sound(MoveNode(u, p, q))
         /\ RowsLive(u) => RowsLive(MoveNode(u, p, q))
         /\ MoveNode(u, p, q).status = "running"
<1> DEFINE v == MoveNode(u, p, q)
           places == {Rebase(p, q, y) : y \in DOMAIN u.tree}
           t == [x \in places |-> u.tree[Rebase(q, p, x)]]
           sel == IF u.sel = NoNode THEN NoNode ELSE Rebase(p, q, u.sel)
           under == Rebase(p, q, u.under)
           cur == Rebase(p, q, u.cur)
           rows == {Rebase(p, q, x) : x \in u.rows}
<1>1. /\ IsUI(u) /\ IsTree(u.tree) /\ Closed(u.tree) /\ u.cur \in DOMAIN u.tree
      /\ u.sel \in {NoNode, u.cur} /\ u.under \in Path /\ DOMAIN u.tree \subseteq Path
  BY UIFields DEF Sound, IsTree
<1>2. /\ p \in Path /\ Front(p) \in Path /\ Last(p) \in Name /\ p = Append(Front(p), Last(p))
      /\ q \in Path /\ Front(p) \in DOMAIN u.tree /\ ~IsPrefix(p, Front(p))
  <2>1. p \in Path /\ Front(p) \in DOMAIN u.tree
    BY <1>1, ParentInTree
  <2>2. Front(p) \in Path /\ Last(p) \in Name /\ p = Append(Front(p), Last(p))
    BY <2>1, ParentPath
  <2>3. ~IsPrefix(Append(Front(p), Last(p)), Front(p)) /\ q \in Path
    BY <2>2, PrefixOfChild, ChildPath
  <2> QED
    BY <2>1, <2>2, <2>3
<1>3. \A y \in DOMAIN u.tree : ~IsPrefix(q, y)
  BY <1>1, <1>2 DEF Closed
<1>4. places \subseteq Path
  BY <1>1, <1>2, RebaseType
<1>5. IsTree(t) /\ DOMAIN t = places
  <2>1. ASSUME NEW y \in DOMAIN u.tree PROVE Rebase(q, p, Rebase(p, q, y)) = y
    BY <1>1, <1>2, <1>3, <2>1, RebaseBack
  <2>2. \A x \in places : u.tree[Rebase(q, p, x)] \in Node
    BY <1>1, <2>1, NodeFields
  <2> QED
    BY <1>4, <2>2 DEF IsTree
<1>6. ASSUME NEW y \in DOMAIN u.tree, NEW z \in Path, IsPrefix(z, Rebase(p, q, y))
      PROVE  z \in places
  <2>1. CASE ~IsPrefix(p, y)
    <3>1. Rebase(p, q, y) = y
      BY <1>1, <1>2, <2>1, RebaseElsewhere
    <3>2. z \in DOMAIN u.tree /\ ~IsPrefix(p, z)
      BY <1>1, <1>2, <1>6, <2>1, <3>1, PrefixTransitive DEF Closed
    <3>3. Rebase(p, q, z) = z
      BY <1>2, <3>2, RebaseElsewhere
    <3> QED
      BY <3>2, <3>3
  <2>2. CASE IsPrefix(p, y) /\ ~IsPrefix(q, z)
    <3>1. PICK s \in Path : y = Below(p, s)
      BY <1>1, <1>2, <2>2, PrefixBelow
    <3>2. Rebase(p, q, y) = Below(q, s)
      BY <1>2, <3>1, RebaseBelow
    <3>3. Below(q, s) \in Path /\ IsPrefix(q, Below(q, s)) /\ IsPrefix(z, Below(q, s))
      BY <1>2, <1>6, <3>2, BelowFacts
    <3>4. IsPrefix(z, q)
      BY <1>2, <2>2, <3>3, PrefixesCompare
    <3>5. z # q
      BY <1>2, <2>2, PrefixReflexive
    <3>6. IsPrefix(z, Front(p))
      BY <1>2, <3>4, <3>5, PrefixOfChild
    <3>7. z \in DOMAIN u.tree /\ ~IsPrefix(p, z)
      BY <1>1, <1>2, <3>6, PrefixTransitive DEF Closed
    <3>8. Rebase(p, q, z) = z
      BY <1>2, <3>7, RebaseElsewhere
    <3> QED
      BY <3>7, <3>8
  <2>3. CASE IsPrefix(p, y) /\ IsPrefix(q, z)
    <3>1. PICK s \in Path : y = Below(p, s)
      BY <1>1, <1>2, <2>3, PrefixBelow
    <3>2. PICK s1 \in Path : z = Below(q, s1)
      BY <1>2, <2>3, PrefixBelow
    <3>3. IsPrefix(Below(q, s1), Below(q, s))
      BY <1>2, <1>6, <3>1, <3>2, RebaseBelow
    <3>4. IsPrefix(Below(p, s1), Below(p, s))
      BY <1>2, <3>3, BelowPrefix
    <3>5. Below(p, s1) \in DOMAIN u.tree
      BY <1>1, <1>2, <3>1, <3>4, BelowFacts DEF Closed
    <3> QED
      BY <1>2, <3>2, <3>5, RebaseBelow
  <2> QED
    BY <2>1, <2>2, <2>3
<1>7. Closed(t)
  BY <1>5, <1>6 DEF Closed
<1>8. cur \in places /\ sel \in {NoNode, cur} /\ cur \in Path
  BY <1>1, <1>4
<1>9. rows \subseteq Path /\ under \in Path
  BY <1>1, <1>2, RebaseType, UIFields
<1>10. RowsLive(u) => rows \subseteq KidPaths(t, cur)
  <2> SUFFICES ASSUME RowsLive(u), NEW x \in u.rows
               PROVE  Rebase(p, q, x) \in KidPaths(t, cur)
    OBVIOUS
  <2>1. x \in KidPaths(u.tree, u.cur) /\ u.cur \in Path
    BY <1>1 DEF RowsLive
  <2>2. PICK n \in Name : x = Append(u.cur, n) /\ x \in DOMAIN u.tree
    BY <2>1 DEF KidPaths, Kids
  <2>3. Rebase(p, q, x) \in places
    BY <2>2
  <2>4. \E m \in Name : Rebase(p, q, x) = Append(cur, m)
    <3>1. CASE x # p
      <4>1. PICK c, d : c = u.cur /\ d = Append(u.cur, n)
        OBVIOUS
      <4>2. p \in Path /\ q \in Path /\ c \in Path /\ d # p /\ d = Append(c, n)
        BY <1>2, <2>1, <2>2, <3>1, <4>1
      <4>3. Rebase(p, q, d) = Append(Rebase(p, q, c), n)
        BY <4>2, RebaseChild
      <4> QED
        BY <2>2, <4>1, <4>3
    <3>2. CASE x = p
      <4>0. Front(Append(u.cur, n)) = u.cur
        BY <2>1, ChildPath
      <4>1. u.cur = Front(p)
        BY <2>2, <3>2, <4>0
      <4>2. cur = u.cur
        BY <1>2, <4>1, RebaseElsewhere
      <4>3. Rebase(p, q, x) = q
        BY <1>2, <3>2, RebaseChild
      <4> QED
        BY <4>1, <4>2, <4>3
    <3> QED
      BY <3>1, <3>2
  <2> HIDE DEF cur, places
  <2> QED
    BY <1>5, <2>3, <2>4 DEF KidPaths, Kids
<1>11. v = [u EXCEPT !.tree = t, !.sel = sel, !.under = under, !.cur = cur, !.rows = rows]
  BY DEF MoveNode
<1> HIDE DEF t, sel, under, cur, rows, places
<1>12. sel \in Path \union {NoNode}
  BY <1>8
<1>13. /\ IsUI(v) /\ v.tree = t /\ v.sel = sel /\ v.cur = cur /\ v.rows = rows
       /\ v.status = u.status
  <2> HIDE DEF v
  <2> QED
    BY <1>1, <1>5, <1>8, <1>9, <1>11, <1>12 DEF IsUI
<1> HIDE DEF v
<1>14. Sound(v) /\ (RowsLive(u) => RowsLive(v)) /\ v.status = "running"
  BY <1>5, <1>7, <1>8, <1>10, <1>13 DEF Sound, RowsLive
<1> QED
  BY <1>14 DEF v

-----------------------------------------------------------------------------
(* The key operations.                                                     *)

(* What every outcome of an operation on a sound UI record guarantees.     *)
GoodOutcome(u, path, o) ==
  /\ o.reg \subseteq Path
  /\ Sound(o.ui)
  /\ RowsLive(u) => RowsLive(o.ui)
  /\ o.ok => path # <<>>

LEMMA OutcomeFields ==
  ASSUME NEW r, NEW u, NEW ok
  PROVE  /\ Outcome(r, u, ok).reg = r
         /\ Outcome(r, u, ok).ui = u
         /\ Outcome(r, u, ok).ok = ok
  BY DEF Outcome

LEMMA RefusedOutcome ==
  ASSUME NEW r \in SUBSET Path, NEW u, Sound(u), NEW path
  PROVE  GoodOutcome(u, path, Outcome(r, u, FALSE))
  BY DEF GoodOutcome, Outcome

LEMMA StoppedOutcome ==
  ASSUME NEW r \in SUBSET Path, NEW u, Sound(u), NEW path, NEW why \in Status \ {"running", "dangling"}
  PROVE  GoodOutcome(u, path, Outcome(r, Stop(u, why), FALSE))
<1>1. Sound(Stop(u, why)) /\ RowsLive(Stop(u, why))
  BY StopSound DEF Sound
<1> QED
  BY <1>1 DEF GoodOutcome, Outcome

(* One node more, below a node of the tree.                                *)
LEMMA AddChildTree ==
  ASSUME NEW t, IsTree(t), Closed(t), NEW p \in DOMAIN t, NEW x \in Name, NEW n \in Node
  PROVE  LET v == AddChild(t, Append(p, x), n)
         IN  IsTree(v) /\ Closed(v) /\ DOMAIN t \subseteq DOMAIN v
<1> DEFINE q == Append(p, x)
           v == AddChild(t, q, n)
<1>1. p \in Path /\ q \in Path /\ DOMAIN t \subseteq Path
  BY ChildPath DEF IsTree
<1>2. DOMAIN v = DOMAIN t \union {q}
  BY DEF AddChild
<1>3. v \in [DOMAIN v -> Node]
  <2> HIDE DEF q
  <2> QED
    BY <1>2, NodeFields DEF AddChild
<1>4. DOMAIN v = DOMAIN t \union {Append(p, y) : y \in {x}}
  BY <1>2
<1> HIDE DEF v
<1>5. Closed(v)
  <2>1. {x} \in SUBSET Name
    OBVIOUS
  <2> QED
    BY <1>4, <2>1, ClosedWithKids
<1>6. IsTree(v) /\ DOMAIN t \subseteq DOMAIN v
  BY <1>1, <1>2, <1>3 DEF IsTree
<1> QED
  BY <1>5, <1>6 DEF v

(* The keys RegCreateKeyEx makes are paths.                                *)
LEMMA Beginnings ==
  ASSUME NEW q \in Path
  PROVE  {SubSeq(q, 1, n) : n \in 0 .. Len(q)} \subseteq Path
<1> SUFFICES ASSUME NEW n \in 0 .. Len(q) PROVE SubSeq(q, 1, n) \in Path
  OBVIOUS
<1>1. Len(q) \in Nat /\ \A i \in 1 .. Len(q) : q[i] \in Name
  BY LenProperties, ElementOfSeq DEF Path
<1>2. n \in Int /\ \A i \in 1 .. n : q[i] \in Name
  BY <1>1
<1> QED
  BY <1>2, SubSeqProperties DEF Path

(* RegistryManager::CreateKey.                                             *)
LEMMA CreateKeyGood ==
  ASSUME NEW r \in SUBSET Path, NEW u, Sound(u), u.status = "running",
         NEW path \in Path, NEW name \in Name, NEW o \in CreateKey(r, u, path, name)
  PROVE  GoodOutcome(u, path, o)
<1> DEFINE q       == Append(path, name)
           made    == r \union {SubSeq(q, 1, n) : n \in 0 .. Len(q)}
           node    == BareNode(q, Append(u.tree[path].full, name))
           shown   == IsExpanded(AddChild(u.tree, q, node), path)
           child   == IF shown THEN AddItem(made, node) ELSE node
           added   == AddChild(u.tree, q, child)
           w       == [u EXCEPT !.tree = added]
           created == IF path \notin DOMAIN u.tree THEN Stop(u, "noParentNode")
                      ELSE IF q \in DOMAIN u.tree \/ (shown /\ ~u.tree[path].item)
                        THEN Stop(u, "torn")
                      ELSE UpdateIfSame(made, w, path)
<1>1. CASE path = <<>>
  <2>1. o = Outcome(r, Stop(u, "noRoot"), FALSE) /\ "noRoot" \in Status \ {"running", "dangling"}
    BY <1>1 DEF CreateKey, Status
  <2> QED
    BY <2>1, StoppedOutcome
<1>2. CASE path # <<>>
  <2>1. o \in {Outcome(r, u, FALSE), Outcome(made, created, created.status = "running")}
    BY <1>2 DEF CreateKey
  <2>2. q \in Path /\ made \in SUBSET Path
    BY ChildPath, Beginnings
  <2>3. Sound(created) /\ (RowsLive(u) => RowsLive(created))
    <3> HIDE DEF made
    <3>1. {"noParentNode", "torn"} \subseteq Status \ {"running", "dangling"} /\ IsUI(u)
      BY DEF Status, Sound
    <3>2. ASSUME path \in DOMAIN u.tree
          PROVE  /\ Sound(UpdateIfSame(made, w, path))
                 /\ RowsLive(u) => RowsLive(UpdateIfSame(made, w, path))
      <4>1. IsTree(u.tree) /\ Closed(u.tree)
        BY UIFields DEF Sound
      <4>2. node \in Node
        <5>1. Append(u.tree[path].full, name) \in Path
          BY <3>2, <4>1, NodeFields, ChildPath
        <5> QED
          BY <2>2, <5>1, BareNodeType
      <4> HIDE DEF node, shown
      <4>3. child \in Node
        BY <4>2, AddItemType
      <4> HIDE DEF child
      <4>4. IsTree(added) /\ Closed(added) /\ DOMAIN u.tree \subseteq DOMAIN added
        BY <3>2, <4>1, <4>3, AddChildTree
      <4> HIDE DEF added
      <4>5. Sound(w) /\ (RowsLive(u) => RowsLive(w))
        BY <4>4, GrowSound
      <4> HIDE DEF w
      <4> QED
        BY <4>5, UpdateIfSameSound
    <3> HIDE DEF q, shown, w
    <3> QED
      BY <3>1, <3>2, StopSound
  <2> HIDE DEF made, created
  <2>4. GoodOutcome(u, path, Outcome(made, created, created.status = "running"))
    BY <1>2, <2>2, <2>3, OutcomeFields DEF GoodOutcome
  <2> QED
    BY <2>1, <2>4, RefusedOutcome
<1> QED
  BY <1>1, <1>2

(* RegistryManager::DeleteKey, the undo of a creation.                     *)
LEMMA DeleteKeyGood ==
  ASSUME NEW r \in SUBSET Path, NEW u, Sound(u), u.status = "running",
         NEW path \in Path, NEW name \in Name, NEW o \in DeleteKey(r, u, path, name)
  PROVE  GoodOutcome(u, path, o)
<1> DEFINE q       == Append(path, name)
           left    == r \ {q}
           dead    == [u EXCEPT !.tree = KillHandles(u.tree, q)]
           deleted == IF path \notin DOMAIN u.tree THEN {Stop(dead, "noParentNode")}
                      ELSE IF q \notin DOMAIN u.tree THEN {Stop(dead, "noChildNode")}
                      ELSE {UpdateIfSame(left, v, path) : v \in DeleteItem(left, dead, q)}
<1>1. CASE path = <<>>
  <2>1. o = Outcome(r, Stop(u, "noRoot"), FALSE) /\ "noRoot" \in Status \ {"running", "dangling"}
    BY <1>1 DEF DeleteKey, Status
  <2> QED
    BY <2>1, StoppedOutcome
<1>2. CASE path # <<>>
  <2>1. \/ o = Outcome(r, u, FALSE)
        \/ \E v \in deleted : o = Outcome(left, v, v.status = "running")
    BY <1>2 DEF DeleteKey
  <2>2. /\ q \in Path /\ q # <<>> /\ Front(q) = path /\ left \in SUBSET Path
    BY ChildPath
  <2>3. /\ Sound(dead) /\ (RowsLive(u) => RowsLive(dead)) /\ DOMAIN dead.tree = DOMAIN u.tree
        /\ dead.status = "running" /\ IsUI(dead)
    BY KillHandlesSound DEF Sound
  <2>4. ASSUME NEW v \in deleted PROVE Sound(v) /\ (RowsLive(u) => RowsLive(v))
    <3> HIDE DEF dead, q, left
    <3>1. CASE v \in {Stop(dead, "noParentNode"), Stop(dead, "noChildNode")}
      <4>1. {"noParentNode", "noChildNode"} \subseteq Status \ {"running", "dangling"}
        BY DEF Status
      <4> QED
        BY <2>3, <3>1, <4>1, StopSound
    <3>2. CASE v \notin {Stop(dead, "noParentNode"), Stop(dead, "noChildNode")}
      <4>1. /\ q \in DOMAIN u.tree
            /\ \E x \in DeleteItem(left, dead, q) : v = UpdateIfSame(left, x, path)
        BY <2>4, <3>2
      <4>2. PICK x \in DeleteItem(left, dead, q) : v = UpdateIfSame(left, x, path)
        BY <4>1
      <4>3. Sound(x) /\ (RowsLive(dead) /\ x.cur # path => RowsLive(x))
        BY <2>2, <2>3, <4>1, DeleteItemSound
      <4>4. /\ Sound(v)
            /\ (RowsLive(x) \/ path \in {NoNode, x.cur}) => RowsLive(v)
        BY <4>2, <4>3, UpdateIfSameSound
      <4> QED
        BY <2>3, <4>3, <4>4
    <3> QED
      BY <3>1, <3>2
  <2>5. ASSUME NEW v \in deleted
        PROVE  GoodOutcome(u, path, Outcome(left, v, v.status = "running"))
    <3> HIDE DEF deleted, left
    <3> QED
      BY <1>2, <2>2, <2>4, <2>5, OutcomeFields DEF GoodOutcome
  <2> HIDE DEF deleted, left
  <2> QED
    BY <2>1, <2>5, RefusedOutcome
<1> QED
  BY <1>1, <1>2

(* RegistryManager::RenameKey.                                             *)
LEMMA RenameKeyGood ==
  ASSUME NEW r \in SUBSET Path, NEW u, Sound(u), u.status = "running",
         NEW path \in Path, NEW name \in Name, NEW o \in RenameKey(r, u, path, name)
  PROVE  GoodOutcome(u, path, o)
<1> DEFINE q       == Append(Front(path), name)
           moved   == {Rebase(path, q, x) : x \in r}
           handles == [u EXCEPT !.tree = MoveHandles(u.tree, path, q)]
           renamed == IF path \notin DOMAIN u.tree THEN handles
                      ELSE IF q \in DOMAIN u.tree THEN Stop(handles, "torn")
                      ELSE MoveNode(handles, path, q)
<1>1. CASE path = <<>>
  <2>1. o = Outcome(r, Stop(u, "noRoot"), FALSE) /\ "noRoot" \in Status \ {"running", "dangling"}
    BY <1>1 DEF RenameKey, Status
  <2> QED
    BY <2>1, StoppedOutcome
<1>2. CASE path # <<>>
  <2>1. \/ o = Outcome(r, u, FALSE)
        \/ o = Outcome(moved, renamed, renamed.status = "running")
    BY <1>2 DEF RenameKey
  <2>2. q \in Path /\ moved \in SUBSET Path
    BY <1>2, FrontPath, ChildPath, RebaseType
  <2>3. Sound(renamed) /\ (RowsLive(u) => RowsLive(renamed))
    <3>1. /\ Sound(handles) /\ (RowsLive(u) => RowsLive(handles))
          /\ DOMAIN handles.tree = DOMAIN u.tree /\ handles.status = "running" /\ IsUI(handles)
      BY <2>2, MoveHandlesSound DEF Sound
    <3> HIDE DEF handles
    <3>2. ASSUME path \in DOMAIN u.tree, q \notin DOMAIN u.tree
          PROVE  /\ Sound(MoveNode(handles, path, q))
                 /\ RowsLive(handles) => RowsLive(MoveNode(handles, path, q))
      BY <1>2, <3>1, <3>2, MoveNodeSound
    <3>3. "torn" \in Status \ {"running", "dangling"}
      BY DEF Status
    <3> HIDE DEF q
    <3> QED
      BY <3>1, <3>2, <3>3, StopSound
  <2> HIDE DEF moved, renamed
  <2>4. GoodOutcome(u, path, Outcome(moved, renamed, renamed.status = "running"))
    BY <1>2, <2>2, <2>3, OutcomeFields DEF GoodOutcome
  <2> QED
    BY <2>1, <2>4, RefusedOutcome
<1> QED
  BY <1>1, <1>2

(* A command executed or undone.                                           *)
LEMMA CommandGood ==
  ASSUME NEW r \in SUBSET Path, NEW u, Sound(u), u.status = "running", NEW c \in Command
  PROVE  /\ \A o \in Execute(r, u, c) : GoodOutcome(u, c.path, o)
         /\ \A o \in UndoCommand(r, u, c) : GoodOutcome(u, c.path, o)
<1>1. c.path \in Path /\ c.name \in Name
  BY DEF Command
<1> QED
  BY <1>1, CreateKeyGood, DeleteKeyGood, RenameKeyGood DEF Execute, UndoCommand

LEMMA DoneType ==
  ASSUME NEW c \in Command, c.path # <<>>
  PROVE  Done(c) \in Command
<1>1. c.path \in Path /\ c.name \in Name
  BY DEF Command
<1>2. Append(Front(c.path), c.name) \in Path /\ Last(c.path) \in Name
  BY <1>1, ParentPath, ChildPath
<1> QED
  BY <1>2 DEF Done, Command

-----------------------------------------------------------------------------
(* Growth: what the functions that only add nodes to the tree keep.        *)

(* Every node stands where its key is, and its key exists.                 *)
AtHome(r, t) == \A p \in DOMAIN t : t[p].at = p /\ p \in r

(* Node p lists the subkeys of its key, the backup key aside; every node   *)
(* that lists anything does.                                               *)
Listed(r, t, p) == SubKeys(r, p) \ {DeletedKey} \subseteq Kids(t, p)
Complete(r, t)  == \A p \in DOMAIN t : Kids(t, p) # {} => Listed(r, t, p)

(* The nodes' _full is what o says, and what o says of the keys that have  *)
(* no node yet is what SetParent will make of it.                          *)
Named(r, o, t) ==
  /\ \A p \in DOMAIN t : t[p].full = o[p]
  /\ \A p \in Path, x \in Name :
       Append(p, x) \in r \ DOMAIN t => o[Append(p, x)] = Append(o[p], x)

Grows(r, t, v) ==
  /\ DOMAIN t \subseteq DOMAIN v
  /\ AtHome(r, t) => AtHome(r, v)
  /\ AtHome(r, t) /\ Complete(r, t) => Complete(r, v)
  /\ \A o : AtHome(r, t) /\ Named(r, o, t) => Named(r, o, v)

LEMMA GrowsTransitive ==
  ASSUME NEW r, NEW t, NEW v, NEW w, Grows(r, t, v), Grows(r, v, w)
  PROVE  Grows(r, t, w)
  BY DEF Grows

(* A tree with the same nodes, handles and texts.                          *)
LEMMA SameGrows ==
  ASSUME NEW r, NEW t, NEW v, DOMAIN v = DOMAIN t,
         \A p \in DOMAIN t : v[p].at = t[p].at /\ v[p].full = t[p].full
  PROVE  Grows(r, t, v)
<1>1. \A p : Kids(v, p) = Kids(t, p)
  BY DEF Kids
<1>2. AtHome(r, t) => AtHome(r, v)
  BY DEF AtHome
<1>3. Complete(r, t) => Complete(r, v)
  BY <1>1 DEF Complete, Listed
<1>4. ASSUME NEW o, Named(r, o, t) PROVE Named(r, o, v)
  BY <1>4 DEF Named
<1> QED
  BY <1>2, <1>3, <1>4 DEF Grows

(* A node more or several below node p, all of them keys and with them all *)
(* the keys there are.                                                     *)
LEMMA AddChildrenGrows ==
  ASSUME NEW r, NEW t, IsTree(t), Closed(t), NEW p \in DOMAIN t, NEW names \in SUBSET Name,
         t[p].at = p => names \subseteq SubKeys(r, p),
         t[p].at = p => SubKeys(r, p) \ {DeletedKey} \subseteq Kids(t, p) \union names
  PROVE  Grows(r, t, AddChildren(t, p, names))
<1> DEFINE v == AddChildren(t, p, names)
<1>1. /\ DOMAIN v = DOMAIN t \union {Append(p, x) : x \in names}
      /\ \A q \in DOMAIN t : v[q] = t[q]
      /\ \A q \in DOMAIN v \ DOMAIN t :
           v[q] = BareNode(Append(t[p].at, Last(q)), Append(t[p].full, Last(q)))
  BY DEF AddChildren
<1> HIDE DEF v
<1>2. p \in Path /\ DOMAIN t \subseteq Path
  BY DEF IsTree
<1>3. ASSUME NEW q \in DOMAIN v \ DOMAIN t
      PROVE  /\ \E x \in names : q = Append(p, x)
             /\ Last(q) \in names /\ q = Append(p, Last(q)) /\ Front(q) = p
             /\ v[q].at = Append(t[p].at, Last(q)) /\ v[q].full = Append(t[p].full, Last(q))
  <2>1. PICK x \in names : q = Append(p, x)
    BY <1>1
  <2>2. Last(q) = x /\ Front(q) = p
    BY <1>2, <2>1, ChildPath
  <2> QED
    <3>1. v[q] = BareNode(Append(t[p].at, x), Append(t[p].full, x))
      BY <1>1, <2>2
    <3> QED
      BY <2>1, <2>2, <3>1 DEF BareNode
<1>4. ASSUME AtHome(r, t) PROVE AtHome(r, v)
  <2>1. ASSUME NEW q \in DOMAIN v PROVE v[q].at = q /\ q \in r
    <3>1. CASE q \in DOMAIN t
      BY <1>1, <1>4, <3>1 DEF AtHome
    <3>2. CASE q \notin DOMAIN t
      <4>1. Last(q) \in SubKeys(r, p) /\ t[p].at = p
        BY <1>3, <1>4, <3>2 DEF AtHome
      <4> QED
        BY <1>3, <3>2, <4>1 DEF SubKeys
    <3> QED
      BY <3>1, <3>2
  <2> QED
    BY <2>1 DEF AtHome
<1>5. Kids(v, p) = Kids(t, p) \union names
  <2>1. ASSUME NEW x \in Kids(v, p) PROVE x \in Kids(t, p) \union names
    <3>1. x \in Name /\ Append(p, x) \in DOMAIN v /\ Last(Append(p, x)) = x
      BY <1>2, ChildPath DEF Kids
    <3> QED
      BY <1>3, <3>1 DEF Kids
  <2> QED
    BY <1>1, <2>1 DEF Kids
<1>6. ASSUME NEW q \in DOMAIN v, q # p
      PROVE  (q \in DOMAIN t /\ Kids(v, q) = Kids(t, q)) \/ Kids(v, q) = {}
  <2>1. q \in Path
    BY <1>1, <1>2, ChildPath
  <2>2. ASSUME NEW x \in Kids(v, q) PROVE q \in DOMAIN t /\ x \in Kids(t, q)
    <3>1. x \in Name /\ Append(q, x) \in DOMAIN v /\ Front(Append(q, x)) = q
      BY <2>1, ChildPath DEF Kids
    <3>2. Append(q, x) \in DOMAIN t
      BY <1>3, <1>6, <3>1
    <3>3. IsPrefix(q, Append(q, x))
      BY <2>1, <3>1, PrefixOfChild, PrefixReflexive
    <3> QED
      BY <2>1, <3>1, <3>2, <3>3 DEF Closed, Kids
  <2>3. Kids(t, q) \subseteq Kids(v, q)
    BY <1>1 DEF Kids
  <2> QED
    BY <2>2, <2>3
<1>7. ASSUME AtHome(r, t), Complete(r, t) PROVE Complete(r, v)
  <2>1. ASSUME NEW q \in DOMAIN v, Kids(v, q) # {} PROVE Listed(r, v, q)
    <3>1. CASE q = p
      <4>1. t[p].at = p
        BY <1>7 DEF AtHome
      <4> QED
        BY <1>5, <3>1, <4>1 DEF Listed
    <3>2. CASE q # p
      BY <1>6, <1>7, <2>1, <3>2 DEF Complete, Listed
    <3> QED
      BY <3>1, <3>2
  <2> QED
    BY <2>1 DEF Complete
<1>8. ASSUME NEW o, AtHome(r, t), Named(r, o, t) PROVE Named(r, o, v)
  <2>1. ASSUME NEW q \in DOMAIN v PROVE v[q].full = o[q]
    <3>1. CASE q \in DOMAIN t
      BY <1>1, <1>8, <3>1 DEF Named
    <3>2. CASE q \notin DOMAIN t
      <4>1. Last(q) \in Name /\ q = Append(p, Last(q)) /\ q \in r
        BY <1>3, <1>4, <1>8, <3>2 DEF AtHome
      <4>2. o[q] = Append(o[p], Last(q))
        BY <1>2, <1>8, <3>2, <4>1 DEF Named
      <4>3. t[p].full = o[p]
        BY <1>8 DEF Named
      <4> QED
        BY <1>3, <3>2, <4>2, <4>3
    <3> QED
      BY <3>1, <3>2
  <2>2. ASSUME NEW q \in Path, NEW x \in Name, Append(q, x) \in r \ DOMAIN v
        PROVE  o[Append(q, x)] = Append(o[q], x)
    BY <1>1, <1>8, <2>2 DEF Named
  <2> QED
    BY <2>1, <2>2 DEF Named
<1> QED
  BY <1>1, <1>4, <1>7, <1>8 DEF Grows, v

LEMMA GrowsReflexive ==
  ASSUME NEW r, NEW t
  PROVE  Grows(r, t, t)
  BY DEF Grows

(* RegKeyTreeNode::Expand lists the node; a node that was listed has no    *)
(* new children, nor has any other.                                        *)
LEMMA ExpandGrows ==
  ASSUME NEW r, NEW t, IsTree(t), Closed(t), NEW p \in DOMAIN t
  PROVE  /\ Grows(r, t, Expand(r, t, p))
         /\ AtHome(r, t) /\ Complete(r, t) => Listed(r, Expand(r, t, p), p)
         /\ \A c \in DOMAIN t : AtHome(r, t) /\ Listed(r, t, c)
              => KidPaths(Expand(r, t, p), c) = KidPaths(t, c)
<1> DEFINE listed == IF t[p].at = Gone THEN {} ELSE SubKeys(r, t[p].at) \ {DeletedKey}
           v == AddChildren(t, p, listed)
           w == [v EXCEPT ![p].expanded = TRUE]
<1>1. CASE Kids(t, p) # {}
  <2>1. Expand(r, t, p) = t
    BY <1>1 DEF Expand
  <2> QED
    BY <1>1, <2>1, GrowsReflexive DEF Complete
<1>2. CASE Kids(t, p) = {}
  <2>1. Expand(r, t, p) = w
    BY <1>2 DEF Expand
  <2>2. /\ listed \in SUBSET Name
        /\ t[p].at = p => listed = SubKeys(r, p) \ {DeletedKey}
    <3>1. p # Gone
      BY DistinctAssumption DEF IsTree
    <3> QED
      BY <3>1 DEF SubKeys
  <2> HIDE DEF listed
  <2>3. Grows(r, t, v)
    BY <2>2, AddChildrenGrows
  <2>4. DOMAIN v = DOMAIN t \union {Append(p, x) : x \in listed}
    BY DEF AddChildren
  <2> HIDE DEF v
  <2>5. DOMAIN w = DOMAIN v /\ \A q \in DOMAIN v : w[q].at = v[q].at /\ w[q].full = v[q].full
    BY DEF Node
  <2> HIDE DEF w
  <2>6. Grows(r, v, w)
    BY <2>5, SameGrows
  <2>7. ASSUME AtHome(r, t) PROVE Listed(r, w, p)
    <3>1. t[p].at = p
      BY <2>7 DEF AtHome
    <3> QED
      BY <2>2, <2>4, <2>5, <3>1 DEF Listed, Kids
  <2>8. ASSUME NEW c \in DOMAIN t, AtHome(r, t), Listed(r, t, c)
        PROVE  KidPaths(w, c) = KidPaths(t, c)
    <3>1. ASSUME NEW x \in Name, Append(c, x) \in DOMAIN w PROVE Append(c, x) \in DOMAIN t
      <4>1. CASE Append(c, x) \in {Append(p, y) : y \in listed}
        <5>1. PICK y \in listed : Append(c, x) = Append(p, y)
          BY <4>1
        <5>2. c \in Path /\ p \in Path /\ y \in Name
          BY <2>2 DEF IsTree
        <5>3. c = p /\ x = y
          <6>1. Front(Append(c, x)) = c /\ Last(Append(c, x)) = x
            BY <5>2, ChildPath
          <6>2. Front(Append(p, y)) = p /\ Last(Append(p, y)) = y
            BY <5>2, ChildPath
          <6> QED
            BY <5>1, <6>1, <6>2
        <5>4. t[p].at = p
          BY <2>8 DEF AtHome
        <5> QED
          BY <1>2, <2>2, <2>8, <5>3, <5>4 DEF Listed
      <4> QED
        BY <2>4, <2>5, <3>1, <4>1
    <3> QED
      BY <2>4, <2>5, <3>1 DEF KidPaths, Kids
  <2> QED
    BY <2>1, <2>3, <2>6, <2>7, <2>8, GrowsTransitive
<1> QED
  BY <1>1, <1>2

(* The list view shows the children of its node, which are all there are.  *)
Shows(r, u) ==
  u.status = "running" => u.rows = KidPaths(u.tree, u.cur) /\ Listed(r, u.tree, u.cur)

Trees(r, u) == AtHome(r, u.tree) /\ Complete(r, u.tree)

Keeps(r, u, v) == Grows(r, u.tree, v.tree) /\ (Trees(r, u) /\ Shows(r, u) => Shows(r, v))

LEMMA KeepsTransitive ==
  ASSUME NEW r, NEW u, NEW v, NEW w, Keeps(r, u, v), Keeps(r, v, w)
  PROVE  Keeps(r, u, w)
<1>1. Grows(r, u.tree, w.tree)
  BY GrowsTransitive DEF Keeps
<1>2. Trees(r, u) => Trees(r, v)
  BY DEF Keeps, Grows, Trees
<1> QED
  BY <1>1, <1>2 DEF Keeps

LEMMA StopFields ==
  ASSUME NEW u, IsUI(u), NEW why
  PROVE  /\ Stop(u, why).tree = u.tree /\ Stop(u, why).status = why
         /\ Stop(u, why).sel = u.sel /\ Stop(u, why).cur = u.cur
  BY DEF Stop, IsUI

LEMMA StopKeeps ==
  ASSUME NEW r, NEW u, IsUI(u), NEW why, why # "running"
  PROVE  Grows(r, u.tree, Stop(u, why).tree) /\ Shows(r, Stop(u, why))
  BY StopFields, GrowsReflexive DEF Shows

LEMMA UpdateGrows ==
  ASSUME NEW r, NEW u, IsUI(u), NEW p,
         u.status = "running" => Closed(u.tree) /\ p \in DOMAIN u.tree
  PROVE  /\ Grows(r, u.tree, Update(r, u, p).tree)
         /\ Trees(r, u) => Shows(r, Update(r, u, p))
<1> DEFINE v == Update(r, u, p)
           t == Expand(r, u.tree, p)
           w == [u EXCEPT !.tree = t, !.cur = p, !.rows = KidPaths(t, p)]
<1>1. CASE u.status # "running"
  <2>1. v = u
    BY <1>1 DEF Update
  <2> QED
    BY <1>1, <2>1, GrowsReflexive DEF Shows
<1>2. CASE u.status = "running" /\ t[p].at = Gone
  <2>1. v = Stop(u, "hung")
    BY <1>2 DEF Update
  <2> QED
    BY <2>1, StopKeeps
<1>3. CASE u.status = "running" /\ t[p].at # Gone
  <2>1. v = w
    BY <1>3 DEF Update
  <2>2. Grows(r, u.tree, t) /\ (Trees(r, u) => Listed(r, t, p))
    BY <1>3, UIFields, ExpandGrows DEF Trees
  <2> HIDE DEF t
  <2>3. w.tree = t /\ w.cur = p /\ w.rows = KidPaths(t, p)
    BY DEF IsUI
  <2> HIDE DEF w, v
  <2>4. Grows(r, u.tree, v.tree) /\ (Trees(r, u) => Shows(r, v))
    BY <2>1, <2>2, <2>3 DEF Shows
  <2> QED
    BY <2>4 DEF v
<1> QED
  BY <1>1, <1>2, <1>3

LEMMA UpdateIfSameGrows ==
  ASSUME NEW r, NEW u, Sound(u), NEW p
  PROVE  /\ Grows(r, u.tree, UpdateIfSame(r, u, p).tree)
         /\ Trees(r, u) /\ (Shows(r, u) \/ p \in {NoNode, u.cur})
              => Shows(r, UpdateIfSame(r, u, p))
<1>1. /\ Grows(r, u.tree, Update(r, u, u.cur).tree)
      /\ Trees(r, u) => Shows(r, Update(r, u, u.cur))
  BY UpdateGrows DEF Sound
<1> QED
  BY <1>1, GrowsReflexive DEF UpdateIfSame

LEMMA SelectGrows ==
  ASSUME NEW r, NEW u, IsUI(u), Closed(u.tree), NEW p \in DOMAIN u.tree
  PROVE  /\ Grows(r, u.tree, Select(r, u, p).tree)
         /\ Trees(r, u) /\ (Shows(r, u) \/ p # u.sel) => Shows(r, Select(r, u, p))
<1>1. CASE p = u.sel
  BY <1>1, GrowsReflexive DEF Select
<1>2. CASE p # u.sel
  <2>1. PICK w : w = [u EXCEPT !.sel = p, !.under = <<>>]
    OBVIOUS
  <2>2. Select(r, u, p) = Update(r, w, p)
    BY <1>2, <2>1 DEF Select
  <2>3. IsUI(w) /\ w.tree = u.tree
    BY <2>1, EmptySeq DEF IsUI, IsTree, Path
  <2> QED
    BY <1>2, <2>2, <2>3, UpdateGrows DEF Trees
<1> QED
  BY <1>1, <1>2

LEMMA SelectMarkGrows ==
  ASSUME NEW r, NEW u, IsUI(u), Closed(u.tree), u.cur \in DOMAIN u.tree, NEW p \in Path
  PROVE  /\ Grows(r, u.tree, SelectMark(r, u, p).tree)
         /\ Trees(r, u) /\ (Shows(r, u) \/ ~(u.sel = NoNode /\ u.under = p))
              => Shows(r, SelectMark(r, u, p))
<1>1. CASE u.sel = NoNode /\ u.under = p
  BY <1>1, GrowsReflexive DEF SelectMark
<1>2. CASE ~(u.sel = NoNode /\ u.under = p)
  <2>1. PICK w : w = [u EXCEPT !.sel = NoNode, !.under = p]
    OBVIOUS
  <2>2. SelectMark(r, u, p) = Update(r, w, u.cur)
    BY <1>2, <2>1 DEF SelectMark
  <2>3. IsUI(w) /\ w.tree = u.tree
    BY <2>1 DEF IsUI
  <2> QED
    BY <1>2, <2>2, <2>3, UpdateGrows DEF Trees
<1> QED
  BY <1>1, <1>2

LEMMA ExpandItemKeeps ==
  ASSUME NEW r, NEW u, Sound(u), u.status = "running", NEW p \in DOMAIN u.tree
  PROVE  Keeps(r, u, ExpandItem(r, u, p))
<1> DEFINE t == Expand(r, u.tree, p)
           node(q) == IF q \in KidPaths(t, p) THEN AddItem(r, t[q])
                      ELSE IF q = p THEN [t[q] EXCEPT !.mark = "none"]
                      ELSE t[q]
           opened == [q \in DOMAIN t |-> node(q)]
           w == [u EXCEPT !.tree = opened]
<1>1. IsUI(u) /\ IsTree(u.tree) /\ Closed(u.tree) /\ u.cur \in DOMAIN u.tree
  BY UIFields DEF Sound
<1>2. \/ ExpandItem(r, u, p) = Stop(u, "torn")
      \/ ExpandItem(r, u, p) = w
  BY DEF ExpandItem
<1>3. /\ Grows(r, u.tree, t)
      /\ Trees(r, u) /\ Listed(r, u.tree, u.cur) => KidPaths(t, u.cur) = KidPaths(u.tree, u.cur)
  BY <1>1, ExpandGrows DEF Trees
<1>4. IsTree(t)
  BY <1>1, ExpandTree
<1> HIDE DEF t
<1>5. ASSUME NEW q \in DOMAIN t PROVE node(q).at = t[q].at /\ node(q).full = t[q].full
  BY <1>4, NodeFields DEF AddItem, Node
<1>6. DOMAIN opened = DOMAIN t /\ \A q \in DOMAIN t : opened[q] = node(q)
  OBVIOUS
<1> HIDE DEF opened, node
<1>7. Grows(r, t, opened)
  BY <1>5, <1>6, SameGrows
<1>8. Grows(r, u.tree, opened)
  BY <1>3, <1>7, GrowsTransitive
<1>9. w.tree = opened /\ w.cur = u.cur /\ w.rows = u.rows /\ w.status = u.status
  BY <1>1 DEF IsUI
<1> HIDE DEF w
<1>10. ASSUME Trees(r, u), Shows(r, u) PROVE Shows(r, w)
  <2>1. KidPaths(t, u.cur) = KidPaths(u.tree, u.cur) /\ u.rows = KidPaths(u.tree, u.cur)
    BY <1>3, <1>10 DEF Shows
  <2>2. KidPaths(opened, u.cur) = KidPaths(t, u.cur)
    BY <1>6 DEF KidPaths, Kids
  <2>3. Listed(r, opened, u.cur)
    BY <1>8, <1>10 DEF Shows, Listed, Kids, Grows
  <2> QED
    BY <1>9, <2>1, <2>2, <2>3 DEF Shows
<1> QED
  BY <1>1, <1>2, <1>8, <1>9, <1>10, StopKeeps DEF Keeps

LEMMA OpenItemKeeps ==
  ASSUME NEW r, NEW u, Sound(u), u.status = "running", NEW p \in DOMAIN u.tree
  PROVE  Keeps(r, u, OpenItem(r, u, p))
<1> DEFINE t == [u.tree EXCEPT ![p].mark = "shown"]
           w == [u EXCEPT !.tree = t]
<1>1. CASE HasChildren(r, u.tree[p].at)
  BY <1>1, ExpandItemKeeps DEF OpenItem
<1>2. CASE ~HasChildren(r, u.tree[p].at)
  <2>1. OpenItem(r, u, p) = w
    BY <1>2, UIFields DEF OpenItem, Sound, IsUI
  <2>2. IsUI(u) /\ IsTree(u.tree)
    BY UIFields DEF Sound
  <2>3. DOMAIN t = DOMAIN u.tree
        /\ \A q \in DOMAIN t : t[q].at = u.tree[q].at /\ t[q].full = u.tree[q].full
    BY <2>2 DEF IsTree, Node
  <2> HIDE DEF t
  <2>4. Grows(r, u.tree, t)
    BY <2>3, SameGrows
  <2>5. w.tree = t /\ w.cur = u.cur /\ w.rows = u.rows /\ w.status = u.status
    BY <2>2 DEF IsUI
  <2> HIDE DEF w
  <2>6. KidPaths(t, u.cur) = KidPaths(u.tree, u.cur) /\ Kids(t, u.cur) = Kids(u.tree, u.cur)
    BY <2>3 DEF KidPaths, Kids
  <2> QED
    BY <2>1, <2>4, <2>5, <2>6 DEF Keeps, Shows, Listed
<1> QED
  BY <1>1, <1>2

LEMMA SelectNodeKeeps ==
  ASSUME NEW r, NEW u, Sound(u), u.status = "running",
         NEW q \in DOMAIN u.tree, Front(q) \in DOMAIN u.tree
  PROVE  Keeps(r, u, SelectNode(r, u, q))
<1> DEFINE p      == Front(q)
           opened == IF u.tree[p].mark = "closed" THEN OpenItem(r, u, p) ELSE u
           chosen == Select(r, opened, q)
<1>1. Sound(opened) /\ Keeps(r, u, opened)
  <2>1. Keeps(r, u, u)
    BY GrowsReflexive DEF Keeps
  <2> QED
    BY <2>1, OpenItemSound, OpenItemKeeps
<1>2. opened.status = "running" => q \in DOMAIN opened.tree
  BY <1>1 DEF Keeps, Grows
<1>3. SelectNode(r, u, q) =
        IF opened.status # "running" THEN opened
        ELSE IF ~opened.tree[q].item THEN Stop(opened, "noItem")
        ELSE IF chosen.status = "running" /\ chosen.tree[q].mark # "none"
          THEN ExpandItem(r, chosen, q)
        ELSE chosen
  BY DEF SelectNode
<1> HIDE DEF opened
<1>4. ASSUME opened.status = "running"
      PROVE  /\ Sound(chosen) /\ Keeps(r, opened, chosen)
             /\ chosen.status = "running" => q \in DOMAIN chosen.tree
  <2>1. q \in Path /\ q # NoNode /\ IsUI(opened) /\ Closed(opened.tree)
    BY <1>1, <1>2, <1>4, UIFields, DistinctAssumption DEF Sound, IsTree
  <2>2. Grows(r, opened.tree, chosen.tree) /\ (Trees(r, opened) /\ Shows(r, opened) => Shows(r, chosen))
    BY <1>2, <1>4, <2>1, SelectGrows
  <2>3. Sound(chosen)
    BY <1>1, <1>2, <1>4, <2>1, SelectSound DEF Sound
  <2> QED
    BY <1>2, <1>4, <2>2, <2>3 DEF Keeps, Grows
<1> HIDE DEF chosen
<1>5. opened.status = "running" => Keeps(r, u, chosen)
  BY <1>1, <1>4, KeepsTransitive
<1>6. ASSUME opened.status = "running", chosen.status = "running"
      PROVE  Keeps(r, u, ExpandItem(r, chosen, q))
  BY <1>4, <1>5, <1>6, ExpandItemKeeps, KeepsTransitive
<1>7. Keeps(r, u, Stop(opened, "noItem"))
  <2>1. Keeps(r, opened, Stop(opened, "noItem"))
    BY <1>1, StopKeeps DEF Keeps, Sound
  <2> QED
    BY <1>1, <2>1, KeepsTransitive
<1> QED
  BY <1>1, <1>3, <1>5, <1>6, <1>7

LEMMA UpdateUIKeeps ==
  ASSUME NEW r, NEW u, Sound(u), NEW allow
  PROVE  Keeps(r, u, UpdateUI(allow, u))
<1>1. Keeps(r, u, u)
  BY GrowsReflexive DEF Keeps
<1>2. Keeps(r, u, Stop(u, "noSelection"))
  BY StopKeeps DEF Keeps, Sound
<1> QED
  BY <1>1, <1>2 DEF UpdateUI

-----------------------------------------------------------------------------
(* Keys that move: what a rename does to a set of paths.                   *)

ClosedSet(S) == \A p \in S, q \in Path : IsPrefix(q, p) => q \in S

Moved(p, q, S) == {Rebase(p, q, y) : y \in S}

(* A key and the free name it gets beside its old one.                     *)
Sibling(p, q) ==
  /\ p \in Path /\ q \in Path /\ p # <<>> /\ q # <<>> /\ p # q /\ Front(q) = Front(p)

LEMMA PrefixOfNamed ==
  ASSUME NEW p \in Path, NEW q \in Path, q # <<>>
  PROVE  /\ IsPrefix(p, q) <=> IsPrefix(p, Front(q)) \/ p = q
         /\ ~IsPrefix(q, Front(q)) /\ Front(q) \in Path
<1>1. PICK a \in Path, n \in Name : q = Append(a, n)
  BY ParentPath
<1>2. Front(q) = a
  BY <1>1, ChildPath
<1>3. IsPrefix(p, Append(a, n)) <=> IsPrefix(p, a) \/ p = Append(a, n)
  BY PrefixOfChild
<1>4. ~IsPrefix(Append(a, n), a)
  BY PrefixOfChild
<1> QED
  BY <1>1, <1>2, <1>3, <1>4

LEMMA SiblingFacts ==
  ASSUME NEW p, NEW q, Sibling(p, q)
  PROVE  /\ Sibling(q, p) /\ ~IsPrefix(p, q) /\ ~IsPrefix(q, p)
         /\ Front(p) \in Path /\ ~IsPrefix(p, Front(p)) /\ IsPrefix(Front(p), p)
         /\ Last(p) \in Name /\ p = Append(Front(p), Last(p))
         /\ Last(q) \in Name /\ q = Append(Front(p), Last(q))
         /\ Rebase(p, q, Front(p)) = Front(p) /\ Rebase(p, q, p) = q
<1>1. /\ p \in Path /\ q \in Path /\ Front(p) \in Path /\ Last(p) \in Name /\ Last(q) \in Name
      /\ p = Append(Front(p), Last(p)) /\ q = Append(Front(p), Last(q)) /\ p # q
  BY ParentPath DEF Sibling
<1>2. /\ p # <<>> /\ q # <<>> /\ Front(q) = Front(p)
      /\ ~IsPrefix(p, Front(p)) /\ ~IsPrefix(q, Front(p)) /\ IsPrefix(Front(p), p)
  BY <1>1, PrefixOfNamed, PrefixReflexive DEF Sibling
<1>3. ~IsPrefix(p, q) /\ ~IsPrefix(q, p)
  BY <1>1, <1>2, PrefixOfNamed
<1>4. Rebase(p, q, Front(p)) = Front(p) /\ Rebase(p, q, p) = q
  BY <1>1, <1>2, RebaseElsewhere, RebaseChild
<1> QED
  BY <1>1, <1>2, <1>3, <1>4 DEF Sibling

(* Nothing is below the old place afterwards, and moving back is a move.   *)
LEMMA MovedBack ==
  ASSUME NEW p, NEW q, Sibling(p, q), NEW y \in Path, ~IsPrefix(q, y)
  PROVE  /\ Rebase(p, q, y) \in Path /\ ~IsPrefix(p, Rebase(p, q, y))
         /\ Rebase(q, p, Rebase(p, q, y)) = y
<1>1. p \in Path /\ q \in Path /\ ~IsPrefix(p, q) /\ ~IsPrefix(q, p)
  BY SiblingFacts DEF Sibling
<1>2. Rebase(q, p, Rebase(p, q, y)) = y /\ Rebase(p, q, y) \in Path
  BY <1>1, RebaseBack, RebaseType
<1>3. ~IsPrefix(p, Rebase(p, q, y))
  <2>1. CASE IsPrefix(p, y)
    <3>1. PICK s \in Path : y = Below(p, s)
      BY <1>1, <2>1, PrefixBelow
    <3>2. Rebase(p, q, y) = Below(q, s) /\ IsPrefix(q, Below(q, s)) /\ Below(q, s) \in Path
      BY <1>1, <3>1, RebaseBelow, BelowFacts
    <3> QED
      BY <1>1, <3>2, PrefixesCompare
  <2>2. CASE ~IsPrefix(p, y)
    BY <1>1, <2>2, RebaseElsewhere
  <2> QED
    BY <2>1, <2>2
<1> QED
  BY <1>2, <1>3

(* A closed set of keys stays closed, and moves back to what it was.       *)
LEMMA MovedSet ==
  ASSUME NEW p, NEW q, Sibling(p, q), NEW S \in SUBSET Path, ClosedSet(S), p \in S, q \notin S
  PROVE  /\ Moved(p, q, S) \in SUBSET Path /\ ClosedSet(Moved(p, q, S))
         /\ q \in Moved(p, q, S) /\ p \notin Moved(p, q, S)
         /\ Moved(q, p, Moved(p, q, S)) = S
         /\ \A y \in S : ~IsPrefix(q, y) /\ Rebase(q, p, Rebase(p, q, y)) = y
         /\ \A z \in Moved(p, q, S) :
              Rebase(q, p, z) \in S /\ Rebase(p, q, Rebase(q, p, z)) = z /\ ~IsPrefix(p, z)
<1> DEFINE M == Moved(p, q, S)
<1>1. /\ p \in Path /\ q \in Path /\ ~IsPrefix(p, q) /\ ~IsPrefix(q, p) /\ Front(p) \in S
      /\ Front(p) \in Path /\ ~IsPrefix(p, Front(p)) /\ Rebase(p, q, p) = q
      /\ Front(q) = Front(p) /\ q # <<>>
  BY SiblingFacts DEF Sibling, ClosedSet
<1>2. \A y \in S : ~IsPrefix(q, y)
  BY <1>1 DEF ClosedSet
<1>3. ASSUME NEW y \in S
      PROVE  /\ Rebase(p, q, y) \in Path /\ ~IsPrefix(p, Rebase(p, q, y))
             /\ Rebase(q, p, Rebase(p, q, y)) = y
  BY <1>2, MovedBack
<1>4. ASSUME NEW z \in M PROVE \E y \in S : z = Rebase(p, q, y)
  BY DEF Moved
<1>5. ASSUME NEW z \in M
      PROVE  Rebase(q, p, z) \in S /\ Rebase(p, q, Rebase(q, p, z)) = z /\ ~IsPrefix(p, z)
  BY <1>3, <1>4
<1>6. ASSUME NEW y \in S, NEW z \in Path, IsPrefix(z, Rebase(p, q, y))
      PROVE  z \in M
  <2>1. CASE ~IsPrefix(p, y)
    <3>1. Rebase(p, q, y) = y
      BY <1>1, <2>1, RebaseElsewhere
    <3>2. z \in S /\ ~IsPrefix(p, z)
      BY <1>1, <1>6, <2>1, <3>1, PrefixTransitive DEF ClosedSet
    <3>3. Rebase(p, q, z) = z
      BY <1>1, <3>2, RebaseElsewhere
    <3> QED
      BY <3>2, <3>3 DEF Moved
  <2>2. CASE IsPrefix(p, y) /\ ~IsPrefix(q, z)
    <3>1. PICK s \in Path : y = Below(p, s)
      BY <1>1, <2>2, PrefixBelow
    <3>2. Rebase(p, q, y) = Below(q, s)
      BY <1>1, <3>1, RebaseBelow
    <3>3. Below(q, s) \in Path /\ IsPrefix(q, Below(q, s)) /\ IsPrefix(z, Below(q, s))
      BY <1>1, <1>6, <3>2, BelowFacts
    <3>4. IsPrefix(z, q)
      BY <1>1, <2>2, <3>3, PrefixesCompare
    <3>5. z # q
      BY <1>1, <2>2, PrefixReflexive
    <3>6. IsPrefix(z, Front(p))
      BY <1>1, <3>4, <3>5, PrefixOfNamed
    <3>7. z \in S /\ ~IsPrefix(p, z)
      BY <1>1, <3>6, PrefixTransitive DEF ClosedSet
    <3>8. Rebase(p, q, z) = z
      BY <1>1, <3>7, RebaseElsewhere
    <3> QED
      BY <3>7, <3>8 DEF Moved
  <2>3. CASE IsPrefix(p, y) /\ IsPrefix(q, z)
    <3>1. PICK s \in Path : y = Below(p, s)
      BY <1>1, <2>3, PrefixBelow
    <3>2. PICK s1 \in Path : z = Below(q, s1)
      BY <1>1, <2>3, PrefixBelow
    <3>3. IsPrefix(Below(q, s1), Below(q, s))
      BY <1>1, <1>6, <3>1, <3>2, RebaseBelow
    <3>4. IsPrefix(Below(p, s1), Below(p, s))
      BY <1>1, <3>3, BelowPrefix
    <3>5. Below(p, s1) \in S
      BY <1>1, <3>1, <3>4, BelowFacts DEF ClosedSet
    <3> QED
      BY <1>1, <3>2, <3>5, RebaseBelow DEF Moved
  <2> QED
    BY <2>1, <2>2, <2>3
<1>7. M \in SUBSET Path /\ ClosedSet(M)
  BY <1>3, <1>4, <1>6 DEF ClosedSet
<1>8. q \in M /\ p \notin M
  BY <1>1, <1>5, PrefixReflexive DEF Moved
<1>9. Moved(q, p, M) = S
  <2>1. Moved(q, p, M) \subseteq S
    BY <1>5 DEF Moved
  <2>2. ASSUME NEW y \in S PROVE y \in Moved(q, p, M)
    BY <1>3 DEF Moved
  <2> QED
    BY <2>1, <2>2
<1> QED
  BY <1>2, <1>3, <1>5, <1>7, <1>8, <1>9

(* A child moves to a child of where its parent moves to.                  *)
LEMMA MovedChild ==
  ASSUME NEW p, NEW q, Sibling(p, q), NEW y \in Path, y # <<>>
  PROVE  /\ Front(Rebase(p, q, y)) = Rebase(p, q, Front(y)) /\ Rebase(p, q, y) # <<>>
         /\ y # p => Last(Rebase(p, q, y)) = Last(y)
<1>1. Front(y) \in Path /\ Last(y) \in Name /\ y = Append(Front(y), Last(y))
  BY ParentPath
<1>2. CASE y = p
  BY <1>2, SiblingFacts DEF Sibling
<1>3. CASE y # p
  <2>1. Rebase(p, q, y) = Append(Rebase(p, q, Front(y)), Last(y))
    <3>1. PICK a \in Path, n \in Name : a = Front(y) /\ n = Last(y) /\ y = Append(a, n)
      BY <1>1
    <3>2. p \in Path /\ q \in Path /\ Append(a, n) # p
      BY <1>3, <3>1 DEF Sibling
    <3>3. Rebase(p, q, Append(a, n)) = Append(Rebase(p, q, a), n)
      BY <3>2, RebaseChild
    <3> QED
      BY <3>1, <3>3
  <2>2. Rebase(p, q, Front(y)) \in Path
    BY <1>1, RebaseType DEF Sibling
  <2> QED
    BY <1>1, <2>1, <2>2, ChildPath
<1> QED
  BY <1>2, <1>3

-----------------------------------------------------------------------------
(* What is left of the tree when a node goes: either the view follows the  *)
(* selection, or nothing else changed.                                     *)

LEMMA DeleteItemShape ==
  ASSUME NEW r, NEW u, Sound(u), u.status = "running", NEW p \in DOMAIN u.tree, p # <<>>,
         NEW v \in DeleteItem(r, u, p), v.status = "running"
  PROVE  /\ Grows(r, Pruned(u.tree, p), v.tree)
         /\ AtHome(r, Pruned(u.tree, p)) /\ Complete(r, Pruned(u.tree, p)) =>
              \/ Shows(r, v)
              \/ /\ ~IsPrefix(p, u.cur)
                 /\ v.tree = Pruned(u.tree, p) /\ v.cur = u.cur /\ v.rows = u.rows
<1> DEFINE k == Pruned(u.tree, p)
<1>1. PICK left : left = [u EXCEPT !.tree = k]
  OBVIOUS
<1>2. /\ IsUI(u) /\ IsTree(u.tree) /\ Closed(u.tree) /\ u.cur \in DOMAIN u.tree
      /\ DOMAIN u.tree \subseteq Path
  BY UIFields DEF Sound, IsTree
<1>3. /\ IsTree(k) /\ Closed(k) /\ DOMAIN k = {q \in DOMAIN u.tree : ~IsPrefix(p, q)}
      /\ Front(p) \in DOMAIN k
  BY <1>2, PrunedTree DEF Pruned
<1> HIDE DEF k
<1>4. /\ IsUI(left) /\ left.tree = k /\ left.sel = u.sel /\ left.cur = u.cur /\ left.rows = u.rows
  BY <1>1, <1>2, <1>3, NewTree
<1>5. \A w : IsUI(w) => v # Stop(w, "dangling") /\ v # Stop(w, "wiped")
  BY StopFields
<1>6. CASE v = left /\ ~IsPrefix(p, u.cur)
  <2>1. Grows(r, k, v.tree)
    BY <1>4, <1>6, GrowsReflexive
  <2> QED
    BY <1>4, <1>6, <2>1 DEF k
<1>7. CASE /\ v = SelectMark(r, left, Front(p))
           /\ ~IsPrefix(p, u.cur) /\ ~(left.sel = NoNode /\ left.under = Front(p))
  <2>1. Front(p) \in Path /\ left.cur \in DOMAIN left.tree
    BY <1>2, <1>3, <1>4, <1>7
  <2>2. Grows(r, k, v.tree) /\ (Trees(r, left) => Shows(r, v))
    BY <1>3, <1>4, <1>7, <2>1, SelectMarkGrows
  <2> QED
    BY <1>4, <2>2 DEF Trees, k
<1>8. ASSUME NEW q \in DOMAIN left.tree, q # left.sel, v = Select(r, left, q)
      PROVE  Grows(r, k, v.tree) /\ (Trees(r, left) => Shows(r, v))
  BY <1>3, <1>4, <1>8, SelectGrows
<1>9. \/ v = left /\ ~IsPrefix(p, u.cur)
      \/ /\ v = SelectMark(r, left, Front(p))
         /\ ~IsPrefix(p, u.cur) /\ ~(left.sel = NoNode /\ left.under = Front(p))
      \/ \E q \in DOMAIN left.tree : q # left.sel /\ v = Select(r, left, q)
  <2>1. ItemDeleted(r, u, p, left, v)
    BY <1>1, DeleteItemCases DEF k
  <2>2. ASSUME NEW w, IsUI(w), v = Stop(w, "dangling") PROVE FALSE
    BY <1>5, <2>2
  <2>3. v # Stop(u, "wiped")
    BY <1>2, <1>5
  <2> QED
    BY <2>1, <2>2, <2>3, Zenon DEF ItemDeleted
<1> QED
  BY <1>4, <1>6, <1>7, <1>8, <1>9 DEF Trees, k

-----------------------------------------------------------------------------
(* The outcomes of the key operations: the registry refused and nothing    *)
(* changed, or the program stopped, or it is done.                         *)

Refused(r, u, o) == o.reg = r /\ o.ui = u /\ o.ok = FALSE
Stopped(o)       == o.ui.status # "running" /\ o.ok = FALSE

LEMMA OutcomeShape ==
  ASSUME NEW r, NEW u
  PROVE  /\ Refused(r, u, Outcome(r, u, FALSE))
         /\ \A o : o = Outcome(r, u, u.status = "running") =>
              /\ o.reg = r /\ o.ui = u
              /\ u.status = "running" => o.ok = TRUE
              /\ u.status # "running" => Stopped(o)
<1>1. Refused(r, u, Outcome(r, u, FALSE))
  BY DEF Refused, Outcome
<1>2. ASSUME NEW o, o = Outcome(r, u, u.status = "running"), u.status = "running"
      PROVE  o.reg = r /\ o.ui = u /\ o.ok = TRUE
  <2>1. o = Outcome(r, u, TRUE)
    BY <1>2
  <2> QED
    BY <2>1 DEF Outcome
<1>3. ASSUME NEW o, o = Outcome(r, u, u.status = "running"), u.status # "running"
      PROVE  o.reg = r /\ o.ui = u /\ Stopped(o)
  <2>1. o = Outcome(r, u, FALSE)
    BY <1>3
  <2>2. o.reg = r /\ o.ui = u /\ o.ok = FALSE
    BY <2>1 DEF Outcome
  <2> QED
    BY <1>3, <2>2 DEF Stopped
<1> QED
  BY <1>1, <1>2, <1>3

LEMMA StoppedShape ==
  ASSUME NEW r, NEW u, IsUI(u), NEW why, why # "running"
  PROVE  Stopped(Outcome(r, Stop(u, why), FALSE))
<1>1. Stop(u, why).status # "running"
  BY StopFields
<1> QED
  BY <1>1 DEF Stopped, Outcome

(* The path of a child, as an operator the provers leave alone.            *)
Child(p, x) == Append(p, x)

(* What a command that worked has done.  Each is one predicate, which the  *)
(* provers take as it is from the lemma that establishes it.               *)
NewItem(r, t, path, n) ==
  /\ ~n.expanded /\ (n.item <=> t[path].mark = "none")
  /\ n.mark = IF n.item /\ HasChildren(r, n.at) THEN "closed" ELSE "none"

Created(r, u, path, name, q, o) ==
  /\ o.ok = TRUE /\ o.ui.status = "running" /\ path # <<>>
  /\ path \in DOMAIN u.tree /\ q \notin DOMAIN u.tree
  /\ o.reg = r \union Prefixes(q)
  /\ \E w, n : /\ Sound(w) /\ w.status = "running" /\ w.cur = u.cur /\ w.rows = u.rows
               /\ w.sel = u.sel
               /\ w.tree = AddChild(u.tree, q, n)
               /\ n.at = q /\ n.full = Child(u.tree[path].full, name)
               /\ NewItem(o.reg, u.tree, path, n)
               /\ o.ui = UpdateIfSame(o.reg, w, path)

Deleted(r, u, path, q, dead, o) ==
  /\ o.ok = TRUE /\ o.ui.status = "running" /\ path # <<>>
  /\ path \in DOMAIN u.tree /\ q \in DOMAIN u.tree
  /\ q \in r /\ SubKeys(r, q) = {} /\ o.reg = r \ {q}
  /\ Sound(dead) /\ dead.status = "running" /\ dead.cur = u.cur /\ dead.rows = u.rows
  /\ dead.tree = KillHandles(u.tree, q)
  /\ \E v \in DeleteItem(o.reg, dead, q) :
       v.status = "running" /\ Sound(v) /\ o.ui = UpdateIfSame(o.reg, v, path)

SameItem(n, m) == (m.item <=> n.item) /\ m.mark = n.mark /\ (m.expanded <=> n.expanded)

(* The tree after RenameKey: a node at every place a node moves to, with   *)
(* the handle moved along, the _full it had and its item.                  *)
MovedTree(p, q, t, v) ==
  /\ DOMAIN v = Moved(p, q, DOMAIN t)
  /\ \A y \in DOMAIN t : /\ v[Rebase(p, q, y)].at = RebaseHandle(p, q, t[y].at)
                         /\ v[Rebase(p, q, y)].full = t[y].full
                         /\ SameItem(t[y], v[Rebase(p, q, y)])

KeyRenamed(r, u, path, q, o) ==
  /\ o.ok = TRUE /\ o.ui.status = "running" /\ path # <<>>
  /\ path \in r /\ q \notin r /\ Sibling(path, q) /\ o.reg = Moved(path, q, r)
  /\ path \in DOMAIN u.tree =>
       /\ q \notin DOMAIN u.tree
       /\ MovedTree(path, q, u.tree, o.ui.tree)
       /\ o.ui.cur = Rebase(path, q, u.cur) /\ o.ui.rows = Moved(path, q, u.rows)
       /\ u.sel # NoNode => o.ui.sel = Rebase(path, q, u.sel)
  /\ path \notin DOMAIN u.tree =>
       o.ui.tree = MoveHandles(u.tree, path, q)

(* There is room for a node at q below path.                               *)
Room(u, path, q) ==
  /\ path \in DOMAIN u.tree /\ q \notin DOMAIN u.tree
  /\ u.tree[path].mark = "none" => u.tree[path].item

(* The node q was added, and then the view did not come to an end.         *)
HungAt(u, q, o) ==
  /\ Stopped(o)
  /\ \E w, n, p : /\ Sound(w) /\ w.status = "running" /\ w.cur = u.cur
                  /\ w.tree = AddChild(u.tree, q, n) /\ o.ui = UpdateIfSame(o.reg, w, p)

LEMMA CreateCases ==
  ASSUME NEW r \in SUBSET Path, NEW u, Sound(u), u.status = "running",
         NEW path \in Path, NEW name \in Name, NEW o \in CreateKey(r, u, path, name),
         ~Refused(r, u, o), NEW q, q = Child(path, name)
  PROVE  \/ Stopped(o) /\ path = <<>> /\ o.ui.status = "noRoot"
         \/ Stopped(o) /\ ~Room(u, path, q)
         \/ HungAt(u, q, o)
         \/ Created(r, u, path, name, q, o)
<1> DEFINE d       == Append(path, name)
           made    == r \union {SubSeq(d, 1, n) : n \in 0 .. Len(d)}
           node    == BareNode(d, Append(u.tree[path].full, name))
           listed  == AddChild(u.tree, d, node)
           shown   == IsExpanded(listed, path)
           child   == IF shown THEN AddItem(made, node) ELSE node
           added   == AddChild(u.tree, d, child)
           w       == [u EXCEPT !.tree = added]
           created == IF path \notin DOMAIN u.tree THEN Stop(u, "noParentNode")
                      ELSE IF d \in DOMAIN u.tree \/ (shown /\ ~u.tree[path].item)
                        THEN Stop(u, "torn")
                      ELSE UpdateIfSame(made, w, path)
<1>1. CASE path = <<>>
  <2>1. o = Outcome(r, Stop(u, "noRoot"), FALSE) /\ IsUI(u)
    BY <1>1 DEF CreateKey, Sound
  <2>2. Stopped(o) /\ o.ui.status = "noRoot"
    BY <2>1, StoppedShape, StopFields DEF Outcome
  <2> QED
    BY <1>1, <2>2
<1>2. CASE path # <<>>
  <2>1. o \in {Outcome(r, u, FALSE), Outcome(made, created, created.status = "running")}
    BY <1>2 DEF CreateKey
  <2>2. Refused(r, u, Outcome(r, u, FALSE))
    BY OutcomeShape
  <2>3. IsTree(u.tree) /\ Closed(u.tree) /\ IsUI(u) /\ d \in Path /\ d \notin {NoNode, Gone}
    BY UIFields, ChildPath, DistinctAssumption DEF Sound
  <2> HIDE DEF created, made
  <2>4. o = Outcome(made, created, created.status = "running")
    BY <2>1, <2>2
  <2> HIDE DEF d
  <2>5. /\ o.reg = made /\ o.ui = created
        /\ created.status = "running" => o.ok = TRUE
        /\ created.status # "running" => Stopped(o)
    <3>1. CASE created.status = "running"
      <4>1. o = Outcome(made, created, TRUE)
        BY <2>4, <3>1
      <4> QED
        BY <3>1, <4>1 DEF Outcome
    <3>2. CASE created.status # "running"
      <4>1. o = Outcome(made, created, FALSE)
        BY <2>4, <3>2
      <4> QED
        BY <3>2, <4>1 DEF Outcome, Stopped
    <3> QED
      BY <3>1, <3>2
  <2> USE DEF d
  <2>6. ASSUME path \in DOMAIN u.tree, d \notin DOMAIN u.tree
        PROVE  shown <=> u.tree[path].mark = "none"
    <3>1. listed[path] = u.tree[path] /\ d \in DOMAIN listed
      BY <2>6 DEF AddChild
    <3> HIDE DEF listed
    <3>2. Kids(listed, path) # {}
      BY <3>1 DEF Kids
    <3> QED
      BY <3>1, <3>2 DEF IsExpanded
  <2>7. CASE ~Room(u, path, d)
    <3>1. Stop(u, "noParentNode").status # "running" /\ Stop(u, "torn").status # "running"
      BY <2>3, StopFields
    <3> HIDE DEF shown, w, d
    <3>2. created.status # "running"
      BY <2>6, <2>7, <3>1 DEF Room, created
    <3> QED
      BY <2>5, <2>7, <3>2 DEF d, Child
  <2>8. CASE Room(u, path, d)
    <3>1. /\ path \in DOMAIN u.tree /\ d \notin DOMAIN u.tree
          /\ created = UpdateIfSame(made, w, path)
      <4> HIDE DEF shown, w, d
      <4> QED
        BY <2>6, <2>8 DEF Room, created
    <3>2. node \in Node
      <4>1. Append(u.tree[path].full, name) \in Path
        BY <2>3, <3>1, NodeFields, ChildPath
      <4> QED
        BY <2>3, <4>1, BareNodeType
    <3>3. node.at = d /\ node.full = Append(u.tree[path].full, name)
      BY DEF BareNode
    <3>4. shown <=> u.tree[path].mark = "none"
      BY <2>6, <3>1
    <3> HIDE DEF shown, listed
    <3>5. child \in Node /\ child.at = node.at /\ child.full = node.full
      <4> HIDE DEF node
      <4>1. AddItem(made, node).at = node.at /\ AddItem(made, node).full = node.full
        BY <3>2 DEF AddItem, Node
      <4> QED
        BY <3>2, <4>1, AddItemType
    <3>6. NewItem(made, u.tree, path, child)
      <4>1. ~node.expanded /\ ~node.item /\ node.mark = "none"
        BY DEF BareNode
      <4> HIDE DEF node
      <4>2. PICK m : m = IF HasChildren(made, node.at) THEN "closed" ELSE "none"
        OBVIOUS
      <4>3. AddItem(made, node) = [node EXCEPT !.item = TRUE, !.mark = m]
        BY <4>2 DEF AddItem
      <4>4. /\ ~AddItem(made, node).expanded /\ AddItem(made, node).item
            /\ AddItem(made, node).mark = m
        BY <3>2, <4>1, <4>3 DEF Node
      <4>5. CASE shown
        <5>1. child = AddItem(made, node)
          BY <4>5
        <5> HIDE DEF child
        <5>2. ~child.expanded /\ child.item /\ child.mark = m /\ child.at = node.at
          BY <3>5, <4>4, <5>1
        <5> QED
          BY <3>4, <4>2, <4>5, <5>2 DEF NewItem
      <4>6. CASE ~shown
        <5>1. child = node
          BY <4>6
        <5> HIDE DEF child
        <5> QED
          BY <3>4, <4>1, <4>6, <5>1 DEF NewItem
      <4> QED
        BY <4>5, <4>6
    <3> HIDE DEF child, node
    <3>7. IsTree(added) /\ Closed(added) /\ DOMAIN u.tree \subseteq DOMAIN added
      BY <2>3, <3>1, <3>5, AddChildTree
    <3>8. added = AddChild(u.tree, d, child)
      OBVIOUS
    <3> HIDE DEF added
    <3>9. /\ Sound(w) /\ w.tree = added /\ w.cur = u.cur /\ w.rows = u.rows
          /\ w.status = "running" /\ w.sel = u.sel
      BY <2>3, <3>7, GrowSound, NewTree
    <3> HIDE DEF w
    <3>10. o.ui = UpdateIfSame(o.reg, w, path)
      BY <2>5, <3>1
    <3>11. CASE o.ui.status = "running"
      BY <1>2, <2>5, <3>1, <3>3, <3>5, <3>6, <3>8, <3>9, <3>10, <3>11
         DEF made, Prefixes, Child, Created
    <3>12. CASE o.ui.status # "running"
      BY <2>5, <3>8, <3>9, <3>10, <3>12 DEF HungAt, Child
    <3> QED
      BY <3>11, <3>12
  <2> QED
    BY <2>7, <2>8
<1> QED
  BY <1>1, <1>2

LEMMA CreateShape ==
  ASSUME NEW r \in SUBSET Path, NEW u, Sound(u), u.status = "running",
         NEW path \in Path, NEW name \in Name, NEW o \in CreateKey(r, u, path, name),
         ~Refused(r, u, o), ~Stopped(o), NEW q, q = Child(path, name)
  PROVE  Created(r, u, path, name, q, o)
  BY CreateCases DEF HungAt

(* The key q and its node are taken away, and the view is told.            *)
Removed(r, u, path, q, dead, o) ==
  /\ path # <<>> /\ path \in DOMAIN u.tree /\ q \in DOMAIN u.tree
  /\ q \in r /\ SubKeys(r, q) = {} /\ o.reg = r \ {q}
  /\ Sound(dead) /\ dead.status = "running" /\ dead.cur = u.cur /\ dead.rows = u.rows
  /\ dead.sel = u.sel /\ dead.tree = KillHandles(u.tree, q)
  /\ \E v \in DeleteItem(o.reg, dead, q) : Sound(v) /\ o.ui = UpdateIfSame(o.reg, v, path)
  /\ o.ui.status = "running" => o.ok = TRUE
  /\ o.ui.status # "running" => Stopped(o)

LEMMA DeleteCases ==
  ASSUME NEW r \in SUBSET Path, NEW u, Sound(u), u.status = "running",
         NEW path \in Path, NEW name \in Name, NEW o \in DeleteKey(r, u, path, name),
         ~Refused(r, u, o), NEW q, q = Child(path, name),
         NEW dead, dead = [u EXCEPT !.tree = KillHandles(u.tree, q)]
  PROVE  \/ Stopped(o) /\ path = <<>> /\ o.ui.status = "noRoot"
         \/ Stopped(o) /\ ~(path \in DOMAIN u.tree /\ q \in DOMAIN u.tree)
         \/ Removed(r, u, path, q, dead, o)
<1> USE DEF Child
<1> DEFINE left    == r \ {q}
           deleted == IF path \notin DOMAIN u.tree THEN {Stop(dead, "noParentNode")}
                      ELSE IF q \notin DOMAIN u.tree THEN {Stop(dead, "noChildNode")}
                      ELSE {UpdateIfSame(left, v, path) : v \in DeleteItem(left, dead, q)}
<1>1. CASE path = <<>>
  <2>1. o = Outcome(r, Stop(u, "noRoot"), FALSE) /\ IsUI(u)
    BY <1>1 DEF DeleteKey, Sound
  <2>2. Stopped(o) /\ o.ui.status = "noRoot"
    BY <2>1, StoppedShape, StopFields DEF Outcome
  <2> QED
    BY <1>1, <2>2
<1>2. CASE path # <<>>
  <2>1. \/ o = Outcome(r, u, FALSE)
        \/ /\ q \in r /\ SubKeys(r, q) = {}
           /\ \E v \in deleted : o = Outcome(left, v, v.status = "running")
    BY <1>2 DEF DeleteKey
  <2>2. Refused(r, u, Outcome(r, u, FALSE))
    BY OutcomeShape
  <2>3. /\ Sound(dead) /\ DOMAIN dead.tree = DOMAIN u.tree /\ IsUI(dead)
        /\ dead.status = "running" /\ dead.cur = u.cur
    BY KillHandlesSound DEF Sound
  <2>4. /\ dead.tree = KillHandles(u.tree, q) /\ dead.rows = u.rows /\ dead.sel = u.sel
        /\ IsUI(u)
    BY DEF IsUI, Sound
  <2>5. q # <<>> /\ path # NoNode
    BY ChildPath, DistinctAssumption
  <2> HIDE DEF deleted, left, Child
  <2>6. /\ q \in r /\ SubKeys(r, q) = {}
        /\ \E w \in deleted : o = Outcome(left, w, w.status = "running")
    BY <2>1, <2>2
  <2>7. PICK w \in deleted : o = Outcome(left, w, w.status = "running")
    BY <2>6
  <2>8. /\ o.reg = left /\ o.ui = w
        /\ w.status = "running" => o.ok = TRUE
        /\ w.status # "running" => Stopped(o)
    <3>1. CASE w.status = "running"
      <4>1. o = Outcome(left, w, TRUE)
        BY <2>7, <3>1
      <4> QED
        BY <3>1, <4>1 DEF Outcome
    <3>2. CASE w.status # "running"
      <4>1. o = Outcome(left, w, FALSE)
        BY <2>7, <3>2
      <4> QED
        BY <3>2, <4>1 DEF Outcome, Stopped
    <3> QED
      BY <3>1, <3>2
  <2>9. CASE ~(path \in DOMAIN u.tree /\ q \in DOMAIN u.tree)
    <3>1. /\ Stop(dead, "noParentNode").status # "running"
          /\ Stop(dead, "noChildNode").status # "running"
      BY <2>3, StopFields
    <3>2. w.status # "running"
      BY <2>7, <2>9, <3>1 DEF deleted
    <3> QED
      BY <2>8, <2>9, <3>2
  <2>10. CASE path \in DOMAIN u.tree /\ q \in DOMAIN u.tree
    <3>1. PICK v \in DeleteItem(left, dead, q) : w = UpdateIfSame(left, v, path)
      BY <2>7, <2>10 DEF deleted
    <3>2. Sound(v)
      BY <2>3, <2>5, <2>10, DeleteItemSound
    <3> QED
      BY <1>2, <2>3, <2>4, <2>6, <2>8, <2>10, <3>1, <3>2 DEF left, Removed
  <2> QED
    BY <2>9, <2>10
<1> QED
  BY <1>1, <1>2

LEMMA DeleteShape ==
  ASSUME NEW r \in SUBSET Path, NEW u, Sound(u), u.status = "running",
         NEW path \in Path, NEW name \in Name, NEW o \in DeleteKey(r, u, path, name),
         ~Refused(r, u, o), ~Stopped(o), NEW q, q = Child(path, name),
         NEW dead, dead = [u EXCEPT !.tree = KillHandles(u.tree, q)]
  PROVE  Deleted(r, u, path, q, dead, o)
<1>1. Removed(r, u, path, q, dead, o)
  BY DeleteCases
<1>2. PICK v \in DeleteItem(o.reg, dead, q) : Sound(v) /\ o.ui = UpdateIfSame(o.reg, v, path)
  BY <1>1 DEF Removed
<1>3. o.ui.status = "running"
  BY <1>1 DEF Removed
<1>4. v.status = "running"
  BY <1>2, <1>3 DEF UpdateIfSame, Update
<1> QED
  BY <1>1, <1>2, <1>3, <1>4 DEF Removed, Deleted

LEMMA RenameCases ==
  ASSUME NEW r \in SUBSET Path, NEW u, Sound(u), u.status = "running",
         NEW path \in Path, NEW name \in Name, NEW o \in RenameKey(r, u, path, name),
         ~Refused(r, u, o), NEW q, q = Child(Front(path), name)
  PROVE  \/ Stopped(o) /\ path = <<>> /\ o.ui.status = "noRoot"
         \/ Stopped(o) /\ path \in DOMAIN u.tree /\ q \in DOMAIN u.tree /\ q \notin r
         \/ KeyRenamed(r, u, path, q, o)
<1> USE DEF Child
<1> DEFINE moved   == {Rebase(path, q, x) : x \in r}
           handles == [u EXCEPT !.tree = MoveHandles(u.tree, path, q)]
           renamed == IF path \notin DOMAIN u.tree THEN handles
                      ELSE IF q \in DOMAIN u.tree THEN Stop(handles, "torn")
                      ELSE MoveNode(handles, path, q)
<1>1. CASE path = <<>>
  <2>1. o = Outcome(r, Stop(u, "noRoot"), FALSE) /\ IsUI(u)
    BY <1>1 DEF RenameKey, Sound
  <2>2. Stopped(o) /\ o.ui.status = "noRoot"
    BY <2>1, StoppedShape, StopFields DEF Outcome
  <2> QED
    BY <1>1, <2>2
<1>2. CASE path # <<>>
  <2>1. \/ o = Outcome(r, u, FALSE)
        \/ path \in r /\ q \notin r /\ o = Outcome(moved, renamed, renamed.status = "running")
    BY <1>2 DEF RenameKey
  <2>2. Refused(r, u, Outcome(r, u, FALSE))
    BY OutcomeShape
  <2>3. Front(path) \in Path /\ q \in Path /\ q # <<>> /\ Front(q) = Front(path)
    BY <1>2, FrontPath, ChildPath
  <2> HIDE DEF moved, renamed
  <2> HIDE DEF Child
  <2>4. /\ path \in r /\ q \notin r /\ o.reg = moved /\ o.ui = renamed
        /\ renamed.status = "running" => o.ok = TRUE
        /\ renamed.status # "running" => Stopped(o)
    <3>1. path \in r /\ q \notin r /\ o = Outcome(moved, renamed, renamed.status = "running")
      BY <2>1, <2>2
    <3>2. CASE renamed.status = "running"
      <4>1. o = Outcome(moved, renamed, TRUE)
        BY <3>1, <3>2
      <4> QED
        BY <3>1, <3>2, <4>1 DEF Outcome
    <3>3. CASE renamed.status # "running"
      <4>1. o = Outcome(moved, renamed, FALSE)
        BY <3>1, <3>3
      <4> QED
        BY <3>1, <3>3, <4>1 DEF Outcome, Stopped
    <3> QED
      BY <3>2, <3>3
  <2> USE DEF Child
  <2>5. Sibling(path, q) /\ moved = Moved(path, q, r)
    BY <1>2, <2>3, <2>4 DEF Sibling, moved, Moved
  <2>6. /\ IsUI(u) /\ IsUI(handles) /\ DOMAIN handles.tree = DOMAIN u.tree
        /\ handles.cur = u.cur /\ handles.sel = u.sel /\ handles.status = "running"
    BY <2>3, MoveHandlesSound DEF Sound
  <2>7. handles.tree = MoveHandles(u.tree, path, q) /\ handles.rows = u.rows
    BY <2>6 DEF IsUI
  <2> HIDE DEF handles
  <2>8. CASE path \notin DOMAIN u.tree
    <3>1. renamed = handles
      BY <2>8 DEF renamed
    <3> QED
      BY <1>2, <2>4, <2>5, <2>6, <2>7, <2>8, <3>1 DEF KeyRenamed
  <2>9. CASE path \in DOMAIN u.tree /\ q \in DOMAIN u.tree
    <3>1. renamed = Stop(handles, "torn")
      BY <2>9 DEF renamed
    <3>2. renamed.status # "running"
      BY <2>6, <3>1, StopFields
    <3> QED
      BY <2>4, <2>9, <3>2
  <2>10. CASE path \in DOMAIN u.tree /\ q \notin DOMAIN u.tree
    <3>1. q \notin DOMAIN u.tree /\ path \in DOMAIN u.tree
      BY <2>10
    <3>2. renamed = MoveNode(handles, path, q)
      BY <3>1 DEF renamed
    <3>3. /\ renamed.tree = [x \in Moved(path, q, DOMAIN u.tree) |-> handles.tree[Rebase(q, path, x)]]
          /\ renamed.cur = Rebase(path, q, u.cur) /\ renamed.rows = Moved(path, q, u.rows)
          /\ renamed.status = "running"
          /\ u.sel # NoNode => renamed.sel = Rebase(path, q, u.sel)
      BY <2>6, <2>7, <3>2 DEF MoveNode, IsUI, Moved
    <3>4. DOMAIN u.tree \in SUBSET Path /\ ClosedSet(DOMAIN u.tree) /\ IsTree(u.tree)
      BY <2>6, UIFields DEF Sound, Closed, ClosedSet, IsTree
    <3>5. \A y \in DOMAIN u.tree : Rebase(q, path, Rebase(path, q, y)) = y
      BY <2>5, <2>10, <3>1, <3>4, MovedSet
    <3>6. ASSUME NEW y \in DOMAIN u.tree
          PROVE  /\ renamed.tree[Rebase(path, q, y)].at = RebaseHandle(path, q, u.tree[y].at)
                 /\ renamed.tree[Rebase(path, q, y)].full = u.tree[y].full
                 /\ SameItem(u.tree[y], renamed.tree[Rebase(path, q, y)])
      <4>1. renamed.tree[Rebase(path, q, y)] = handles.tree[y]
        BY <3>3, <3>5 DEF Moved
      <4>2. /\ handles.tree[y].at = RebaseHandle(path, q, u.tree[y].at)
            /\ handles.tree[y].full = u.tree[y].full
            /\ SameItem(u.tree[y], handles.tree[y])
        BY <2>7, <3>4, NodeFields DEF MoveHandles, Node, SameItem
      <4> QED
        BY <4>1, <4>2
    <3>7. MovedTree(path, q, u.tree, o.ui.tree)
      BY <2>4, <3>3, <3>6 DEF MovedTree
    <3> QED
      BY <1>2, <2>4, <2>5, <2>10, <3>1, <3>3, <3>7 DEF KeyRenamed
  <2> QED
    BY <2>8, <2>9, <2>10
<1> QED
  BY <1>1, <1>2

LEMMA RenameShape ==
  ASSUME NEW r \in SUBSET Path, NEW u, Sound(u), u.status = "running",
         NEW path \in Path, NEW name \in Name, NEW o \in RenameKey(r, u, path, name),
         ~Refused(r, u, o), ~Stopped(o), NEW q, q = Child(Front(path), name)
  PROVE  KeyRenamed(r, u, path, q, o)
  BY RenameCases
=============================================================================
