-------------------------- MODULE KeyHistoryProofs ---------------------------
(***************************************************************************)
(* Proofs about KeyTree.tla for an editor that edits in place, alone on    *)
(* the registry (SpecInPlace).  The invariant says that there is a past: a *)
(* sequence of worlds, each a set of key objects with the places they are  *)
(* at, made of the one before by one command, such that the undo and the   *)
(* redo stack hold the commands, and registry, tree and view fit the world *)
(* that was reached.  The items of the tree control nest, and the keys     *)
(* that commands are about have one in every world they are executed in.   *)
(***************************************************************************)
EXTENDS KeyTreeProofs, WellFoundedInduction

-----------------------------------------------------------------------------
(* A set of numbers has a least one: what the inductions below rest on.    *)
LEMMA LeastNumber ==
  ASSUME NEW T \in SUBSET Nat, T # {}
  PROVE  \E n \in T : \A k \in T : n <= k
<1> DEFINE R == {ss \in Nat \X Nat : ss[1] < ss[2]}
<1>1. IsWellFoundedOn(R, Nat)
  BY NatLessThanWellFounded DEF OpToRel
<1>2. ASSUME NEW x \in Nat, NEW y \in Nat, y < x PROVE <<y, x>> \in R
  BY <1>2
<1> HIDE DEF R
<1>3. PICK n \in T : \A k \in T : <<k, n>> \notin R
  BY <1>1, WFMin
<1>4. ASSUME NEW k \in T PROVE n <= k
  <2>1. n \in Nat /\ k \in Nat /\ ~(k < n)
    BY <1>2, <1>3
  <2> QED
    BY <2>1
<1> QED
  BY <1>4

-----------------------------------------------------------------------------
(* Items of the tree control.                                              *)

Open(n) == n.item /\ n.mark = "none"

(* The hive has an item, and a node has one just if its parent is open;    *)
(* what is open or has been expanded lists the subkeys of its key; and     *)
(* where there is a placeholder, nobody has seen it, and there are keys    *)
(* for which it stands.                                                    *)
Nests(t)     == \A s \in DOMAIN t : s # <<>> => (t[s].item <=> Open(t[Front(s)]))
OpenLists(r, t) == \A p \in DOMAIN t : t[p].expanded \/ Open(t[p]) => Listed(r, t, p)
Marked(r, n, p) == n.mark = "none" \/ (n.mark = "closed" /\ SubKeys(r, p) # {})

Items(r, t) ==
  /\ <<>> \in DOMAIN t /\ t[<<>>].item
  /\ Nests(t) /\ OpenLists(r, t)
  /\ \A p \in DOMAIN t : Marked(r, t[p], p)

Steady(t, v) ==
  \A y \in DOMAIN t : /\ y \in DOMAIN v
                      /\ t[y].item => v[y].item
                      /\ Open(t[y]) => Open(v[y])

LEMMA SteadyTransitive ==
  ASSUME NEW t, NEW v, NEW w, Steady(t, v), Steady(v, w)
  PROVE  Steady(t, w)
  BY DEF Steady

(* What RegKeyTreeNode::Expand changes of the nodes: they stay as they are *)
(* but for p's _expanded, and new ones are bare children of p.             *)
Expanded(r, t, p, v) ==
  /\ DOMAIN t \subseteq DOMAIN v
  /\ \A y \in DOMAIN t : v[y].at = t[y].at /\ (v[y].item <=> t[y].item) /\ v[y].mark = t[y].mark
  /\ \A y \in DOMAIN t : y # p => (v[y].expanded <=> t[y].expanded)
  /\ \A s \in DOMAIN v : s \notin DOMAIN t =>
       /\ s # <<>> /\ Front(s) = p /\ ~v[s].item /\ v[s].mark = "none" /\ ~v[s].expanded

LEMMA ExpandShape ==
  ASSUME NEW r, NEW t, IsTree(t), Closed(t), NEW p \in DOMAIN t
  PROVE  Expanded(r, t, p, Expand(r, t, p))
<1> DEFINE listed == IF t[p].at = Gone THEN {} ELSE SubKeys(r, t[p].at) \ {DeletedKey}
           v == AddChildren(t, p, listed)
           w == [v EXCEPT ![p].expanded = TRUE]
<1>1. CASE Kids(t, p) # {}
  BY <1>1 DEF Expand, Expanded
<1>2. CASE Kids(t, p) = {}
  <2>1. Expand(r, t, p) = w
    BY <1>2 DEF Expand
  <2>2. listed \in SUBSET Name /\ (listed = {} \/ t[p].at # Gone)
    BY DEF SubKeys
  <2> HIDE DEF listed
  <2>3. /\ DOMAIN v = DOMAIN t \union {Append(p, x) : x \in listed}
        /\ \A q \in DOMAIN t : v[q] = t[q]
        /\ \A q \in DOMAIN v \ DOMAIN t :
              v[q].expanded = FALSE /\ v[q].item = FALSE /\ v[q].mark = "none"
    BY DEF AddChildren, BareNode
  <2>4. IsTree(v) /\ p \in Path
    BY <2>2, AddChildrenTree DEF IsTree
  <2> HIDE DEF v
  <2>5. /\ DOMAIN w = DOMAIN v
        /\ \A q \in DOMAIN v :
             w[q].at = v[q].at /\ (w[q].item <=> v[q].item) /\ w[q].mark = v[q].mark
        /\ \A q \in DOMAIN v : q # p => (w[q].expanded <=> v[q].expanded)
    BY <2>4 DEF Node, IsTree
  <2> HIDE DEF w
  <2>6. ASSUME NEW s \in DOMAIN w, s \notin DOMAIN t PROVE s # <<>> /\ Front(s) = p /\ s # p
    <3>1. PICK x \in Name : s = Append(p, x)
      BY <2>2, <2>3, <2>5, <2>6
    <3> QED
      BY <2>4, <2>6, <3>1, ChildPath
  <2>7. Expanded(r, t, p, w)
    BY <2>3, <2>5, <2>6 DEF Expanded
  <2> QED
    BY <2>1, <2>7
<1> QED
  BY <1>1, <1>2

(* A tree in which r's keys are at home and whose lists are complete.      *)
Rooted(r, t) == IsTree(t) /\ Closed(t) /\ AtHome(r, t) /\ Complete(r, t)

LEMMA ExpandItems ==
  ASSUME NEW r \in SUBSET Path, NEW t, Rooted(r, t), Items(r, t), NEW p \in DOMAIN t,
         NEW v, v = Expand(r, t, p)
  PROVE  /\ Rooted(r, v) /\ Items(r, v) /\ Steady(t, v) /\ Listed(r, v, p)
         /\ Expanded(r, t, p, v)
<1>1. IsTree(t) /\ Closed(t) /\ AtHome(r, t) /\ Complete(r, t) /\ DOMAIN t \in SUBSET Path
  BY DEF Rooted, IsTree
<1>2. /\ Grows(r, t, v) /\ Listed(r, v, p) /\ IsTree(v) /\ Closed(v)
      /\ \A c \in DOMAIN t : Listed(r, t, c) => KidPaths(v, c) = KidPaths(t, c)
  BY <1>1, ExpandGrows, ExpandTree
<1>3. Expanded(r, t, p, v)
  BY <1>1, ExpandShape
<1>4. Rooted(r, v)
  BY <1>1, <1>2 DEF Grows, Rooted
<1>5. Steady(t, v)
  BY <1>3 DEF Steady, Expanded, Open
<1>6. ASSUME NEW s \in DOMAIN v, s \notin DOMAIN t PROVE ~Open(t[p])
  <2>1. s # <<>> /\ Front(s) = p /\ DOMAIN v \in SUBSET Path
    BY <1>2, <1>3, <1>6 DEF Expanded, IsTree
  <2>2. s \in KidPaths(v, p) /\ s \notin KidPaths(t, p)
    BY <1>1, <1>6, <2>1, KidsAsPaths
  <2> QED
    BY <1>2, <2>2 DEF Items, OpenLists
<1>7. Nests(v)
  <2> SUFFICES ASSUME NEW s \in DOMAIN v, s # <<>> PROVE v[s].item <=> Open(v[Front(s)])
    BY DEF Nests
  <2>1. CASE s \in DOMAIN t
    <3>1. Front(s) \in DOMAIN t
      BY <1>1, <2>1, ParentInTree
    <3> QED
      BY <1>3, <2>1, <3>1 DEF Expanded, Items, Nests, Open
  <2>2. CASE s \notin DOMAIN t
    BY <1>3, <1>6, <2>2 DEF Expanded, Open
  <2> QED
    BY <2>1, <2>2
<1>8. OpenLists(r, v)
  <2>1. ASSUME NEW y \in DOMAIN t, Listed(r, t, y) PROVE Listed(r, v, y)
    BY <1>2, <2>1 DEF Listed, Grows, Kids
  <2> QED
    BY <1>2, <1>3, <2>1 DEF Expanded, Items, OpenLists, Open
<1>9. Items(r, v)
  BY <1>3, <1>7, <1>8 DEF Expanded, Items, Marked
<1> QED
  BY <1>2, <1>3, <1>4, <1>5, <1>9

(* The program runs, and the selected node, which the view shows, has an   *)
(* item.                                                                   *)
Fair(r, u) == IsUI(u) /\ u.status = "running" /\ Rooted(r, u.tree) /\ Items(r, u.tree)

Ready(r, u) ==
  /\ Fair(r, u) /\ Sound(u)
  /\ u.sel = u.cur /\ u.cur \in DOMAIN u.tree /\ u.tree[u.cur].item

ReadyAfter(r, u, v) == Ready(r, v) /\ Steady(u.tree, v.tree)

LEMMA UpdateReady ==
  ASSUME NEW r \in SUBSET Path, NEW u, Fair(r, u), NEW p \in DOMAIN u.tree, u.sel = p, u.tree[p].item
  PROVE  /\ ReadyAfter(r, u, Update(r, u, p)) /\ Update(r, u, p).cur = p
         /\ Update(r, u, p).tree = Expand(r, u.tree, p)
<1>1. IsUI(u) /\ u.status = "running" /\ Rooted(r, u.tree) /\ Items(r, u.tree)
  BY DEF Fair
<1>2. PICK t : t = Expand(r, u.tree, p)
  OBVIOUS
<1>3. /\ Rooted(r, t) /\ Items(r, t) /\ Steady(u.tree, t)
  BY <1>1, <1>2, ExpandItems
<1>4. PICK v : v = [u EXCEPT !.tree = t, !.cur = p, !.rows = KidPaths(t, p)]
  OBVIOUS
<1>5. t[p].at # Gone
  <2>1. p \in Path /\ t[p].at = p
    BY <1>1, <1>3 DEF Rooted, AtHome, IsTree, Steady
  <2> QED
    BY <2>1, DistinctAssumption
<1>6. Update(r, u, p) = v
  BY <1>1, <1>2, <1>4, <1>5 DEF Update
<1>7. v.tree = t /\ v.cur = p /\ v.status = "running" /\ v.sel = p
  BY <1>1, <1>4 DEF IsUI
<1>8. Sound(v)
  BY <1>1, <1>6, UpdateSound DEF Rooted
<1>9. p \in DOMAIN t /\ t[p].item
  BY <1>3 DEF Steady
<1>10. Ready(r, v)
  BY <1>3, <1>7, <1>8, <1>9 DEF Ready, Fair, Sound
<1> QED
  BY <1>2, <1>3, <1>6, <1>7, <1>10 DEF ReadyAfter

LEMMA UpdateIfSameReady ==
  ASSUME NEW r \in SUBSET Path, NEW u, Ready(r, u), NEW p
  PROVE  ReadyAfter(r, u, UpdateIfSame(r, u, p))
<1>1. ReadyAfter(r, u, Update(r, u, u.cur))
  BY UpdateReady DEF Ready
<1>2. ReadyAfter(r, u, u)
  BY DEF ReadyAfter, Steady
<1> QED
  BY <1>1, <1>2 DEF UpdateIfSame

LEMMA SelectReady ==
  ASSUME NEW r \in SUBSET Path, NEW u, Fair(r, u), NEW p \in DOMAIN u.tree, u.tree[p].item,
         p = u.sel => u.cur = p /\ Sound(u)
  PROVE  /\ ReadyAfter(r, u, Select(r, u, p)) /\ Select(r, u, p).cur = p
         /\ Select(r, u, p).tree = u.tree \/ Select(r, u, p).tree = Expand(r, u.tree, p)
<1>1. CASE p = u.sel
  <2>1. ReadyAfter(r, u, u)
    BY <1>1 DEF ReadyAfter, Steady, Ready
  <2> QED
    BY <1>1, <2>1 DEF Select
<1>2. CASE p # u.sel
  <2>1. p \in Path /\ p # NoNode
    BY DistinctAssumption DEF Fair, Rooted, IsTree
  <2>2. PICK w : w = [u EXCEPT !.sel = p, !.under = <<>>]
    OBVIOUS
  <2>3. Select(r, u, p) = Update(r, w, p)
    BY <1>2, <2>1, <2>2 DEF Select
  <2>4. IsUI(w) /\ w.tree = u.tree /\ w.sel = p /\ w.status = u.status
    BY <2>1, <2>2, EmptySeq DEF Fair, IsUI, Path
  <2>5. Fair(r, w)
    BY <2>4 DEF Fair
  <2>6. /\ ReadyAfter(r, w, Update(r, w, p)) /\ Update(r, w, p).cur = p
        /\ Update(r, w, p).tree = Expand(r, w.tree, p)
    BY <2>4, <2>5, UpdateReady
  <2> QED
    BY <2>3, <2>4, <2>6 DEF ReadyAfter
<1> QED
  BY <1>1, <1>2

(* RegistryManager::ExpandItem of a listed node: the children get items.   *)
Opened(r, t, p, v) ==
  /\ DOMAIN v = DOMAIN t
  /\ v[p].mark = "none" /\ (v[p].item <=> t[p].item)
  /\ \A s \in DOMAIN t : s # <<>> /\ Front(s) = p =>
       v[s].item /\ v[s].mark = IF SubKeys(r, s) # {} THEN "closed" ELSE "none"
  /\ \A s \in DOMAIN t : s # p /\ ~(s # <<>> /\ Front(s) = p) => 
       (v[s].item <=> t[s].item) /\ v[s].mark = t[s].mark
  /\ \A s \in DOMAIN t : v[s].expanded <=> t[s].expanded

LEMMA OpenedItems ==
  ASSUME NEW r \in SUBSET Path, NEW t, Rooted(r, t), Items(r, t),
         NEW p \in DOMAIN t, t[p].item, t[p].mark # "none", Listed(r, t, p),
         NEW v, Opened(r, t, p, v)
  PROVE  Items(r, v) /\ Steady(t, v) /\ Open(v[p])
<1>1. IsTree(t) /\ Closed(t) /\ AtHome(r, t) /\ DOMAIN t \in SUBSET Path /\ p \in Path
  BY DEF Rooted, IsTree
<1>2. DOMAIN v = DOMAIN t /\ \A y : Listed(r, t, y) <=> Listed(r, v, y)
  BY DEF Opened, Listed, Kids
<1>3. Open(v[p])
  BY DEF Opened, Open
<1>4. \A y \in DOMAIN t : y # <<>> =>
        Front(y) \in DOMAIN t /\ (IsPrefix(p, y) <=> IsPrefix(p, Front(y)) \/ p = y)
        /\ ~IsPrefix(y, Front(y))
  BY <1>1, ParentInTree, PrefixOfNamed
<1>5. ASSUME NEW s \in DOMAIN t, s # <<>>, Front(s) = p
      PROVE  ~t[s].item /\ s # p /\ (p # <<>> => Front(p) # s)
  BY <1>1, <1>4, <1>5, PrefixReflexive DEF Items, Nests, Open
<1>6. Steady(t, v)
  BY <1>1, <1>5 DEF Steady, Opened, Open
<1>7. Nests(v)
  <2> SUFFICES ASSUME NEW s \in DOMAIN t, s # <<>> PROVE v[s].item <=> Open(v[Front(s)])
    BY <1>2 DEF Nests
  <2>1. CASE Front(s) = p
    BY <1>3, <2>1 DEF Opened
  <2>2. CASE Front(s) # p
    <3>1. PICK k \in DOMAIN t : k = Front(s)
      BY <1>4
    <3>2. v[s].item <=> t[s].item
      BY <2>2 DEF Opened
    <3>3. t[s].item <=> Open(t[k])
      BY <3>1 DEF Items, Nests
    <3>4. CASE k # <<>> /\ Front(k) = p
      <4>1. ~t[k].item
        BY <1>5, <3>4
      <4>2. SubKeys(r, k) # {}
        BY <1>1, <3>1, NoSubKeysAsPaths DEF AtHome
      <4>3. v[k].mark = "closed"
        BY <3>4, <4>2 DEF Opened
      <4> QED
        BY <3>1, <3>2, <3>3, <4>1, <4>3 DEF Open
    <3>5. CASE ~(k # <<>> /\ Front(k) = p)
      BY <2>2, <3>1, <3>2, <3>3, <3>5 DEF Opened, Open
    <3> QED
      BY <3>4, <3>5
  <2> QED
    BY <2>1, <2>2
<1>8. OpenLists(r, v)
  <2> SUFFICES ASSUME NEW y \in DOMAIN t, v[y].expanded \/ Open(v[y]) PROVE Listed(r, t, y)
    BY <1>2 DEF OpenLists
  <2>1. CASE y = p
    BY <2>1
  <2>2. CASE t[y].expanded
    BY <2>2 DEF Items, OpenLists
  <2>3. CASE y # p /\ Open(v[y]) /\ y # <<>> /\ Front(y) = p
    <3>1. SubKeys(r, y) = {}
      BY <2>3 DEF Opened, Open
    <3> QED
      BY <3>1 DEF Listed
  <2>4. CASE y # p /\ Open(v[y]) /\ ~(y # <<>> /\ Front(y) = p)
    BY <2>4 DEF Opened, Open, Items, OpenLists
  <2> QED
    BY <2>1, <2>2, <2>3, <2>4 DEF Opened
<1>9. \A y \in DOMAIN v : Marked(r, v[y], y)
  BY <1>2 DEF Opened, Items, Marked
<1>10. <<>> \in DOMAIN v /\ v[<<>>].item
  BY <1>2, <1>6 DEF Items, Steady
<1> QED
  BY <1>3, <1>6, <1>7, <1>8, <1>9, <1>10 DEF Items

LEMMA ExpandItemReady ==
  ASSUME NEW r \in SUBSET Path, NEW u, Ready(r, u),
         NEW p \in DOMAIN u.tree, u.tree[p].item, u.tree[p].mark # "none"
  PROVE  /\ ReadyAfter(r, u, ExpandItem(r, u, p))
         /\ ExpandItem(r, u, p).cur = u.cur /\ Open(ExpandItem(r, u, p).tree[p])
<1>1. IsUI(u) /\ u.status = "running" /\ Rooted(r, u.tree) /\ Items(r, u.tree) /\ Sound(u)
  BY DEF Ready, Fair
<1>2. PICK t : t = Expand(r, u.tree, p)
  OBVIOUS
<1>3. /\ Rooted(r, t) /\ Items(r, t) /\ Steady(u.tree, t) /\ Listed(r, t, p)
      /\ Expanded(r, u.tree, p, t)
  BY <1>1, <1>2, ExpandItems
<1>4. /\ p \in DOMAIN t /\ t[p].item /\ t[p].mark # "none" /\ p \in Path
      /\ DOMAIN t \in SUBSET Path
      /\ \A q : q \in KidPaths(t, p) <=> q \in DOMAIN t /\ q # <<>> /\ Front(q) = p
  BY <1>1, <1>3, KidsAsPaths DEF Expanded, Rooted, IsTree
<1>5. \A q \in KidPaths(t, p) : ~t[q].item
  BY <1>3, <1>4 DEF Items, Nests, Open
<1> DEFINE node(q) == IF q \in KidPaths(t, p) THEN AddItem(r, t[q])
                      ELSE IF q = p THEN [t[q] EXCEPT !.mark = "none"]
                      ELSE t[q]
           opened == [q \in DOMAIN t |-> node(q)]
           w == [u EXCEPT !.tree = opened]
<1>6. ExpandItem(r, u, p) = w
  BY <1>2, <1>5 DEF ExpandItem
<1>7. w.tree = opened /\ w.status = "running" /\ w.cur = u.cur /\ w.sel = u.sel
  BY <1>1 DEF IsUI
<1>8. Opened(r, t, p, opened)
  <2>1. \A q \in DOMAIN t : t[q] \in Node /\ t[q].at = q /\ q # Gone
    BY <1>3, <1>4, DistinctAssumption DEF Rooted, AtHome, IsTree
  <2>2. p \notin KidPaths(t, p)
    <3>1. p # <<>> => ~IsPrefix(p, Front(p)) /\ IsPrefix(p, p)
      BY <1>4, PrefixOfNamed, PrefixReflexive
    <3> QED
      BY <1>4, <3>1
  <2>3. ASSUME NEW q \in KidPaths(t, p)
        PROVE  /\ opened[q].item
               /\ opened[q].mark = IF SubKeys(r, q) # {} THEN "closed" ELSE "none"
               /\ opened[q].expanded <=> t[q].expanded
    <3>1. /\ opened[q] = AddItem(r, t[q]) /\ t[q] \in Node
          /\ HasChildren(r, t[q].at) <=> SubKeys(r, q) # {}
      BY <1>4, <2>1 DEF HasChildren
    <3>2. PICK m : m = IF HasChildren(r, t[q].at) THEN "closed" ELSE "none"
      OBVIOUS
    <3>3. opened[q] = [t[q] EXCEPT !.item = TRUE, !.mark = m]
      BY <3>1, <3>2 DEF AddItem
    <3> HIDE DEF opened
    <3>4. opened[q].item /\ opened[q].mark = m /\ (opened[q].expanded <=> t[q].expanded)
      BY <3>1, <3>3 DEF Node
    <3> QED
      BY <3>1, <3>2, <3>4
  <2>4. ASSUME NEW q \in DOMAIN t, q \notin KidPaths(t, p), q # p PROVE opened[q] = t[q]
    BY <2>4
  <2>5. opened[p].mark = "none" /\ (opened[p].item <=> t[p].item) /\ (opened[p].expanded <=> t[p].expanded)
    BY <1>4, <2>1, <2>2 DEF Node
  <2>6. DOMAIN opened = DOMAIN t
    OBVIOUS
  <2> HIDE DEF opened
  <2> QED
    BY <1>4, <2>2, <2>3, <2>4, <2>5, <2>6 DEF Opened
<1> HIDE DEF w, opened
<1>9. Items(r, opened) /\ Steady(t, opened) /\ Open(opened[p])
  BY <1>3, <1>4, <1>8, OpenedItems
<1>10. Sound(w) /\ Keeps(r, u, w)
  BY <1>1, <1>6, ExpandItemSound, ExpandItemKeeps
<1>11. Rooted(r, opened)
  BY <1>1, <1>7, <1>10, UIFields DEF Rooted, Keeps, Grows, Sound
<1>12. Steady(u.tree, opened)
  BY <1>3, <1>9, SteadyTransitive
<1>13. Ready(r, w)
  BY <1>7, <1>9, <1>10, <1>11, <1>12 DEF Ready, Fair, Sound, Steady
<1> QED
  BY <1>6, <1>7, <1>9, <1>12, <1>13 DEF ReadyAfter

(* TVN_ITEMEXPANDING: the placeholder stood for keys that are there.       *)
LEMMA OpenItemReady ==
  ASSUME NEW r \in SUBSET Path, NEW u, Ready(r, u),
         NEW p \in DOMAIN u.tree, u.tree[p].item, u.tree[p].mark # "none"
  PROVE  /\ ReadyAfter(r, u, OpenItem(r, u, p))
         /\ OpenItem(r, u, p).cur = u.cur /\ Open(OpenItem(r, u, p).tree[p])
<1>1. HasChildren(r, u.tree[p].at)
  <2>1. u.tree[p].at = p /\ p # Gone /\ SubKeys(r, p) # {}
    BY DistinctAssumption DEF Ready, Fair, Rooted, AtHome, IsTree, Items, Marked
  <2> QED
    BY <2>1 DEF HasChildren
<1> QED
  BY <1>1, ExpandItemReady DEF OpenItem

(* RegistryManager::SelectNode of a child of the node the view shows.      *)
LEMMA SelectNodeReady ==
  ASSUME NEW r \in SUBSET Path, NEW u, Ready(r, u),
         NEW q \in DOMAIN u.tree, q # <<>>, Front(q) = u.cur
  PROVE  ReadyAfter(r, u, SelectNode(r, u, q))
<1> DEFINE p      == Front(q)
           opened == IF u.tree[p].mark = "closed" THEN OpenItem(r, u, p) ELSE u
           chosen == Select(r, opened, q)
<1>1. p \in DOMAIN u.tree /\ u.tree[p].item /\ Marked(r, u.tree[p], p)
  BY DEF Ready, Fair, Items
<1>2. /\ ReadyAfter(r, u, opened) /\ opened.cur = u.cur /\ Open(opened.tree[p])
  <2>1. CASE u.tree[p].mark = "closed"
    BY <1>1, <2>1, OpenItemReady
  <2>2. CASE u.tree[p].mark # "closed"
    BY <1>1, <2>2 DEF ReadyAfter, Steady, Open, Marked
  <2> QED
    BY <2>1, <2>2
<1>3. SelectNode(r, u, q) =
        IF opened.status # "running" THEN opened
        ELSE IF ~opened.tree[q].item THEN Stop(opened, "noItem")
        ELSE IF chosen.status = "running" /\ chosen.tree[q].mark # "none"
          THEN ExpandItem(r, chosen, q)
        ELSE chosen
  BY Zenon DEF SelectNode
<1>4. /\ opened.status = "running" /\ q \in DOMAIN opened.tree /\ opened.tree[q].item
      /\ Fair(r, opened) /\ Sound(opened) /\ opened.sel = opened.cur
  BY <1>2 DEF ReadyAfter, Steady, Ready, Fair, Items, Nests
<1> HIDE DEF opened
<1>5. ReadyAfter(r, opened, chosen)
  BY <1>4, SelectReady
<1>6. /\ chosen.status = "running" /\ q \in DOMAIN chosen.tree /\ chosen.tree[q].item
      /\ Ready(r, chosen)
  BY <1>4, <1>5 DEF ReadyAfter, Steady, Ready, Fair
<1> HIDE DEF chosen
<1>7. chosen.tree[q].mark # "none" => ReadyAfter(r, chosen, ExpandItem(r, chosen, q))
  BY <1>6, ExpandItemReady
<1>8. \A v : ReadyAfter(r, chosen, v) => ReadyAfter(r, u, v)
  BY <1>2, <1>5, SteadyTransitive DEF ReadyAfter
<1>9. ReadyAfter(r, u, chosen)
  BY <1>2, <1>5, SteadyTransitive DEF ReadyAfter
<1> QED
  BY <1>3, <1>4, <1>6, <1>7, <1>8, <1>9

-----------------------------------------------------------------------------
(* What the key operations do to the items.                                *)

(* CView::Update of a node whose handle is alive does not stop.            *)
LEMMA UpdateRuns ==
  ASSUME NEW r, NEW u, IsUI(u), u.status = "running", Closed(u.tree),
         NEW p \in DOMAIN u.tree, u.tree[p].at # Gone
  PROVE  Update(r, u, p).status = "running"
<1>1. PICK t : t = Expand(r, u.tree, p)
  OBVIOUS
<1>2. t[p].at = u.tree[p].at
  <2>1. IsTree(u.tree)
    BY UIFields
  <2>2. Expanded(r, u.tree, p, t)
    BY <1>1, <2>1, ExpandShape
  <2> QED
    BY <2>2 DEF Expanded
<1>3. PICK v : v = [u EXCEPT !.tree = t, !.cur = p, !.rows = KidPaths(t, p)]
  OBVIOUS
<1>4. Update(r, u, p) = v
  BY <1>1, <1>2, <1>3 DEF Update
<1>5. v.status = "running"
  BY <1>3 DEF IsUI
<1> QED
  BY <1>4, <1>5

(* A New Key below a node with an item stops only at the hive.             *)
LEMMA CreateStops ==
  ASSUME NEW r \in SUBSET Path, NEW u, Sound(u), u.status = "running", AtHome(r, u.tree),
         NEW path \in DOMAIN u.tree, u.tree[path].item, NEW name \in Name,
         NEW o \in CreateKey(r, u, path, name), ~Refused(r, u, o), Stopped(o),
         NEW q, q = Child(path, name), q \notin DOMAIN u.tree
  PROVE  o.ui.status = "noRoot"
<1>1. path \in Path /\ Room(u, path, q) /\ u.cur \in DOMAIN u.tree /\ DOMAIN u.tree \in SUBSET Path
  BY UIFields DEF Sound, IsTree, Room
<1>2. ~Created(r, u, path, name, q, o)
  BY DEF Created, Stopped
<1>3. ASSUME HungAt(u, q, o) PROVE FALSE
  <2>1. PICK w, n, p : /\ Sound(w) /\ w.status = "running" /\ w.cur = u.cur
                       /\ w.tree = AddChild(u.tree, q, n) /\ o.ui = UpdateIfSame(o.reg, w, p)
    BY <1>3 DEF HungAt
  <2>2. w.cur \in DOMAIN w.tree /\ w.tree[w.cur].at # Gone
    <3>1. w.tree[u.cur] = u.tree[u.cur] /\ u.cur \in DOMAIN w.tree
      BY <1>1, <2>1 DEF AddChild
    <3>2. u.tree[u.cur].at = u.cur /\ u.cur \in Path
      BY <1>1 DEF AtHome
    <3> QED
      BY <2>1, <3>1, <3>2, DistinctAssumption
  <2>3. Update(o.reg, w, w.cur).status = "running"
    BY <2>1, <2>2, UpdateRuns DEF Sound
  <2>4. o.ui.status = "running"
    BY <2>1, <2>3 DEF UpdateIfSame
  <2> QED
    BY <1>3, <2>4 DEF HungAt, Stopped
<1> QED
  BY <1>1, <1>2, <1>3, CreateCases

ListsKept(r, t, s, v) == \A y \in Path : Listed(r, t, y) => Listed(s, v, y)

LEMMA AddedItems ==
  ASSUME NEW r \in SUBSET Path, ClosedSet(r), NEW t, IsTree(t), Closed(t), Items(r, t),
         NEW p \in DOMAIN t, t[p].item, NEW q \in Path, q # <<>>, Front(q) = p,
         q \notin r, q \notin DOMAIN t, NEW s, s = r \union {q},
         NEW n, n.at = q, NEW v, v = AddChild(t, q, n), NewItem(s, t, p, n),
         ListsKept(r, t, s, v)
  PROVE  Items(s, v) /\ Steady(t, v) /\ (Open(t[p]) => q \in DOMAIN v /\ Open(v[q]))
<1>1. DOMAIN t \in SUBSET Path /\ s \in SUBSET Path /\ p \in Path /\ p # q
  BY PrefixOfNamed, PrefixReflexive DEF IsTree
<1>2. DOMAIN v = DOMAIN t \union {q} /\ v[q] = n /\ \A y \in DOMAIN t : v[y] = t[y] /\ y # q
  BY DEF AddChild
<1>3. SubKeys(s, q) = {}
  <2>1. ASSUME NEW y \in r, y # <<>>, Front(y) = q PROVE FALSE
    <3>1. y \in Path /\ IsPrefix(q, Front(y))
      BY <2>1, PrefixReflexive
    <3> QED
      BY <2>1, <3>1, PrefixOfNamed DEF ClosedSet
  <2> QED
    BY <1>1, <2>1, NoSubKeysAsPaths
<1>4. ~n.expanded /\ (n.item <=> Open(t[p])) /\ n.mark = "none"
  BY <1>3 DEF NewItem, HasChildren, Open
<1>5. Listed(s, v, q)
  BY <1>3 DEF Listed
<1>6. Nests(v)
  <2> SUFFICES ASSUME NEW y \in DOMAIN v, y # <<>> PROVE v[y].item <=> Open(v[Front(y)])
    BY DEF Nests
  <2>1. CASE y = q
    BY <1>2, <1>4, <2>1
  <2>2. CASE y # q
    <3>1. y \in DOMAIN t /\ Front(y) \in DOMAIN t
      BY <1>2, <2>2, ParentInTree
    <3> QED
      BY <1>2, <3>1 DEF Items, Nests
  <2> QED
    BY <2>1, <2>2
<1>7. OpenLists(s, v)
  BY <1>1, <1>2, <1>5 DEF OpenLists, Items, ListsKept
<1>8. ASSUME NEW y \in DOMAIN v PROVE Marked(s, v[y], y)
  <2>1. CASE y = q
    BY <1>2, <1>4, <2>1 DEF Marked
  <2>2. CASE y # q
    <3>1. y \in DOMAIN t /\ v[y] = t[y] /\ (SubKeys(r, y) # {} => SubKeys(s, y) # {})
      BY <1>2, <2>2 DEF SubKeys
    <3> QED
      BY <3>1 DEF Items, Marked
  <2> QED
    BY <2>1, <2>2
<1>9. <<>> \in DOMAIN v /\ v[<<>>].item
  BY <1>2 DEF Items
<1>10. Steady(t, v)
  BY <1>2 DEF Steady
<1> QED
  BY <1>2, <1>4, <1>6, <1>7, <1>8, <1>9, <1>10 DEF Items, Open

LEMMA CreateReady ==
  ASSUME NEW r \in SUBSET Path, NEW u, Ready(r, u), NEW M, NEW K, Good(r, u, M, K),
         NEW path \in DOMAIN u.tree, u.tree[path].item, Listed(r, u.tree, path),
         NEW name \in Name, NEW q, q = Child(path, name), NEW o, Created(r, u, path, name, q, o),
         NEW i, NEW L, Adds(path, name, q, i, M, L), World(L), L[q] \in K
  PROVE  /\ ReadyAfter(o.reg, u, o.ui)
         /\ Open(u.tree[path]) => q \in DOMAIN o.ui.tree /\ Open(o.ui.tree[q])
<1>1. /\ World(M) /\ Fits(r, u.tree, M, K) /\ r = DOMAIN M /\ ClosedSet(r) /\ q \notin r
      /\ path \in r /\ Items(r, u.tree) /\ IsTree(u.tree) /\ Closed(u.tree)
  BY DEF Good, Fits, World, Adds, AtHome, Ready, Fair, Rooted
<1>2. path \in Path /\ q \in Path /\ q # <<>> /\ Front(q) = path
  BY ChildFacts DEF Adds, World
<1>3. PICK w, n :
        /\ Sound(w) /\ w.status = "running" /\ w.cur = u.cur /\ w.sel = u.sel
        /\ w.tree = AddChild(u.tree, q, n)
        /\ n.at = q /\ n.full = Child(u.tree[path].full, name)
        /\ NewItem(o.reg, u.tree, path, n)
        /\ o.ui = UpdateIfSame(o.reg, w, path)
  BY DEF Created
<1>4. o.reg = r \union {q} /\ q \notin DOMAIN u.tree /\ o.reg \in SUBSET Path
  <2>1. r \union Prefixes(q) = r \union {q}
    BY <1>1, PrefixesAreThere
  <2> QED
    BY <1>2, <2>1 DEF Created
<1>5. Fits(o.reg, w.tree, L, K) /\ Follows(r, u.tree, path, o.reg, w.tree)
  <2>1. o.reg = With(r, q)
    BY <1>4 DEF With
  <2>2. K \subseteq K \union {M[path], L[q]}
    OBVIOUS
  <2>3. Fits(With(r, q), w.tree, L, K) /\ Follows(r, u.tree, path, With(r, q), w.tree)
    BY <1>1, <1>3, <2>2, FitsAdd
  <2> QED
    BY <2>1, <2>3
<1>6. /\ Items(o.reg, w.tree) /\ Steady(u.tree, w.tree)
      /\ Open(u.tree[path]) => q \in DOMAIN w.tree /\ Open(w.tree[q])
  <2>1. ListsKept(r, u.tree, o.reg, w.tree)
    BY <1>5 DEF Follows, ListsKept
  <2>2. PICK t, v, s : t = u.tree /\ v = w.tree /\ s = o.reg
    OBVIOUS
  <2>3. Items(s, v) /\ Steady(t, v) /\ (Open(t[path]) => q \in DOMAIN v /\ Open(v[q]))
    <3>1. /\ IsTree(t) /\ Closed(t) /\ Items(r, t) /\ t[path].item /\ s = r \union {q}
          /\ q \notin DOMAIN t /\ path \in DOMAIN t
          /\ v = AddChild(t, q, n) /\ NewItem(s, t, path, n)
          /\ ListsKept(r, t, s, v)
          /\ q \in Path /\ q # <<>> /\ Front(q) = path /\ q \notin r /\ ClosedSet(r) /\ n.at = q
      BY <1>1, <1>2, <1>3, <1>4, <2>1, <2>2
    <3> QED
      BY <3>1, AddedItems
  <2> QED
    BY <2>2, <2>3
<1>7. Rooted(o.reg, w.tree) /\ IsUI(w)
  BY <1>3, <1>5, UIFields DEF Rooted, Sound, Fits
<1>8. Ready(o.reg, w)
  BY <1>3, <1>6, <1>7 DEF Ready, Fair, Steady
<1>9. ReadyAfter(o.reg, w, o.ui)
  BY <1>3, <1>4, <1>8, UpdateIfSameReady
<1> QED
  BY <1>6, <1>9, SteadyTransitive DEF ReadyAfter, Steady

(* The tree t without the childless node q.                                *)
Lacks(t, q, k) == DOMAIN k = DOMAIN t \ {q} /\ \A y \in DOMAIN k : k[y] = t[y]

LEMMA PrunedItems ==
  ASSUME NEW r \in SUBSET Path, NEW t, IsTree(t), Closed(t), Items(r, t),
         NEW q \in DOMAIN t, q # <<>>, NEW p, p = Front(q), NEW s, s = r \ {q},
         NEW k, Lacks(t, q, k), IsTree(k), Closed(k), ListsKept(r, t, s, k),
         t[p].mark = "none" \/ SubKeys(s, p) # {}
  PROVE  Items(s, k)
<1>1. /\ DOMAIN t \in SUBSET Path /\ s \in SUBSET Path /\ p \in Path /\ q \in Path
      /\ <<>> \in DOMAIN k /\ k[<<>>] = t[<<>>] /\ DOMAIN k = DOMAIN t \ {q}
      /\ \A y \in DOMAIN k : k[y] = t[y] /\ y \in DOMAIN t
  BY PrefixOfNamed DEF IsTree, Lacks, Items
<1>2. Nests(k)
  <2> SUFFICES ASSUME NEW y \in DOMAIN k, y # <<>> PROVE k[y].item <=> Open(k[Front(y)])
    BY DEF Nests
  <2>1. Front(y) \in DOMAIN k /\ y \in DOMAIN t
    BY <1>1, ParentInTree
  <2> QED
    BY <1>1, <2>1 DEF Items, Nests
<1>3. OpenLists(s, k)
  BY <1>1 DEF OpenLists, Items, ListsKept
<1>4. ASSUME NEW y \in DOMAIN k PROVE Marked(s, k[y], y)
  <2>1. Marked(r, t[y], y) /\ k[y] = t[y] /\ y \in Path
    BY <1>1 DEF Items
  <2>2. CASE y = p
    BY <2>1, <2>2 DEF Marked
  <2>3. CASE y # p
    <3>1. ASSUME SubKeys(r, y) # {} PROVE SubKeys(s, y) # {}
      <4>1. PICK z \in r : z # <<>> /\ Front(z) = y
        BY <2>1, <3>1, NoSubKeysAsPaths
      <4>2. z \in s /\ s \in SUBSET Path /\ y \in Path
        BY <1>1, <2>1, <2>3, <4>1
      <4>3. SubKeys(s, y) = {} <=> \A x \in s : x # <<>> => Front(x) # y
        BY <4>2, NoSubKeysAsPaths
      <4> QED
        BY <4>1, <4>2, <4>3
    <3> QED
      BY <2>1, <3>1 DEF Marked
  <2> QED
    BY <2>2, <2>3
<1> QED
  BY <1>1, <1>2, <1>3, <1>4 DEF Items

(* TVM_DELETEITEM of an item: the selection goes to an item that is left.  *)
LEMMA DeleteItemReady ==
  ASSUME NEW s \in SUBSET Path, NEW u, Sound(u), u.status = "running",
         u.sel = u.cur, u.tree[u.cur].item,
         NEW q \in DOMAIN u.tree, q # <<>>, NEW k, k = Pruned(u.tree, q),
         Lacks(u.tree, q, k), IsTree(k), Closed(k), Rooted(s, k), Items(s, k),
         u.tree[q].item => Open(u.tree[Front(q)]),
         NEW v \in DeleteItem(s, u, q)
  PROVE  v.status = "wiped" \/ (Ready(s, v) /\ Steady(k, v.tree))
<1>1. /\ IsUI(u) /\ IsTree(u.tree) /\ Closed(u.tree) /\ u.cur \in DOMAIN u.tree
      /\ DOMAIN u.tree \subseteq Path /\ u.cur # NoNode /\ q # NoNode
  BY UIFields, DistinctAssumption DEF Sound, IsTree
<1>2. PICK left : left = [u EXCEPT !.tree = k]
  OBVIOUS
<1>3. /\ IsUI(left) /\ left.tree = k /\ left.sel = u.sel /\ left.cur = u.cur
      /\ left.status = "running"
  BY <1>1, <1>2 DEF IsUI
<1>4. ItemDeleted(s, u, q, left, v)
  BY <1>2, DeleteItemCases
<1>5. CASE ~u.tree[q].item
  <2>1. v = Stop(u, "wiped")
    BY <1>5 DEF DeleteItem
  <2> QED
    BY <1>1, <2>1, StopFields
<1>6. CASE u.tree[q].item
  <2>1. IsPrefix(q, u.cur) <=> u.cur = q
    <3>1. IsPrefix(q, q) /\ DOMAIN k = DOMAIN u.tree \ {q}
      BY <1>1, PrefixReflexive DEF Lacks
    <3>2. DOMAIN k = {x \in DOMAIN u.tree : ~IsPrefix(q, x)}
      BY DEF Pruned
    <3> QED
      BY <1>1, <3>1, <3>2
  <2>2. Front(q) \in DOMAIN k /\ k[Front(q)].mark = "none"
    <3>1. Front(q) \in DOMAIN u.tree /\ Front(q) # q
      BY <1>1, ParentInTree, PrefixOfNamed, PrefixReflexive
    <3> QED
      BY <1>6, <3>1 DEF Lacks, Open
  <2>3. Successors(k, q) \subseteq DOMAIN k /\ \A z \in Successors(k, q) : k[z].item
    <3>1. Successors(k, q) = {z \in KidPaths(k, Front(q)) \union {Front(q)} : k[z].item}
      BY <2>2 DEF Successors
    <3>2. KidPaths(k, Front(q)) \subseteq DOMAIN k
      BY DEF KidPaths, Kids
    <3> QED
      BY <2>2, <3>1, <3>2
  <2>4. NoNode \notin Successors(k, q) /\ u.sel # NoNode
    BY <1>1, <2>3, DistinctAssumption DEF Lacks
  <2>5. Fair(s, left)
    BY <1>3 DEF Fair
  <2>6. CASE v = left /\ ~IsPrefix(q, u.cur)
    <3>1. u.cur \in DOMAIN k /\ k[u.cur].item
      BY <1>1, <2>1, <2>6 DEF Lacks
    <3>2. Sound(left)
      BY <1>3, <3>1 DEF Sound
    <3>3. Ready(s, left)
      BY <1>3, <2>5, <3>1, <3>2 DEF Ready
    <3> QED
      BY <1>3, <2>6, <3>3 DEF Steady
  <2>7. ASSUME NEW z \in Successors(k, q), z # left.sel, v = Select(s, left, z)
        PROVE  Ready(s, v) /\ Steady(k, v.tree)
    BY <1>3, <2>3, <2>5, <2>7, SelectReady DEF ReadyAfter
  <2> QED
    BY <1>3, <1>4, <1>6, <2>4, <2>6, <2>7 DEF ItemDeleted
<1> QED
  BY <1>5, <1>6

ItemsStay(q, t, v) ==
  \A y \in DOMAIN t : y # q => /\ y \in DOMAIN v
                               /\ t[y].item => v[y].item
                               /\ Open(t[y]) => Open(v[y])

LEMMA DeleteReady ==
  ASSUME NEW r \in SUBSET Path, NEW u, Ready(r, u), NEW L, NEW K, Good(r, u, L, K),
         NEW path, NEW name, NEW q, q = Child(path, name), NEW o, NEW dead,
         Removed(r, u, path, q, dead, o),
         NEW i, NEW M, Adds(path, name, q, i, M, L), World(M),
         Open(u.tree[path]) \/ SubKeys(DOMAIN M, path) # {}
  PROVE  \/ o.ui.status = "wiped"
         \/ Ready(o.reg, o.ui) /\ ItemsStay(q, u.tree, o.ui.tree)
<1>1. /\ World(L) /\ Fits(r, u.tree, L, K) /\ r = DOMAIN L /\ AtHome(r, u.tree)
      /\ Items(r, u.tree) /\ IsTree(u.tree) /\ Closed(u.tree)
  BY DEF Good, Fits, Ready, Fair, Rooted
<1>2. path \in Path /\ q \in Path /\ q # <<>> /\ Front(q) = path /\ path # q
  BY ChildFacts DEF Adds, World
<1>3. /\ q \in DOMAIN u.tree /\ path \in DOMAIN u.tree /\ o.reg = r \ {q}
      /\ Sound(dead) /\ dead.status = "running"
      /\ dead.cur = u.cur /\ dead.sel = u.sel /\ dead.tree = KillHandles(u.tree, q)
  BY DEF Removed
<1>4. PICK v \in DeleteItem(o.reg, dead, q) : Sound(v) /\ o.ui = UpdateIfSame(o.reg, v, path)
  BY DEF Removed
<1>5. PICK k : k = Pruned(KillHandles(u.tree, q), q)
  OBVIOUS
<1>6. PICK s : s = o.reg
  OBVIOUS
<1>7. Fits(s, k, M, K) /\ ListsKept(r, u.tree, s, k)
  <2>1. s = Without(r, q)
    BY <1>3, <1>6 DEF Without
  <2>2. Fits(Without(r, q), k, M, K) /\ Follows(r, u.tree, path, Without(r, q), k)
    BY <1>1, <1>3, <1>5, FitsDrop
  <2> QED
    BY <2>1, <2>2 DEF Follows, ListsKept
<1>8. IsTree(k) /\ Closed(k)
  <2>1. IsTree(dead.tree) /\ Closed(dead.tree) /\ q \in DOMAIN dead.tree
    BY <1>3, UIFields DEF Sound, KillHandles
  <2> QED
    BY <1>2, <1>3, <1>5, <2>1, PrunedTree DEF Pruned
<1>9. Lacks(u.tree, q, k)
  <2>1. /\ \A x : x \in DOMAIN k <=> x \in DOMAIN u.tree /\ ~IsPrefix(q, x)
        /\ \A x \in DOMAIN k : k[x] = u.tree[x]
    <3>1. PICK t : t = u.tree
      OBVIOUS
    <3>2. /\ AtHome(r \ {q}, k)
          /\ \A x : x \in DOMAIN k <=> x \in DOMAIN t /\ ~IsPrefix(q, x)
          /\ \A x \in DOMAIN k : k[x] = t[x]
      <4>1. IsTree(t) /\ AtHome(r, t) /\ q \in DOMAIN t /\ k = Pruned(KillHandles(t, q), q)
        BY <1>1, <1>3, <1>5, <3>1
      <4> QED
        BY <4>1, PrunedHome
    <3> QED
      BY <3>1, <3>2
  <2>2. q \notin DOMAIN M /\ DOMAIN L = DOMAIN M \union {q} /\ ClosedSet(DOMAIN M)
    BY DEF Adds, World
  <2>3. \A y \in DOMAIN u.tree : IsPrefix(q, y) <=> y = q
    BY <1>1, <1>2, <2>2, PrefixReflexive DEF AtHome, ClosedSet
  <2> QED
    BY <1>3, <2>1, <2>3 DEF Lacks
<1>10. s \in SUBSET Path /\ s = r \ {q} /\ s = DOMAIN M
  BY <1>3, <1>6, <1>7 DEF Fits
<1>11. Items(s, k)
  <2>1. u.tree[path].mark = "none" \/ SubKeys(s, path) # {}
    BY <1>10 DEF Open
  <2>2. PICK t : t = u.tree
    OBVIOUS
  <2>3. /\ IsTree(t) /\ Closed(t) /\ Items(r, t) /\ q \in DOMAIN t /\ q # <<>> /\ path = Front(q)
        /\ s = r \ {q} /\ Lacks(t, q, k) /\ ListsKept(r, t, s, k)
        /\ t[path].mark = "none" \/ SubKeys(s, path) # {}
    BY <1>1, <1>2, <1>3, <1>7, <1>9, <1>10, <2>1, <2>2
  <2> QED
    BY <1>8, <2>3, PrunedItems
<1>12. Rooted(s, k)
  BY <1>7, <1>8 DEF Rooted, Fits
<1>13. /\ Lacks(dead.tree, q, k) /\ k = Pruned(dead.tree, q)
       /\ dead.tree[q].item => Open(dead.tree[Front(q)])
       /\ dead.sel = dead.cur /\ dead.tree[dead.cur].item
       /\ q \in DOMAIN dead.tree
  <2>1. /\ DOMAIN dead.tree = DOMAIN u.tree
        /\ \A y \in DOMAIN u.tree : /\ dead.tree[y].item <=> u.tree[y].item
                                    /\ dead.tree[y].mark = u.tree[y].mark
                                    /\ y # q => dead.tree[y] = u.tree[y]
    BY <1>1, <1>3, NodeFields DEF KillHandles, AtHome, Node
  <2>2. Lacks(dead.tree, q, k)
    BY <1>9, <2>1 DEF Lacks
  <2>3. dead.tree[q].item => Open(dead.tree[Front(q)])
    BY <1>1, <1>2, <1>3, <2>1 DEF Items, Nests, Open
  <2>4. u.sel = u.cur /\ u.cur \in DOMAIN u.tree /\ u.tree[u.cur].item
    BY DEF Ready
  <2> QED
    BY <1>3, <1>5, <2>1, <2>2, <2>3, <2>4
<1>14. v.status = "wiped" \/ (Ready(s, v) /\ Steady(k, v.tree))
  <2>1. PICK d : d = dead
    OBVIOUS
  <2>2. /\ Sound(d) /\ d.status = "running" /\ d.sel = d.cur /\ d.tree[d.cur].item
        /\ q \in DOMAIN d.tree /\ k = Pruned(d.tree, q) /\ Lacks(d.tree, q, k)
        /\ d.tree[q].item => Open(d.tree[Front(q)])
        /\ v \in DeleteItem(s, d, q)
    BY <1>3, <1>4, <1>6, <1>13, <2>1
  <2> QED
    BY <1>2, <1>8, <1>10, <1>11, <1>12, <2>2, DeleteItemReady
<1>15. CASE v.status = "wiped"
  BY <1>4, <1>15 DEF UpdateIfSame, Update
<1>16. CASE Ready(s, v) /\ Steady(k, v.tree)
  <2>1. ReadyAfter(s, v, o.ui)
    BY <1>4, <1>6, <1>10, <1>16, UpdateIfSameReady
  <2>2. Ready(s, o.ui) /\ Steady(k, o.ui.tree)
    BY <1>16, <2>1, SteadyTransitive DEF ReadyAfter
  <2> QED
    BY <1>6, <1>9, <2>2 DEF Steady, Lacks, ItemsStay
<1> QED
  BY <1>14, <1>15, <1>16

(* A rename takes the items along.                                         *)
ItemsMove(p, q, t, v) ==
  \A y \in DOMAIN t : /\ Rebase(p, q, y) \in DOMAIN v
                      /\ t[y].item => v[Rebase(p, q, y)].item
                      /\ Open(t[y]) => Open(v[Rebase(p, q, y)])

LEMMA MovedItems ==
  ASSUME NEW p, NEW q, Sibling(p, q), NEW r \in SUBSET Path, NEW t, IsTree(t), Items(r, t),
         Closed(t), AtHome(r, t), NEW v, MovedTree(p, q, t, v), NEW s, s = Moved(p, q, r),
         s \in SUBSET Path, \A y \in r : Listed(r, t, y) => Listed(s, v, Rebase(p, q, y))
  PROVE  Items(s, v) /\ ItemsMove(p, q, t, v)
<1>1. /\ DOMAIN t \in SUBSET Path /\ p \in Path /\ p # <<>> /\ DOMAIN t \subseteq r
      /\ Rebase(p, q, <<>>) = <<>> /\ q \in Path
  BY OnlyRootAboveRoot, RebaseElsewhere DEF IsTree, Sibling, AtHome
<1>2. \A z \in DOMAIN v : \E y \in DOMAIN t : z = Rebase(p, q, y)
  BY DEF MovedTree, Moved
<1>3. \A y \in DOMAIN t : /\ Rebase(p, q, y) \in DOMAIN v
                          /\ SameItem(t[y], v[Rebase(p, q, y)])
  BY DEF MovedTree, Moved
<1>4. Nests(v)
  <2> SUFFICES ASSUME NEW z \in DOMAIN v, z # <<>> PROVE v[z].item <=> Open(v[Front(z)])
    BY DEF Nests
  <2>1. PICK y \in DOMAIN t : z = Rebase(p, q, y)
    BY <1>2
  <2>2. y # <<>> /\ y \in Path /\ Front(y) \in DOMAIN t
    BY <1>1, <2>1, ParentInTree
  <2>3. Front(z) = Rebase(p, q, Front(y))
    BY <2>1, <2>2, MovedChild
  <2> QED
    BY <1>3, <2>1, <2>2, <2>3 DEF Items, Nests, SameItem, Open
<1>5. OpenLists(s, v)
  <2> SUFFICES ASSUME NEW z \in DOMAIN v, v[z].expanded \/ Open(v[z]) PROVE Listed(s, v, z)
    BY DEF OpenLists
  <2>1. PICK y \in DOMAIN t : z = Rebase(p, q, y)
    BY <1>2
  <2>2. t[y].expanded \/ Open(t[y])
    BY <1>3, <2>1 DEF SameItem, Open
  <2>3. Listed(r, t, y) /\ y \in r
    BY <1>1, <2>2 DEF Items, OpenLists
  <2> QED
    BY <2>1, <2>3
<1>6. ASSUME NEW z \in DOMAIN v PROVE Marked(s, v[z], z)
  <2>1. PICK y \in DOMAIN t : z = Rebase(p, q, y)
    BY <1>2
  <2>2. y \in Path /\ z \in Path
    BY <1>1, <2>1, RebaseType
  <2>3. ASSUME SubKeys(r, y) # {} PROVE SubKeys(s, z) # {}
    <3>1. PICK x \in r : x # <<>> /\ Front(x) = y
      BY <2>2, <2>3, NoSubKeysAsPaths
    <3>2. /\ Rebase(p, q, x) \in s /\ Rebase(p, q, x) # <<>> /\ Front(Rebase(p, q, x)) = z
      BY <2>1, <3>1, MovedChild DEF Moved
    <3> QED
      BY <2>2, <3>2, NoSubKeysAsPaths
  <2> QED
    BY <1>3, <2>1, <2>3 DEF Items, Marked, SameItem
<1>7. <<>> \in DOMAIN v /\ v[<<>>].item
  BY <1>1, <1>3 DEF Items, SameItem
<1>8. ItemsMove(p, q, t, v)
  BY <1>3 DEF ItemsMove, SameItem, Open
<1> QED
  BY <1>4, <1>5, <1>6, <1>7, <1>8 DEF Items

LEMMA RenameReady ==
  ASSUME NEW r \in SUBSET Path, NEW u, Ready(r, u), NEW M, NEW K, Good(r, u, M, K),
         NEW path \in DOMAIN u.tree, M[path] \in K, NEW q, NEW o, KeyRenamed(r, u, path, q, o),
         Sound(o.ui), AtHome(o.reg, o.ui.tree), NEW L, Moves(path, q, M, L)
  PROVE  Ready(o.reg, o.ui) /\ ItemsMove(path, q, u.tree, o.ui.tree)
<1>1. /\ World(M) /\ Fits(r, u.tree, M, K) /\ r = DOMAIN M /\ AtHome(r, u.tree)
      /\ Items(r, u.tree) /\ IsTree(u.tree) /\ Closed(u.tree)
      /\ u.sel = u.cur /\ u.cur \in DOMAIN u.tree /\ u.tree[u.cur].item /\ u.cur \in Path
  BY DEF Good, Fits, Ready, Fair, Rooted, IsTree
<1>2. /\ o.reg = Moved(path, q, r) /\ MovedTree(path, q, u.tree, o.ui.tree) /\ Sibling(path, q)
      /\ o.ui.cur = Rebase(path, q, u.cur) /\ o.ui.status = "running"
      /\ o.ui.sel = Rebase(path, q, u.cur)
  BY <1>1, DistinctAssumption DEF KeyRenamed
<1>3. PICK s, t, v : s = o.reg /\ t = u.tree /\ v = o.ui.tree
  OBVIOUS
<1>4. /\ Fits(s, v, L, K)
      /\ \A y \in r : Listed(r, t, y) => Listed(s, v, Rebase(path, q, y))
  BY <1>1, <1>2, <1>3, FitsMove
<1>5. World(L) /\ s = DOMAIN L
  BY <1>1, <1>4, MovesWorld DEF Fits
<1>6. Items(s, v) /\ ItemsMove(path, q, t, v)
  <2>1. /\ IsTree(t) /\ Items(r, t) /\ Closed(t) /\ AtHome(r, t) /\ MovedTree(path, q, t, v)
        /\ s = Moved(path, q, r) /\ s \in SUBSET Path
    BY <1>1, <1>2, <1>3, <1>5 DEF World
  <2> QED
    BY <1>2, <1>4, <2>1, MovedItems
<1>7. IsUI(o.ui) /\ IsTree(v) /\ Closed(v)
  BY <1>2, <1>3, UIFields DEF Sound
<1>8. Rooted(s, v)
  BY <1>4, <1>7 DEF Rooted, Fits
<1>9. v[Rebase(path, q, u.cur)].item /\ Rebase(path, q, u.cur) \in DOMAIN v
  BY <1>1, <1>3, <1>6 DEF ItemsMove
<1> QED
  BY <1>2, <1>3, <1>6, <1>7, <1>8, <1>9 DEF Ready, Fair

LEMMA UpdateUIReady ==
  ASSUME NEW r, NEW u, Ready(r, u), NEW allow
  PROVE  UpdateUI(allow, u) = u
<1>1. u.cur \in Path
  BY DEF Ready, Fair, Rooted, IsTree
<1>2. u.sel # NoNode
  BY <1>1, DistinctAssumption DEF Ready
<1> QED
  BY <1>2 DEF UpdateUI

(* A tree whose lists are complete, with nothing but keys in it.           *)
LEMMA AddNewKeysNothing ==
  ASSUME NEW r \in SUBSET Path, DeletedKey \notin Name,
         NEW u, IsUI(u), AtHome(r, u.tree), NEW p \in DOMAIN u.tree, Listed(r, u.tree, p)
  PROVE  AddNewKeys(r, u, p) = u
<1> DEFINE t     == u.tree
           found == IF t[p].at = Gone THEN {} ELSE SubKeys(r, t[p].at)
           fresh == IF Cardinality(found) = Cardinality(Kids(t, p)) THEN {} ELSE found \ Kids(t, p)
           full  == AddChildren(t, p, fresh)
           listed == [q \in DOMAIN full |->
                        IF q \in {Append(p, x) : x \in fresh} THEN AddItem(r, full[q]) ELSE full[q]]
           w == [u EXCEPT !.tree = listed]
<1>1. IsTree(t) /\ p \in Path /\ p # Gone /\ t[p].at = p
  BY UIFields, DistinctAssumption DEF IsTree, AtHome
<1>2. fresh = {}
  <2>1. SubKeys(r, p) \subseteq Kids(t, p)
    BY DEF Listed, SubKeys
  <2> QED
    BY <1>1, <2>1
<1>3. AddNewKeys(r, u, p) = w
  BY DEF AddNewKeys
<1> HIDE DEF fresh, found
<1>4. DOMAIN full = DOMAIN t /\ \A q \in DOMAIN t : full[q] = t[q]
  BY <1>2 DEF AddChildren
<1> HIDE DEF full
<1>5. listed = [q \in DOMAIN t |-> t[q]]
  BY <1>2, <1>4
<1>6. listed = u.tree
  BY <1>1, <1>5 DEF IsTree
<1> HIDE DEF listed
<1>7. w = u
  BY <1>6 DEF IsUI
<1> QED
  BY <1>3, <1>7

LEMMA InitialReady ==
  ASSUME Init
  PROVE  Ready(reg, ui)
<1> DEFINE n == AddItem(InitialKeys, BareNode(<<>>, <<>>))
           t == [p \in {<<>>} |-> n]
<1>1. <<>> \in Path /\ <<>> \in InitialKeys /\ InitialKeys \in SUBSET Path /\ <<>> # Gone
  BY EmptySeq, KeysAssumption, DistinctAssumption DEF Path
<1>2. n \in Node /\ n.at = <<>> /\ n.item /\ Marked(InitialKeys, n, <<>>) /\ ~n.expanded
      /\ (n.mark = "none" => SubKeys(InitialKeys, <<>>) = {})
  BY <1>1, BareNodeType, AddItemType DEF AddItem, BareNode, Marked, HasChildren
<1> HIDE DEF n
<1>3. IsTree(t) /\ DOMAIN t = {<<>>} /\ t[<<>>] = n
  BY <1>1, <1>2 DEF IsTree
<1> HIDE DEF t
<1>4. \A q \in Path : IsPrefix(q, <<>>) => q = <<>>
  BY OnlyRootAboveRoot
<1>5. Closed(t)
  BY <1>3, <1>4 DEF Closed
<1>6. Kids(t, <<>>) = {}
  BY <1>1, <1>3, ChildPath DEF Kids
<1>7. Rooted(InitialKeys, t)
  BY <1>1, <1>2, <1>3, <1>5, <1>6 DEF AtHome, Complete, Rooted
<1>8. Items(InitialKeys, t)
  BY <1>2, <1>3 DEF Items, Nests, OpenLists, Open, Listed
<1>9. InitialTree = Expand(InitialKeys, t, <<>>)
  BY DEF InitialTree, t, n
<1>10. Rooted(InitialKeys, InitialTree) /\ Items(InitialKeys, InitialTree)
  BY <1>1, <1>3, <1>7, <1>8, <1>9, ExpandItems
<1>11. IsUI(ui) /\ Sound(ui)
  BY InitInv DEF IInv, TypeOK
<1>12. ui.tree = InitialTree /\ ui.sel = <<>> /\ ui.cur = <<>> /\ ui.status = "running"
       /\ reg = InitialKeys
  BY DEF Init
<1> QED
  BY <1>10, <1>11, <1>12 DEF Ready, Fair, Items

(* Looking around.                                                         *)
LEMMA LookReady ==
  ASSUME IInv, AtRest, Ready(reg, ui), Shows(reg, ui), Look
  PROVE  ReadyAfter(reg, ui, ui')
<1>1. /\ reg \in SUBSET Path /\ Fair(reg, ui) /\ Sound(ui) /\ Items(reg, ui.tree)
      /\ ui.sel = ui.cur /\ ui.cur \in DOMAIN ui.tree /\ ui.rows = KidPaths(ui.tree, ui.cur)
      /\ DOMAIN ui.tree \in SUBSET Path /\ Closed(ui.tree) /\ IsTree(ui.tree)
  BY DEF IInv, TypeOK, Ready, Fair, Shows, Rooted, IsTree
<1>2. ASSUME NEW u, Browse(u), ReadyAfter(reg, ui, u) PROVE ReadyAfter(reg, ui, ui')
  <2>1. ui' = UpdateUI(allowModify, u) /\ Ready(reg, u)
    BY <1>2 DEF Browse, ReadyAfter
  <2> QED
    BY <1>2, <2>1, UpdateUIReady
<1>3. ASSUME NEW p \in DOMAIN ui.tree, OnTreeSelectionChanged(p) PROVE ReadyAfter(reg, ui, ui')
  <2>1. ui.tree[p].item /\ Browse(Select(reg, ui, p))
    BY <1>3 DEF OnTreeSelectionChanged, Visible
  <2>2. ReadyAfter(reg, ui, Select(reg, ui, p))
    BY <1>1, <2>1, SelectReady
  <2> QED
    BY <1>2, <2>1, <2>2
<1>4. ASSUME NEW p \in DOMAIN ui.tree, SelectPlaceholder(p) PROVE FALSE
  BY <1>1, <1>4 DEF SelectPlaceholder, Items, Marked
<1>5. ASSUME NEW p \in DOMAIN ui.tree, OnTreeItemExpanding(p) PROVE ReadyAfter(reg, ui, ui')
  <2>1. ui.tree[p].item /\ ui.tree[p].mark # "none" /\ Browse(OpenItem(reg, ui, p))
    BY <1>5 DEF OnTreeItemExpanding, Visible
  <2>2. ReadyAfter(reg, ui, OpenItem(reg, ui, p))
    BY <1>1, <2>1, OpenItemReady
  <2> QED
    BY <1>2, <2>1, <2>2
<1>6. ASSUME NEW q \in ui.rows, OnDoubleClick(q) PROVE ReadyAfter(reg, ui, ui')
  <2>1. q \in DOMAIN ui.tree /\ q # <<>> /\ Front(q) = ui.cur
    BY <1>1, KidsAsPaths
  <2>2. ReadyAfter(reg, ui, SelectNode(reg, ui, q)) /\ Browse(SelectNode(reg, ui, q))
    BY <1>1, <1>6, <2>1, SelectNodeReady DEF OnDoubleClick
  <2> QED
    BY <1>2, <2>2
<1>7. CASE UpDir
  <2>1. ui.cur # <<>> /\ Browse(Select(reg, ui, Front(ui.cur)))
    BY <1>7 DEF UpDir
  <2>2. Front(ui.cur) \in DOMAIN ui.tree /\ ui.tree[Front(ui.cur)].item
    BY <1>1, <2>1, ParentInTree DEF Items, Nests, Open, Ready
  <2>3. ReadyAfter(reg, ui, Select(reg, ui, Front(ui.cur)))
    BY <1>1, <2>2, SelectReady
  <2> QED
    BY <1>2, <2>1, <2>3
<1>8. CASE OnEditModify
  <2>1. ui' = ui
    BY <1>8, UpdateUIReady DEF OnEditModify
  <2> QED
    BY <2>1 DEF ReadyAfter, Steady
<1> QED
  BY <1>3, <1>4, <1>5, <1>6, <1>7, <1>8 DEF Look

(* Refresh finds nothing to do but its last Update.  What it has still to  *)
(* look at was expanded when it began.                                     *)
Pending(r, t, S) == \A p \in S : Listed(r, t, p)

LEMMA BeginReady ==
  ASSUME IInv, Ready(reg, ui), OnRefresh
  PROVE  Pending(reg, ui.tree, todo')
<1>1. todo' = Reached(ui.tree) /\ OpenLists(reg, ui.tree) /\ DOMAIN ui.tree \subseteq Path
  BY DEF OnRefresh, Ready, Fair, Items, Rooted, IsTree
<1>2. ASSUME NEW p \in Reached(ui.tree) PROVE p \in DOMAIN ui.tree /\ ui.tree[p].expanded
  BY <1>1, PrefixReflexive DEF Reached
<1> QED
  BY <1>1, <1>2 DEF Pending, OpenLists

LEMMA RefreshReady ==
  ASSUME IInv, DeletedKey \notin Name, Ready(reg, ui), Pending(reg, ui.tree, todo), RefreshStep
  PROVE  ReadyAfter(reg, ui, ui') /\ (refreshing' => todo' \subseteq todo)
<1>1. /\ reg \in SUBSET Path /\ Sound(ui) /\ IsUI(ui) /\ AtHome(reg, ui.tree)
      /\ IsTree(ui.tree)
  BY DEF IInv, TypeOK, Ready, Fair, Rooted
<1>2. ASSUME NEW p \in todo, RefreshRemove(p) PROVE FALSE
  <2>1. p \in DOMAIN ui.tree /\ \E q \in Missing(reg, ui.tree, p) : ui' \in DeleteItem(reg, ui, q)
    BY <1>2 DEF RefreshRemove, IInv
  <2> QED
    BY <1>1, <2>1, NothingMissing
<1>3. ASSUME NEW p \in todo, RefreshAdd(p)
      PROVE  ReadyAfter(reg, ui, ui') /\ (refreshing' => todo' \subseteq todo)
  <2>1. p \in DOMAIN ui.tree /\ Listed(reg, ui.tree, p) /\ todo' = todo \ {p}
        /\ ui' = AddNewKeys(reg, ui, p)
    BY <1>3 DEF RefreshAdd, IInv, Pending
  <2>2. ui' = ui
    BY <1>1, <2>1, AddNewKeysNothing
  <2> QED
    BY <2>1, <2>2 DEF ReadyAfter, Steady
<1>4. CASE RefreshEnd
  <2> DEFINE u == UpdateIfSame(reg, ui, ui.sel)
  <2>1. ReadyAfter(reg, ui, u)
    BY <1>1, UpdateIfSameReady
  <2>2. ui' = UpdateUI(allowModify, u) /\ ~refreshing'
    BY <1>4 DEF RefreshEnd
  <2> HIDE DEF u
  <2>3. UpdateUI(allowModify, u) = u
    BY <2>1, UpdateUIReady DEF ReadyAfter
  <2> QED
    BY <2>1, <2>2, <2>3
<1> QED
  BY <1>2, <1>3, <1>4 DEF RefreshStep

(* The end of a command.                                                   *)
LEMMA EndsReady ==
  ASSUME NEW outcomes, NEW o, Ends(outcomes, o), o.reg \in SUBSET Path, Ready(o.reg, o.ui)
  PROVE  Ready(reg', ui') /\ Steady(o.ui.tree, ui'.tree)
<1>1. PICK u \in {o.ui, UpdateIfSame(o.reg, o.ui, o.ui.sel)} : ui' = UpdateUI(allowModify, u)
  BY DEF Ends
<1>2. ReadyAfter(o.reg, o.ui, u)
  BY <1>1, UpdateIfSameReady DEF ReadyAfter, Steady
<1>3. ui' = u
  BY <1>1, <1>2, UpdateUIReady DEF ReadyAfter
<1> QED
  BY <1>2, <1>3 DEF ReadyAfter, Ends

LEMMA EndsStops ==
  ASSUME NEW outcomes, NEW o, Ends(outcomes, o), o.ui.status \in {"noRoot", "wiped"}
  PROVE  ui'.status = o.ui.status
<1>1. PICK u \in {o.ui, UpdateIfSame(o.reg, o.ui, o.ui.sel)} : ui' = UpdateUI(allowModify, u)
  BY DEF Ends
<1>2. u = o.ui
  BY <1>1 DEF UpdateIfSame, Update
<1> QED
  BY <1>1, <1>2 DEF UpdateUI

-----------------------------------------------------------------------------
(* The history of an editor alone that edits in place: world after world,  *)
(* each made of the one before by a command as it was first given.  The    *)
(* first m of the n commands are in effect; undo and redo move m.          *)

StepAt(c, K, i, M, L) ==
  /\ c \in Command /\ M[c.path] \in K
  /\ \/ c.op = "create" /\ L[Target(c)] \in K /\ Adds(c.path, c.name, Target(c), i, M, L)
     \/ c.op = "rename" /\ Moves(c.path, Target(c), M, L)

WorldAt(M, F, K, i) ==
  /\ World(M) /\ Plain(M, K) /\ BornBefore(M, i)
  /\ (\A j \in 1 .. i : F[j].op = "create") => TrueNames(M)

Past(N, F, K, n) ==
  /\ n \in Nat
  /\ DOMAIN N[0] = InitialKeys
  /\ \A i \in 0 .. n : WorldAt(N[i], F, K, i)
  /\ \A i \in 1 .. n : StepAt(F[i], K, i, N[i - 1], N[i])

(* The stacks: the commands in effect as they are once executed, and those *)
(* taken back, the next to redo last.                                      *)
Lists(us, rs, F, m, n) ==
  /\ Len(us) = m /\ \A i \in 1 .. m : us[i] = Done(F[i])
  /\ Len(rs) = n - m /\ \A j \in 1 .. n - m : rs[j] = F[n + 1 - j]

LEMMA InitialKeysClosed == ClosedSet(InitialKeys) /\ InitialKeys \in SUBSET Path
<1> SUFFICES ASSUME NEW p \in InitialKeys, NEW q \in Path, IsPrefix(q, p), q \notin InitialKeys
             PROVE  FALSE
  BY KeysAssumption DEF ClosedSet
<1> DEFINE T == {Len(y) : y \in {z \in InitialKeys : IsPrefix(q, z)}}
<1>1. \A y \in InitialKeys : y \in Path /\ Len(y) \in Nat
  BY KeysAssumption, LenProperties DEF Path
<1>2. T \in SUBSET Nat /\ T # {}
  BY <1>1
<1>3. PICK n \in T : \A k \in T : n <= k
  BY <1>2, LeastNumber
<1>4. PICK y \in InitialKeys : IsPrefix(q, y) /\ Len(y) = n
  OBVIOUS
<1>5. y # <<>>
  BY <1>4, OnlyRootAboveRoot, KeysAssumption
<1>6. Front(y) \in InitialKeys /\ IsPrefix(q, Front(y))
  BY <1>1, <1>4, <1>5, PrefixOfNamed, KeysAssumption
<1>7. Len(Front(y)) \in T
  BY <1>6
<1>8. Len(y) = Len(Front(y)) + 1 /\ Len(Front(y)) \in Nat
  <2>1. PICK a \in Path, x \in Name : y = Append(a, x) /\ a = Front(y)
    BY <1>1, <1>5, ParentPath
  <2> QED
    BY <2>1, AppendProperties, LenProperties DEF Path
<1> QED
  BY <1>3, <1>4, <1>7, <1>8

LEMMA PastFits ==
  ASSUME NEW N, NEW F, NEW K, NEW n, Past(N, F, K, n), NEW m \in 0 .. n,
         NEW r, NEW t, Fits(r, t, N[m], K), NEW v, Grows(r, t, v)
  PROVE  Fits(r, v, N[m], K)
<1>1. World(N[m]) /\ Plain(N[m], K)
  BY DEF Past, WorldAt
<1> QED
  BY <1>1, FitsGrow

-----------------------------------------------------------------------------
(* Commands, their inverses and the stacks.                                *)

LEMMA TargetIs ==
  ASSUME NEW c \in Command
  PROVE  /\ c.path \in Path /\ c.name \in Name /\ c.op \in {"create", "rename"}
         /\ c.op = "create" => Target(c) = Child(c.path, c.name) /\ Done(c) = c
         /\ c.op = "rename" => Target(c) = Child(Front(c.path), c.name)
  BY DEF Command, Target, Child, Done

LEMMA DoneRename ==
  ASSUME NEW c \in Command, c.op = "rename", c.path # <<>>
  PROVE  /\ Done(c) \in Command /\ Done(c).op = "rename" /\ Done(c).path = Target(c)
         /\ Target(Done(c)) = c.path /\ Done(Done(c)) = c /\ Done(c).name = Last(c.path)
<1>1. /\ c = [op |-> "rename", path |-> c.path, name |-> c.name]
      /\ c.path \in Path /\ c.name \in Name
  BY DEF Command
<1>2. PICK a \in Path, x \in Name : c.path = Append(a, x) /\ a = Front(c.path) /\ x = Last(c.path)
  BY <1>1, ParentPath
<1>3. PICK y \in Name : y = c.name
  BY <1>1
<1>4. Front(Append(a, y)) = a /\ Last(Append(a, y)) = y /\ Append(a, y) \in Path
  BY ChildPath
<1>5. Done(c) = [op |-> "rename", path |-> Append(a, y), name |-> x]
  BY <1>1, <1>2, <1>3 DEF Done
<1>6. Target(c) = Append(a, y)
  BY <1>2, <1>3 DEF Target
<1>7. Done(c).op = "rename" /\ Done(c).path = Append(a, y) /\ Done(c).name = x
  BY <1>5
<1>8. Target(Done(c)) = Append(a, x)
  BY <1>4, <1>7 DEF Target
<1>9. Done(Done(c)) = [op |-> "rename", path |-> Append(a, x), name |-> y]
  BY <1>4, <1>5 DEF Done
<1>10. Done(c) \in Command
  BY <1>4, <1>5 DEF Command
<1> QED
  BY <1>1, <1>2, <1>3, <1>6, <1>7, <1>8, <1>9, <1>10

LEMMA EndOfSeq ==
  ASSUME NEW S, NEW s \in Seq(S), s # <<>>
  PROVE  /\ Len(s) \in Nat \ {0} /\ Last(s) = s[Len(s)] /\ Last(s) \in S
         /\ Front(s) \in Seq(S) /\ Len(Front(s)) = Len(s) - 1
         /\ \A i \in 1 .. Len(s) - 1 : Front(s)[i] = s[i]
<1>1. PICK f \in Seq(S), e \in S : s = Append(f, e)
  BY SequenceEmptyOrAppend
<1>2. /\ Len(s) = Len(f) + 1 /\ Len(f) \in Nat /\ s[Len(f) + 1] = e
      /\ \A i \in 1 .. Len(f) : s[i] = f[i]
  BY <1>1, AppendProperties, LenProperties
<1>3. Last(s) = e /\ Front(s) = f
  BY <1>1, AppendProperties DEF Last, Front
<1> QED
  BY <1>2, <1>3

LEMMA ListsUndo ==
  ASSUME NEW us \in Seq(Command), NEW rs \in Seq(Command), us # <<>>,
         NEW F, NEW n \in Nat, NEW m \in 0 .. n, Lists(us, rs, F, m, n)
  PROVE  /\ m \in 1 .. n /\ Last(us) = Done(F[m])
         /\ Done(Done(F[m])) = F[m] /\ F[m] \in Command =>
              Lists(Front(us), Append(rs, Done(Last(us))), F, m - 1, n)
<1>1. /\ m \in 1 .. n /\ Len(us) = m /\ Last(us) = Done(F[m])
      /\ Len(Front(us)) = m - 1 /\ \A i \in 1 .. m - 1 : Front(us)[i] = Done(F[i])
  <2>1. /\ Len(us) \in Nat \ {0} /\ Last(us) = us[Len(us)] /\ Len(Front(us)) = Len(us) - 1
        /\ \A i \in 1 .. Len(us) - 1 : Front(us)[i] = us[i]
    BY EndOfSeq
  <2>2. Len(us) = m /\ \A i \in 1 .. m : us[i] = Done(F[i])
    BY DEF Lists
  <2> QED
    BY <2>1, <2>2
<1>2. ASSUME Done(Done(F[m])) = F[m], F[m] \in Command
      PROVE  Lists(Front(us), Append(rs, Done(Last(us))), F, m - 1, n)
  <2>1. PICK e \in Command : e = Done(Last(us)) /\ e = F[m]
    BY <1>1, <1>2
  <2>2. PICK w : w = Append(rs, e)
    OBVIOUS
  <2>3. /\ Len(rs) = n - m /\ \A j \in 1 .. n - m : rs[j] = F[n + 1 - j]
    BY DEF Lists
  <2>4. /\ Len(w) = n - m + 1 /\ w[n - m + 1] = e
        /\ \A j \in 1 .. n - m : w[j] = rs[j]
    BY <2>2, <2>3, AppendProperties
  <2>5. Len(w) = n - (m - 1) /\ \A j \in 1 .. n - (m - 1) : w[j] = F[n + 1 - j]
    <3> SUFFICES ASSUME NEW j \in 1 .. n - (m - 1) PROVE w[j] = F[n + 1 - j]
      BY <1>1, <2>4
    <3>1. CASE j = n - m + 1
      <4>1. n + 1 - j = m
        BY <1>1, <3>1
      <4> QED
        BY <2>1, <2>4, <3>1, <4>1
    <3>2. CASE j # n - m + 1
      BY <1>1, <2>3, <2>4, <3>2
    <3> QED
      BY <3>1, <3>2
  <2> QED
    BY <1>1, <2>1, <2>2, <2>5 DEF Lists
<1> QED
  BY <1>1, <1>2

LEMMA ListsRedo ==
  ASSUME NEW us \in Seq(Command), NEW rs \in Seq(Command), rs # <<>>,
         NEW F, NEW n \in Nat, NEW m \in 0 .. n, Lists(us, rs, F, m, n)
  PROVE  /\ m + 1 \in 1 .. n /\ Last(rs) = F[m + 1]
         /\ Done(F[m + 1]) \in Command =>
              Lists(Append(us, Done(Last(rs))), Front(rs), F, m + 1, n)
<1>1. /\ Len(rs) = n - m /\ \A j \in 1 .. n - m : rs[j] = F[n + 1 - j]
      /\ Len(us) = m /\ \A i \in 1 .. m : us[i] = Done(F[i])
  BY DEF Lists
<1>2. /\ n - m \in Nat \ {0} /\ Last(rs) = rs[n - m] /\ Len(Front(rs)) = n - m - 1
      /\ \A j \in 1 .. n - m - 1 : Front(rs)[j] = rs[j]
  <2>1. /\ Len(rs) \in Nat \ {0} /\ Last(rs) = rs[Len(rs)] /\ Len(Front(rs)) = Len(rs) - 1
        /\ \A j \in 1 .. Len(rs) - 1 : Front(rs)[j] = rs[j]
    BY EndOfSeq
  <2> QED
    BY <1>1, <2>1
<1>3. n + 1 - (n - m) = m + 1 /\ n - m \in 1 .. n - m /\ m + 1 \in 1 .. n
  BY <1>2
<1>4. Last(rs) = F[m + 1]
  BY <1>1, <1>2, <1>3
<1>5. ASSUME Done(F[m + 1]) \in Command
      PROVE  Lists(Append(us, Done(Last(rs))), Front(rs), F, m + 1, n)
  <2>1. PICK e \in Command : e = Done(Last(rs)) /\ e = Done(F[m + 1])
    BY <1>4, <1>5
  <2>2. PICK w : w = Append(us, e)
    OBVIOUS
  <2>3. Len(w) = m + 1 /\ w[m + 1] = e /\ \A i \in 1 .. m : w[i] = us[i]
    BY <1>1, <2>2, AppendProperties
  <2>4. \A i \in 1 .. m + 1 : w[i] = Done(F[i])
    BY <1>1, <2>1, <2>3
  <2>5. Len(Front(rs)) = n - (m + 1)
        /\ \A j \in 1 .. n - (m + 1) : Front(rs)[j] = F[n + 1 - j]
    BY <1>1, <1>2
  <2> QED
    BY <2>1, <2>2, <2>3, <2>4, <2>5 DEF Lists
<1> QED
  BY <1>3, <1>4, <1>5

LEMMA ListsPush ==
  ASSUME NEW us \in Seq(Command), NEW rs, NEW c, Done(c) \in Command,
         NEW F, NEW n \in Nat, NEW m \in 0 .. n, Lists(us, rs, F, m, n),
         NEW G, \A i \in 1 .. m : G[i] = F[i], G[m + 1] = c
  PROVE  Lists(Append(us, Done(c)), <<>>, G, m + 1, m + 1)
<1>1. Len(us) = m /\ \A i \in 1 .. m : us[i] = Done(F[i])
  BY DEF Lists
<1>2. PICK e \in Command : e = Done(c)
  OBVIOUS
<1>3. PICK w : w = Append(us, e)
  OBVIOUS
<1>4. Len(w) = m + 1 /\ w[m + 1] = e /\ \A i \in 1 .. m : w[i] = us[i]
  BY <1>1, <1>3, AppendProperties
<1>5. \A i \in 1 .. m + 1 : w[i] = Done(G[i])
  BY <1>1, <1>2, <1>4
<1>6. Len(<<>>) = m + 1 - (m + 1) /\ 1 .. m + 1 - (m + 1) = {}
  BY EmptySeq
<1> QED
  BY <1>2, <1>3, <1>4, <1>5, <1>6 DEF Lists

LEMMA CommandAt ==
  ASSUME NEW N, NEW F, NEW K, NEW n, Past(N, F, K, n), NEW i \in 1 .. n
  PROVE  /\ n \in Nat /\ i - 1 \in 0 .. n /\ i \in 0 .. n
         /\ World(N[i]) /\ World(N[i - 1]) /\ Plain(N[i - 1], K)
         /\ F[i] \in Command /\ Done(F[i]) \in Command /\ Done(Done(F[i])) = F[i]
         /\ StepAt(F[i], K, i, N[i - 1], N[i])
<1>1. n \in Nat /\ i - 1 \in 0 .. n /\ i \in 0 .. n
  BY DEF Past
<1>2. /\ WorldAt(N[i - 1], F, K, i - 1) /\ WorldAt(N[i], F, K, i)
      /\ StepAt(F[i], K, i, N[i - 1], N[i])
  BY <1>1 DEF Past
<1>3. F[i] \in Command /\ (F[i].op = "rename" => F[i].path # <<>>)
  BY <1>2 DEF StepAt, Moves, Sibling
<1>4. Done(F[i]) \in Command /\ Done(Done(F[i])) = F[i]
  BY <1>3, TargetIs, DoneRename
<1> QED
  BY <1>1, <1>2, <1>3, <1>4 DEF WorldAt

(* A command that neither was refused nor stopped the program has worked.  *)
LEMMA WorkedIsOk ==
  ASSUME NEW r \in SUBSET Path, NEW u, Sound(u), u.status = "running",
         NEW c \in Command, NEW o \in Execute(r, u, c) \union UndoCommand(r, u, c),
         ~Refused(r, u, o), ~Stopped(o)
  PROVE  o.ok = TRUE
<1>1. c.path \in Path /\ c.name \in Name
  BY TargetIs
<1>2. CASE o \in CreateKey(r, u, c.path, c.name)
  <2>1. PICK q : q = Child(c.path, c.name)
    OBVIOUS
  <2>2. Created(r, u, c.path, c.name, q, o)
    BY <1>1, <1>2, <2>1, CreateShape
  <2> QED
    BY <2>2 DEF Created
<1>3. CASE o \in DeleteKey(r, u, c.path, c.name)
  <2>1. PICK q, dead : q = Child(c.path, c.name) /\ dead = [u EXCEPT !.tree = KillHandles(u.tree, q)]
    OBVIOUS
  <2>2. Deleted(r, u, c.path, q, dead, o)
    BY <1>1, <1>3, <2>1, DeleteShape
  <2> QED
    BY <2>2 DEF Deleted
<1>4. CASE o \in RenameKey(r, u, c.path, c.name)
  <2>1. PICK q : q = Child(Front(c.path), c.name)
    OBVIOUS
  <2>2. KeyRenamed(r, u, c.path, q, o)
    BY <1>1, <1>4, <2>1, RenameShape
  <2> QED
    BY <2>2 DEF KeyRenamed
<1> QED
  BY <1>2, <1>3, <1>4 DEF Execute, UndoCommand

(* Executing a command of the history leads to the next world, whatever    *)
(* has been renamed, made and expanded in between.                         *)
LEMMA ExecuteFits ==
  ASSUME NEW r \in SUBSET Path, NEW u, Sound(u), u.status = "running",
         NEW M, NEW L, NEW K, NEW i, NEW c, StepAt(c, K, i, M, L), World(L),
         Good(r, u, M, K), NEW o \in Execute(r, u, c), ~Refused(r, u, o), ~Stopped(o)
  PROVE  Good(o.reg, o.ui, L, K)
<1>1. c \in Command /\ M[c.path] \in K /\ World(M) /\ Fits(r, u.tree, M, K)
  BY DEF StepAt, Good
<1>2. c.path \in DOMAIN M
  BY DEF StepAt, Adds, Moves
<1>3. c.path \in DOMAIN u.tree /\ Listed(r, u.tree, c.path)
  BY <1>1, <1>2 DEF Fits
<1>4. CASE c.op = "create"
  <2>1. /\ L[Target(c)] \in K /\ Adds(c.path, c.name, Target(c), i, M, L)
        /\ Target(c) = Child(c.path, c.name) /\ c.path \in Path /\ c.name \in Name
    BY <1>1, <1>4, TargetIs DEF StepAt
  <2>2. o \in CreateKey(r, u, c.path, c.name)
    BY <1>4 DEF Execute
  <2> QED
    BY <1>3, <2>1, <2>2, CreateFits
<1>5. CASE c.op = "rename"
  <2>1. /\ Moves(c.path, Target(c), M, L)
        /\ Target(c) = Child(Front(c.path), c.name) /\ c.path \in Path /\ c.name \in Name
    BY <1>1, <1>5, TargetIs DEF StepAt
  <2>2. o \in RenameKey(r, u, c.path, c.name)
    BY <1>5 DEF Execute
  <2>3. AtHome(r, u.tree)
    BY <1>1 DEF Fits
  <2>4. AtHome(o.reg, o.ui.tree)
    BY <2>1, <2>2, <2>3, RenameAtHome
  <2> QED
    BY <1>1, <1>3, <2>1, <2>2, <2>4, RenameFits
<1> QED
  BY <1>1, <1>4, <1>5, TargetIs

(* Undoing one leads back.                                                 *)
LEMMA UndoFits ==
  ASSUME NEW r \in SUBSET Path, NEW u, Sound(u), u.status = "running",
         NEW M, NEW L, NEW K, NEW i, NEW c, StepAt(c, K, i, M, L), World(M), Plain(M, K),
         Good(r, u, L, K), NEW o \in UndoCommand(r, u, Done(c)), ~Refused(r, u, o), ~Stopped(o)
  PROVE  Good(o.reg, o.ui, M, K)
<1>1. c \in Command /\ M[c.path] \in K /\ World(L) /\ Fits(r, u.tree, L, K)
  BY DEF StepAt, Good
<1>2. CASE c.op = "create"
  <2>1. /\ Adds(c.path, c.name, Target(c), i, M, L)
        /\ Target(c) = Child(c.path, c.name) /\ c.path \in Path /\ c.name \in Name
        /\ Done(c) = c
    BY <1>1, <1>2, TargetIs DEF StepAt
  <2>2. o \in DeleteKey(r, u, c.path, c.name)
    BY <1>2, <2>1 DEF UndoCommand
  <2> QED
    BY <2>1, <2>2, DeleteFits
<1>3. CASE c.op = "rename"
  <2>1. /\ Moves(c.path, Target(c), M, L) /\ c.path \in Path /\ c.path # <<>>
        /\ Target(c) \in Path
    BY <1>1, <1>3, TargetIs DEF StepAt, Moves, Sibling
  <2>2. PICK d : d = Done(c)
    OBVIOUS
  <2>3. /\ d \in Command /\ d.op = "rename" /\ d.path = Target(c) /\ Target(d) = c.path
        /\ c.path = Child(Front(d.path), d.name) /\ d.name \in Name /\ d.path \in Path
    BY <1>1, <1>3, <2>1, <2>2, DoneRename, TargetIs
  <2>4. o \in RenameKey(r, u, d.path, d.name)
    BY <2>2, <2>3 DEF UndoCommand
  <2>5. Moves(d.path, c.path, L, M)
    BY <2>1, <2>3, MovesWorld
  <2>6. L[d.path] \in K
    <3>1. Rebase(c.path, d.path, c.path) = d.path
      BY <2>1, <2>3, SiblingFacts DEF Moves
    <3>2. L[Rebase(c.path, d.path, c.path)] = M[c.path]
      BY <2>1, <2>3 DEF Moves
    <3> QED
      BY <1>1, <3>1, <3>2
  <2>7. d.path \in DOMAIN u.tree /\ AtHome(r, u.tree)
    BY <1>1, <2>5, <2>6 DEF Fits, Moves
  <2>8. AtHome(o.reg, o.ui.tree)
    BY <2>3, <2>4, <2>7, RenameAtHome
  <2> QED
    BY <2>3, <2>4, <2>5, <2>6, <2>7, <2>8, RenameFits
<1> QED
  BY <1>1, <1>2, <1>3, TargetIs

(* What the end of the step adds to a good outcome.                        *)
LEMMA EndsGood ==
  ASSUME Rest, AtRest, NEW c \in Command, NEW outcomes,
         outcomes \in {Execute(reg, ui, c), UndoCommand(reg, ui, c)},
         NEW o, Ends(outcomes, o), Running', NEW M, NEW K, Good(o.reg, o.ui, M, K)
  PROVE  Fits(reg', ui'.tree, M, K) /\ Shows(reg', ui')
<1>1. /\ Grows(reg', o.ui.tree, ui'.tree) /\ reg' = o.reg
      /\ Trees(reg', o.ui) /\ Shows(reg', o.ui) => Shows(reg', ui')
  BY EndsGrows DEF Ends
<1>2. /\ World(M) /\ Plain(M, K) /\ Fits(o.reg, o.ui.tree, M, K) /\ Shows(o.reg, o.ui)
      /\ Trees(o.reg, o.ui)
  BY DEF Good, Fits, Trees
<1> QED
  BY <1>1, <1>2, FitsGrow

-----------------------------------------------------------------------------
(* A new command in place makes a new world.                               *)

LEMMA GoodNaming ==
  ASSUME NEW r, NEW u, NEW M, NEW K, Good(r, u, M, K), NEW p \in DOMAIN u.tree,
         Listed(r, u.tree, p), NEW J, K \subseteq J,
         \A y \in DOMAIN M : M[y] \in J => M[y] \in K \/ y = p
  PROVE  Good(r, u, M, J)
<1>1. World(M) /\ Plain(M, K) /\ Fits(r, u.tree, M, K) /\ Shows(r, u)
  BY DEF Good
<1>2. Plain(M, J)
  BY <1>1 DEF Plain
<1>3. Fits(r, u.tree, M, J)
  BY <1>1 DEF Fits
<1> QED
  BY <1>1, <1>2, <1>3 DEF Good

NewWorld(r, u, M, K, m, c, L, J) ==
  /\ K \subseteq J /\ StepAt(c, J, m + 1, M, L) /\ Good(r, u, M, J)
  /\ World(L) /\ Plain(L, J) /\ BornBefore(L, m + 1)
  /\ c.op = "create" /\ TrueNames(M) => TrueNames(L)

LEMMA CreateMakesWorld ==
  ASSUME NEW r \in SUBSET Path, NEW u, Sound(u), u.status = "running",
         NEW M, NEW K, Good(r, u, M, K), NEW m \in Nat, BornBefore(M, m),
         NEW c \in Command, c.op = "create", c.path = u.cur, c.name # DeletedKey,
         NEW o \in Execute(r, u, c), ~Refused(r, u, o), ~Stopped(o)
  PROVE  \E L, J : NewWorld(r, u, M, K, m, c, L, J)
<1>1. PICK p, x, q : p = c.path /\ x = c.name /\ q = Target(c)
  OBVIOUS
<1>2. p \in Path /\ x \in Name /\ q = Child(p, x) /\ p = u.cur /\ x # DeletedKey
  BY <1>1, TargetIs
<1>3. World(M) /\ Plain(M, K) /\ Fits(r, u.tree, M, K) /\ Shows(r, u)
  BY DEF Good
<1>4. p \in DOMAIN u.tree /\ Listed(r, u.tree, p) /\ r = DOMAIN M /\ p \in DOMAIN M
  BY <1>2, <1>3 DEF Sound, Shows, Fits, AtHome
<1>5. p # <<>> /\ q \notin DOMAIN u.tree
  <2>1. o \in CreateKey(r, u, p, x)
    BY <1>1 DEF Execute
  <2>2. Created(r, u, p, x, q, o)
    BY <1>2, <2>1, CreateShape
  <2> QED
    BY <2>2 DEF Created
<1>6. q \in Path /\ q # <<>> /\ Front(q) = p /\ Last(q) = x
  BY <1>2, ChildFacts
<1>7. q \notin DOMAIN M
  BY <1>2, <1>4, <1>5, <1>6, ListedAsPaths
<1> DEFINE e == [full |-> Child(M[p].full, x), born |-> m + 1]
           L == [y \in DOMAIN M \union {q} |-> IF y = q THEN e ELSE M[y]]
           J == K \union {M[p], e}
<1>8. Adds(p, x, q, m + 1, M, L) /\ L[q] = e
  BY <1>2, <1>4, <1>5, <1>7 DEF Adds
<1>9. \A y \in DOMAIN M : M[y] # e
  <2>1. e.born = m + 1 /\ \A y \in DOMAIN M : M[y].born \in 0 .. m
    BY DEF BornBefore
  <2> HIDE DEF e
  <2> QED
    BY <2>1
<1>10. K \subseteq J /\ M[p] \in J /\ e \in J
  OBVIOUS
<1>11. \A y \in DOMAIN M : M[y] \in J => M[y] \in K \/ y = p
  BY <1>3, <1>4, <1>9 DEF World
<1> HIDE DEF e, L, J
<1>12. Good(r, u, M, J)
  BY <1>4, <1>10, <1>11, GoodNaming
<1>13. World(L) /\ BornBefore(L, m + 1)
  <2>1. m + 1 \in Nat \ {0} /\ m + 1 - 1 = m
    OBVIOUS
  <2> QED
    BY <1>3, <1>8, <2>1, AddsWorld
<1>14. Plain(L, J) /\ (TrueNames(M) => TrueNames(L))
  <2>1. Plain(M, J)
    BY <1>12 DEF Good
  <2> QED
    BY <1>3, <1>8, <2>1, AddsPlain
<1>15. StepAt(c, J, m + 1, M, L)
  BY <1>1, <1>8, <1>10 DEF StepAt
<1> QED
  BY <1>10, <1>12, <1>13, <1>14, <1>15 DEF NewWorld

LEMMA RenameMakesWorld ==
  ASSUME NEW r \in SUBSET Path, NEW u, Sound(u), u.status = "running",
         NEW M, NEW K, Good(r, u, M, K), NEW m \in Nat, BornBefore(M, m),
         NEW c \in Command, c.op = "rename", c.path = u.cur,
         NEW o \in Execute(r, u, c), ~Refused(r, u, o), ~Stopped(o)
  PROVE  \E L, J : NewWorld(r, u, M, K, m, c, L, J)
<1>1. PICK p, q : p = c.path /\ q = Target(c)
  OBVIOUS
<1>2. p \in Path /\ q = Child(Front(p), c.name) /\ p = u.cur /\ c.name \in Name
  BY <1>1, TargetIs
<1>3. World(M) /\ Plain(M, K) /\ Fits(r, u.tree, M, K) /\ Shows(r, u)
  BY DEF Good
<1>4. p \in DOMAIN u.tree /\ Listed(r, u.tree, p) /\ r = DOMAIN M /\ p \in DOMAIN M
  BY <1>2, <1>3 DEF Sound, Shows, Fits, AtHome
<1>5. Sibling(p, q) /\ q \notin DOMAIN M
  <2>1. o \in RenameKey(r, u, p, c.name)
    BY <1>1 DEF Execute
  <2>2. KeyRenamed(r, u, p, q, o)
    BY <1>2, <2>1, RenameShape
  <2> QED
    BY <1>4, <2>2 DEF KeyRenamed
<1> DEFINE L == [z \in Moved(p, q, DOMAIN M) |-> M[Rebase(q, p, z)]]
           J == K \union {M[p]}
<1>6. \A y \in DOMAIN M : Rebase(q, p, Rebase(p, q, y)) = y
  BY <1>3, <1>4, <1>5, MovedSet DEF World
<1>7. Moves(p, q, M, L)
  BY <1>4, <1>5, <1>6 DEF Moves, Moved
<1>8. K \subseteq J /\ M[p] \in J
  OBVIOUS
<1>9. \A y \in DOMAIN M : M[y] \in J => M[y] \in K \/ y = p
  BY <1>3, <1>4 DEF World
<1> HIDE DEF L, J
<1>10. Good(r, u, M, J)
  BY <1>4, <1>8, <1>9, GoodNaming
<1>11. World(L) /\ BornBefore(L, m)
  BY <1>3, <1>7, MovesWorld
<1>12. BornBefore(L, m + 1)
  BY <1>11 DEF BornBefore
<1>13. Plain(L, J)
  <2>1. Plain(M, J)
    BY <1>10 DEF Good
  <2> QED
    BY <1>3, <1>7, <1>8, <2>1, MovesPlain
<1>14. StepAt(c, J, m + 1, M, L)
  BY <1>1, <1>7, <1>8 DEF StepAt
<1> QED
  BY <1>8, <1>10, <1>11, <1>12, <1>13, <1>14 DEF NewWorld

(* The past up to m, and the world that c makes.                           *)
Extends(O, G, N, F, J, m, c, L) ==
  /\ Past(O, G, J, m + 1) /\ O[m + 1] = L /\ \A i \in 0 .. m : O[i] = N[i]
  /\ G[m + 1] = c /\ \A i \in 1 .. m : G[i] = F[i]

LEMMA PastMore ==
  ASSUME NEW N, NEW F, NEW K, NEW n, Past(N, F, K, n), NEW m \in 0 .. n,
         NEW c, NEW L, NEW J, NEW r, NEW u, NEW M, M = N[m],
         NewWorld(r, u, M, K, m, c, L, J)
  PROVE  \E O, G : Extends(O, G, N, F, J, m, c, L)
<1> DEFINE O == [i \in 0 .. m + 1 |-> IF i = m + 1 THEN L ELSE N[i]]
           G == [i \in 1 .. m + 1 |-> IF i = m + 1 THEN c ELSE F[i]]
<1>1. /\ n \in Nat /\ m \in Nat /\ m <= n /\ DOMAIN N[0] = InitialKeys
      /\ \A i \in 0 .. n : WorldAt(N[i], F, K, i)
      /\ \A i \in 1 .. n : StepAt(F[i], K, i, N[i - 1], N[i])
  BY DEF Past
<1>2. /\ \A i \in 0 .. m : O[i] = N[i] /\ i \in 0 .. n
      /\ \A i \in 1 .. m : G[i] = F[i] /\ i \in 1 .. n
      /\ O[m + 1] = L /\ G[m + 1] = c
  BY <1>1
<1> HIDE DEF O, G
<1>4. ASSUME NEW i \in 0 .. m PROVE WorldAt(O[i], G, J, i)
  <2>1. WorldAt(N[i], F, K, i) /\ O[i] = N[i]
    BY <1>1, <1>2
  <2>2. (\A j \in 1 .. i : G[j].op = "create") => \A j \in 1 .. i : F[j].op = "create"
    BY <1>1, <1>2
  <2>3. Plain(N[i], J)
    BY <2>1 DEF WorldAt, Plain, NewWorld
  <2> QED
    BY <2>1, <2>2, <2>3 DEF WorldAt
<1>5. WorldAt(L, G, J, m + 1)
  <2>1. ASSUME \A j \in 1 .. m + 1 : G[j].op = "create" PROVE TrueNames(L)
    <3>1. c.op = "create" /\ \A j \in 1 .. m : F[j].op = "create"
      BY <1>1, <1>2, <2>1
    <3>2. TrueNames(N[m])
      BY <1>1, <3>1 DEF WorldAt
    <3> QED
      BY <3>1, <3>2 DEF NewWorld
  <2> QED
    BY <2>1 DEF WorldAt, NewWorld
<1>6. ASSUME NEW i \in 1 .. m PROVE StepAt(G[i], J, i, O[i - 1], O[i])
  <2>1. StepAt(F[i], K, i, N[i - 1], N[i]) /\ G[i] = F[i] /\ O[i] = N[i] /\ O[i - 1] = N[i - 1]
    BY <1>1, <1>2
  <2> QED
    BY <2>1 DEF StepAt, NewWorld
<1>7. StepAt(G[m + 1], J, m + 1, O[m + 1 - 1], O[m + 1])
  BY <1>1, <1>2 DEF NewWorld
<1>8. Past(O, G, J, m + 1)
  <2>1. \A i \in 0 .. m + 1 : WorldAt(O[i], G, J, i)
    BY <1>1, <1>2, <1>4, <1>5
  <2>2. \A i \in 1 .. m + 1 : StepAt(G[i], J, i, O[i - 1], O[i])
    BY <1>1, <1>6, <1>7
  <2>3. DOMAIN O[0] = InitialKeys
    BY <1>1, <1>2
  <2> QED
    BY <1>1, <2>1, <2>2, <2>3 DEF Past
<1> QED
  BY <1>2, <1>8 DEF Extends

-----------------------------------------------------------------------------
(* What a command in the history does to the items.                        *)
Advanced(c, t, s, v) ==
  /\ Ready(s, v)
  /\ c.op = "create" => /\ Steady(t, v.tree)
                        /\ Open(t[c.path]) => Target(c) \in DOMAIN v.tree /\ Open(v.tree[Target(c)])
  /\ c.op = "rename" => ItemsMove(c.path, Target(c), t, v.tree)

LEMMA ExecuteReady ==
  ASSUME NEW r \in SUBSET Path, NEW u, Ready(r, u),
         NEW M, NEW L, NEW K, NEW i, NEW c, StepAt(c, K, i, M, L), World(L),
         Good(r, u, M, K), u.tree[c.path].item,
         NEW o \in Execute(r, u, c), ~Refused(r, u, o)
  PROVE  o.ui.status = "noRoot" \/ Advanced(c, u.tree, o.reg, o.ui)
<1>1. /\ c \in Command /\ M[c.path] \in K /\ World(M) /\ Fits(r, u.tree, M, K) /\ r = DOMAIN M
      /\ Sound(u) /\ u.status = "running" /\ AtHome(r, u.tree)
  BY DEF StepAt, Good, Fits, Ready, Fair
<1>2. c.path \in DOMAIN M
  BY DEF StepAt, Adds, Moves
<1>3. c.path \in DOMAIN u.tree /\ Listed(r, u.tree, c.path)
  BY <1>1, <1>2 DEF Fits
<1>4. CASE c.op = "create"
  <2>1. /\ L[Target(c)] \in K /\ Adds(c.path, c.name, Target(c), i, M, L)
        /\ Target(c) = Child(c.path, c.name) /\ c.path \in Path /\ c.name \in Name
    BY <1>1, <1>4, TargetIs DEF StepAt
  <2>2. o \in CreateKey(r, u, c.path, c.name)
    BY <1>4 DEF Execute
  <2>3. Target(c) \notin DOMAIN u.tree
    BY <1>1, <2>1 DEF Adds, AtHome
  <2>4. CASE Stopped(o)
    BY <1>1, <1>3, <2>1, <2>2, <2>3, <2>4, CreateStops
  <2>5. CASE ~Stopped(o)
    <3>1. Created(r, u, c.path, c.name, Target(c), o)
      BY <1>1, <2>1, <2>2, <2>5, CreateShape
    <3>2. /\ ReadyAfter(o.reg, u, o.ui)
          /\ Open(u.tree[c.path]) => Target(c) \in DOMAIN o.ui.tree /\ Open(o.ui.tree[Target(c)])
      BY <1>3, <2>1, <3>1, CreateReady
    <3> QED
      BY <1>4, <3>2 DEF Advanced, ReadyAfter
  <2> QED
    BY <2>4, <2>5
<1>5. CASE c.op = "rename"
  <2>1. /\ Moves(c.path, Target(c), M, L)
        /\ Target(c) = Child(Front(c.path), c.name) /\ c.path \in Path /\ c.name \in Name
    BY <1>1, <1>5, TargetIs DEF StepAt
  <2>2. o \in RenameKey(r, u, c.path, c.name)
    BY <1>5 DEF Execute
  <2>3. Target(c) \notin DOMAIN u.tree
    BY <1>1, <2>1 DEF Moves, AtHome
  <2>4. CASE Stopped(o)
    <3>1. ~KeyRenamed(r, u, c.path, Target(c), o)
      BY <2>4 DEF KeyRenamed, Stopped
    <3> QED
      BY <1>1, <2>1, <2>2, <2>3, <3>1, RenameCases
  <2>5. CASE ~Stopped(o)
    <3>1. KeyRenamed(r, u, c.path, Target(c), o)
      BY <1>1, <2>1, <2>2, <2>5, RenameShape
    <3>2. Sound(o.ui) /\ AtHome(o.reg, o.ui.tree)
      BY <1>1, <2>1, <2>2, <2>5, RenameAtHome, RenameKeyGood DEF GoodOutcome
    <3>3. Ready(o.reg, o.ui) /\ ItemsMove(c.path, Target(c), u.tree, o.ui.tree)
      BY <1>1, <1>3, <2>1, <3>1, <3>2, RenameReady
    <3> QED
      BY <1>5, <3>3 DEF Advanced
  <2> QED
    BY <2>4, <2>5
<1> QED
  BY <1>1, <1>4, <1>5, TargetIs

(* What taking it back does.                                               *)
Returned(c, t, s, v) ==
  /\ Ready(s, v)
  /\ c.op = "create" => ItemsStay(Target(c), t, v.tree)
  /\ c.op = "rename" => ItemsMove(Target(c), c.path, t, v.tree)

LEMMA UndoReady ==
  ASSUME NEW r \in SUBSET Path, NEW u, Ready(r, u),
         NEW M, NEW L, NEW K, NEW i, NEW c, StepAt(c, K, i, M, L), World(M),
         Good(r, u, L, K),
         c.op = "create" => Open(u.tree[c.path]) \/ SubKeys(DOMAIN M, c.path) # {},
         NEW o \in UndoCommand(r, u, Done(c)), ~Refused(r, u, o)
  PROVE  o.ui.status \in {"noRoot", "wiped"} \/ Returned(c, u.tree, o.reg, o.ui)
<1>1. /\ c \in Command /\ M[c.path] \in K /\ World(L) /\ Fits(r, u.tree, L, K) /\ r = DOMAIN L
      /\ Sound(u) /\ u.status = "running" /\ AtHome(r, u.tree)
  BY DEF StepAt, Good, Fits, Ready, Fair
<1>2. CASE c.op = "create"
  <2>1. /\ Adds(c.path, c.name, Target(c), i, M, L) /\ L[Target(c)] \in K
        /\ Target(c) = Child(c.path, c.name) /\ c.path \in Path /\ c.name \in Name
        /\ Done(c) = c
    BY <1>1, <1>2, TargetIs DEF StepAt
  <2>2. o \in DeleteKey(r, u, c.path, c.name)
    BY <1>2, <2>1 DEF UndoCommand
  <2>3. PICK dead : dead = [u EXCEPT !.tree = KillHandles(u.tree, Target(c))]
    OBVIOUS
  <2>4. Target(c) \in DOMAIN u.tree /\ c.path \in DOMAIN u.tree
    <3>1. Target(c) \in DOMAIN u.tree /\ Closed(u.tree) /\ IsTree(u.tree)
      BY <1>1, <2>1 DEF Fits, Adds, Ready, Fair, Rooted
    <3>2. Target(c) # <<>> /\ Front(Target(c)) = c.path
      BY <2>1, ChildFacts
    <3> QED
      BY <3>1, <3>2, ParentInTree
  <2>5. (Stopped(o) /\ o.ui.status = "noRoot") \/ Removed(r, u, c.path, Target(c), dead, o)
    BY <1>1, <2>1, <2>2, <2>3, <2>4, DeleteCases
  <2>6. CASE Removed(r, u, c.path, Target(c), dead, o)
    <3>1. \/ o.ui.status = "wiped"
          \/ Ready(o.reg, o.ui) /\ ItemsStay(Target(c), u.tree, o.ui.tree)
      <4>1. PICK p, x, q : p = c.path /\ x = c.name /\ q = Target(c)
        OBVIOUS
      <4>2. /\ q = Child(p, x) /\ Removed(r, u, p, q, dead, o) /\ Adds(p, x, q, i, M, L)
            /\ Open(u.tree[p]) \/ SubKeys(DOMAIN M, p) # {}
        BY <1>2, <2>1, <2>6, <4>1
      <4>3. \/ o.ui.status = "wiped"
            \/ Ready(o.reg, o.ui) /\ ItemsStay(q, u.tree, o.ui.tree)
        BY <4>2, DeleteReady
      <4> QED
        BY <4>1, <4>3
    <3> QED
      BY <1>2, <3>1 DEF Returned
  <2> QED
    BY <2>5, <2>6
<1>3. CASE c.op = "rename"
  <2>1. /\ Moves(c.path, Target(c), M, L) /\ c.path \in Path /\ c.path # <<>>
        /\ Target(c) \in Path
    BY <1>1, <1>3, TargetIs DEF StepAt, Moves, Sibling
  <2>2. PICK d : d = Done(c)
    OBVIOUS
  <2>3. /\ d \in Command /\ d.op = "rename" /\ d.path = Target(c) /\ Target(d) = c.path
        /\ c.path = Child(Front(d.path), d.name) /\ d.name \in Name /\ d.path \in Path
    BY <1>1, <1>3, <2>1, <2>2, DoneRename, TargetIs
  <2>4. o \in RenameKey(r, u, d.path, d.name)
    BY <2>2, <2>3 DEF UndoCommand
  <2>5. Moves(d.path, c.path, L, M)
    BY <2>1, <2>3, MovesWorld
  <2>6. L[d.path] \in K
    <3>1. Rebase(c.path, d.path, c.path) = d.path
      BY <2>1, <2>3, SiblingFacts DEF Moves
    <3>2. L[Rebase(c.path, d.path, c.path)] = M[c.path]
      BY <2>1, <2>3 DEF Moves
    <3> QED
      BY <1>1, <3>1, <3>2
  <2>7. d.path \in DOMAIN u.tree /\ c.path \notin DOMAIN u.tree
    BY <1>1, <2>5, <2>6 DEF Fits, Moves, AtHome
  <2>8. CASE Stopped(o)
    <3>1. ~KeyRenamed(r, u, d.path, c.path, o)
      BY <2>8 DEF KeyRenamed, Stopped
    <3> QED
      BY <1>1, <2>3, <2>4, <2>7, <3>1, RenameCases
  <2>9. CASE ~Stopped(o)
    <3>1. KeyRenamed(r, u, d.path, c.path, o)
      BY <1>1, <2>3, <2>4, <2>9, RenameShape
    <3>2. Sound(o.ui) /\ AtHome(o.reg, o.ui.tree)
      BY <1>1, <2>3, <2>4, <2>9, RenameAtHome, RenameKeyGood DEF GoodOutcome
    <3>3. Ready(o.reg, o.ui) /\ ItemsMove(d.path, c.path, u.tree, o.ui.tree)
      BY <1>1, <2>5, <2>6, <2>7, <3>1, <3>2, RenameReady
    <3> QED
      BY <1>3, <2>3, <3>3 DEF Returned
  <2> QED
    BY <2>8, <2>9
<1> QED
  BY <1>1, <1>2, <1>3, TargetIs

(* A new command at the selected node stops only at the hive.              *)
LEMMA PushStops ==
  ASSUME NEW r \in SUBSET Path, NEW u, Ready(r, u), NEW c \in Command, c.path = u.cur,
         c.op = "create" => Target(c) \notin DOMAIN u.tree,
         NEW o \in Execute(r, u, c), ~Refused(r, u, o), Stopped(o)
  PROVE  o.ui.status = "noRoot"
<1>1. /\ Sound(u) /\ u.status = "running" /\ AtHome(r, u.tree) /\ u.cur \in DOMAIN u.tree
      /\ u.tree[u.cur].item /\ c.path \in Path /\ c.name \in Name /\ c.op \in {"create", "rename"}
  BY TargetIs DEF Ready, Fair, Rooted
<1>2. CASE c.op = "create"
  BY <1>1, <1>2, CreateStops, TargetIs DEF Execute
<1>3. CASE c.op = "rename"
  <2>1. Target(c) = Child(Front(c.path), c.name) /\ o \in RenameKey(r, u, c.path, c.name)
    BY <1>3, TargetIs DEF Execute
  <2>2. ~KeyRenamed(r, u, c.path, Target(c), o)
    BY DEF KeyRenamed, Stopped
  <2>3. ~(Target(c) \in DOMAIN u.tree /\ Target(c) \notin r)
    BY <1>1 DEF AtHome
  <2> QED
    BY <1>1, <2>1, <2>2, <2>3, RenameCases
<1> QED
  BY <1>1, <1>2, <1>3

-----------------------------------------------------------------------------
(* Items in the history.  In every world a key has the same parent.  I are *)
(* the keys that have an item whenever they are there, and E those of them *)
(* whose item is open, so that all that has an item hangs below one of E.  *)
(* The key a New Key was given at had an item; and either it was open, or  *)
(* it had subkeys, for which there was a placeholder.                      *)

KinTo(A, B) ==
  \A y \in DOMAIN A, z \in DOMAIN B : A[y] = B[z] =>
    /\ y = <<>> <=> z = <<>>
    /\ y # <<>> => A[Front(y)] = B[Front(z)]

Hangs(M, I, E) == \A y \in DOMAIN M : y # <<>> /\ M[y] \in I => M[Front(y)] \in E

GivenAt(c, M, I, E) ==
  /\ M[c.path] \in I
  /\ c.op = "create" => M[c.path] \in E \/ SubKeys(DOMAIN M, c.path) # {}

Kept(N, F, n, I, E) ==
  /\ E \subseteq I
  /\ \A i, k \in 0 .. n : KinTo(N[i], N[k])
  /\ \A i \in 0 .. n : Hangs(N[i], I, E)
  /\ \A i \in 1 .. n : GivenAt(F[i], N[i - 1], I, E)

Holds(t, M, I, E) ==
  \A y \in DOMAIN M : /\ M[y] \in I => y \in DOMAIN t /\ t[y].item
                      /\ M[y] \in E => y \in DOMAIN t /\ Open(t[y])

LEMMA HoldsSteady ==
  ASSUME NEW t, NEW v, Steady(t, v), NEW M, NEW I, NEW E, Holds(t, M, I, E)
  PROVE  Holds(v, M, I, E)
  BY DEF Holds, Steady

LEMMA HoldsExecute ==
  ASSUME NEW c, NEW K, NEW i, NEW M, NEW L, StepAt(c, K, i, M, L), World(M),
         NEW I, NEW E, E \subseteq I, Hangs(L, I, E),
         NEW t, Holds(t, M, I, E), NEW s, NEW v, Advanced(c, t, s, v)
  PROVE  Holds(v.tree, L, I, E)
<1>1. c \in Command /\ c.op \in {"create", "rename"}
  BY TargetIs DEF StepAt
<1>2. CASE c.op = "create"
  <2>1. PICK p, q : p = c.path /\ q = Target(c)
    OBVIOUS
  <2>2. /\ p \in DOMAIN M /\ DOMAIN L = DOMAIN M \union {q} /\ \A y \in DOMAIN M : L[y] = M[y]
        /\ p \in Path /\ c.name \in Name /\ q = Child(p, c.name)
    BY <1>1, <1>2, <2>1, TargetIs DEF StepAt, Adds
  <2>3. q # <<>> /\ Front(q) = p
    BY <2>2, ChildFacts
  <2>4. /\ Steady(t, v.tree) /\ (Open(t[p]) => q \in DOMAIN v.tree /\ Open(v.tree[q]))
    BY <1>2, <2>1 DEF Advanced
  <2>5. ASSUME L[q] \in I PROVE q \in DOMAIN v.tree /\ Open(v.tree[q])
    BY <2>2, <2>3, <2>4, <2>5 DEF Hangs, Holds
  <2>6. ASSUME NEW y \in DOMAIN M
        PROVE  /\ L[y] \in I => y \in DOMAIN v.tree /\ v.tree[y].item
               /\ L[y] \in E => y \in DOMAIN v.tree /\ Open(v.tree[y])
    BY <2>2, <2>4 DEF Holds, Steady
  <2> QED
    BY <2>2, <2>5, <2>6 DEF Holds, Open
<1>3. CASE c.op = "rename"
  <2>1. PICK p, q : p = c.path /\ q = Target(c)
    OBVIOUS
  <2>2. /\ DOMAIN L = Moved(p, q, DOMAIN M) /\ \A y \in DOMAIN M : L[Rebase(p, q, y)] = M[y]
        /\ ItemsMove(p, q, t, v.tree)
    BY <1>3, <2>1 DEF StepAt, Moves, Advanced
  <2>3. ASSUME NEW z \in DOMAIN L
        PROVE  /\ L[z] \in I => z \in DOMAIN v.tree /\ v.tree[z].item
               /\ L[z] \in E => z \in DOMAIN v.tree /\ Open(v.tree[z])
    <3>1. PICK y \in DOMAIN M : z = Rebase(p, q, y)
      BY <2>2 DEF Moved
    <3> QED
      BY <2>2, <3>1 DEF Holds, ItemsMove
  <2> QED
    BY <2>3 DEF Holds
<1> QED
  BY <1>1, <1>2, <1>3

LEMMA HoldsUndo ==
  ASSUME NEW c, NEW K, NEW i, NEW M, NEW L, StepAt(c, K, i, M, L), World(M),
         NEW I, NEW E, NEW t, Holds(t, L, I, E), NEW s, NEW v, Returned(c, t, s, v)
  PROVE  Holds(v.tree, M, I, E)
<1>1. c \in Command /\ c.op \in {"create", "rename"}
  BY TargetIs DEF StepAt
<1>2. CASE c.op = "create"
  <2>1. PICK q : q = Target(c)
    OBVIOUS
  <2>2. /\ q \notin DOMAIN M /\ DOMAIN L = DOMAIN M \union {q} /\ \A y \in DOMAIN M : L[y] = M[y]
        /\ ItemsStay(q, t, v.tree)
    BY <1>2, <2>1 DEF StepAt, Adds, Returned
  <2> QED
    BY <2>2 DEF Holds, ItemsStay
<1>3. CASE c.op = "rename"
  <2>1. PICK p, q : p = c.path /\ q = Target(c)
    OBVIOUS
  <2>2. Moves(p, q, M, L) /\ ItemsMove(q, p, t, v.tree)
    BY <1>3, <2>1 DEF StepAt, Returned
  <2>3. Moves(q, p, L, M)
    BY <2>2, MovesWorld
  <2>4. ASSUME NEW z \in DOMAIN M
        PROVE  /\ M[z] \in I => z \in DOMAIN v.tree /\ v.tree[z].item
               /\ M[z] \in E => z \in DOMAIN v.tree /\ Open(v.tree[z])
    <3>1. PICK y \in DOMAIN L : z = Rebase(q, p, y)
      BY <2>3 DEF Moves, Moved
    <3>2. M[z] = L[y]
      BY <2>3, <3>1 DEF Moves
    <3> QED
      BY <2>2, <3>1, <3>2 DEF Holds, ItemsMove
  <2> QED
    BY <2>4 DEF Holds
<1> QED
  BY <1>1, <1>2, <1>3

(* The parent of a key stays what it is.                                   *)
LEMMA KinStep ==
  ASSUME NEW c, NEW K, NEW m \in Nat, NEW M, NEW L, StepAt(c, K, m + 1, M, L), World(M), World(L),
         NEW A, World(A), BornBefore(A, m), KinTo(A, M)
  PROVE  KinTo(A, L) /\ KinTo(L, A)
<1>1. c \in Command /\ c.op \in {"create", "rename"}
  BY TargetIs DEF StepAt
<1>2. KinTo(A, L)
  <2>1. CASE c.op = "create"
    <3>1. PICK p, q : p = c.path /\ q = Target(c)
      OBVIOUS
    <3>2. /\ DOMAIN L = DOMAIN M \union {q} /\ \A y \in DOMAIN M : L[y] = M[y]
          /\ L[q].born = m + 1
      BY <2>1, <3>1 DEF StepAt, Adds
    <3>3. \A y \in DOMAIN A : A[y].born # m + 1
      BY DEF BornBefore
    <3>4. \A z \in DOMAIN M : z # <<>> => Front(z) \in DOMAIN M
      BY PrefixOfNamed, PrefixReflexive DEF World, ClosedSet
    <3>5. ASSUME NEW y \in DOMAIN A, NEW x \in DOMAIN L, A[y] = L[x]
          PROVE  (y = <<>> <=> x = <<>>) /\ (y # <<>> => A[Front(y)] = L[Front(x)])
      <4>1. x \in DOMAIN M /\ A[y] = M[x]
        BY <3>2, <3>3, <3>5
      <4>2. (y = <<>> <=> x = <<>>) /\ (y # <<>> => A[Front(y)] = M[Front(x)])
        BY <4>1 DEF KinTo
      <4> QED
        BY <3>2, <3>4, <4>1, <4>2
    <3> QED
      BY <3>5 DEF KinTo
  <2>2. CASE c.op = "rename"
    <3>1. PICK p, q : p = c.path /\ q = Target(c)
      OBVIOUS
    <3>2. /\ Sibling(p, q) /\ DOMAIN L = Moved(p, q, DOMAIN M)
          /\ \A y \in DOMAIN M : L[Rebase(p, q, y)] = M[y] /\ y \in Path
      BY <2>2, <3>1 DEF StepAt, Moves, World
    <3>3. \A z \in DOMAIN M : z # <<>> => Front(z) \in DOMAIN M
      BY PrefixOfNamed, PrefixReflexive DEF World, ClosedSet
    <3>4. Rebase(p, q, <<>>) = <<>>
      BY <3>2, OnlyRootAboveRoot, RebaseElsewhere DEF Sibling
    <3>5. ASSUME NEW y \in DOMAIN A, NEW x \in DOMAIN L, A[y] = L[x]
          PROVE  (y = <<>> <=> x = <<>>) /\ (y # <<>> => A[Front(y)] = L[Front(x)])
      <4>1. PICK z \in DOMAIN M : x = Rebase(p, q, z)
        BY <3>2 DEF Moved
      <4>2. A[y] = M[z]
        BY <3>2, <3>5, <4>1
      <4>3. (y = <<>> <=> z = <<>>) /\ (y # <<>> => A[Front(y)] = M[Front(z)])
        BY <4>2 DEF KinTo
      <4>4. CASE z = <<>>
        BY <3>4, <4>1, <4>3, <4>4
      <4>5. CASE z # <<>>
        <5>1. Front(x) = Rebase(p, q, Front(z)) /\ x # <<>>
          BY <3>2, <4>1, <4>5, MovedChild
        <5> QED
          BY <3>2, <3>3, <4>3, <4>5, <5>1
      <4> QED
        BY <4>4, <4>5
    <3> QED
      BY <3>5 DEF KinTo
  <2> QED
    BY <1>1, <2>1, <2>2
<1> QED
  BY <1>2 DEF KinTo

NewItems(N, F, n, t, M) == \E I, E : Kept(N, F, n, I, E) /\ Holds(t, M, I, E)

(* A new command: the keys with an item are those that still have to have  *)
(* one, and those that have one now.                                       *)
LEMMA KeptMore ==
  ASSUME NEW N, NEW F, NEW n, NEW I, NEW E, Kept(N, F, n, I, E), NEW m \in Nat, m <= n, n \in Nat,
         NEW M, M = N[m], NEW t, Holds(t, M, I, E), Items(DOMAIN M, t), IsTree(t), Closed(t),
         DOMAIN t \subseteq DOMAIN M,
         NEW c, c.path \in DOMAIN t, t[c.path].item,
         NEW O, NEW G, NEW J, NEW L, Extends(O, G, N, F, J, m, c, L)
  PROVE  NewItems(O, G, m + 1, t, M)
<1> DEFINE had == {y \in DOMAIN t : t[y].item}
           opened == {y \in DOMAIN t : Open(t[y])}
           I2 == {o \in I : o.born \in 0 .. m} \union {M[y] : y \in had}
           E2 == {o \in E : o.born \in 0 .. m} \union {M[y] : y \in opened}
<1>1. /\ Past(O, G, J, m + 1) /\ O[m + 1] = L /\ G[m + 1] = c /\ \A i \in 1 .. m : G[i] = F[i]
      /\ \A i \in 0 .. m : O[i] = N[i]
  BY DEF Extends
<1>2. /\ \A i \in 0 .. m + 1 : WorldAt(O[i], G, J, i)
      /\ StepAt(c, J, m + 1, M, L)
  <2>1. /\ m + 1 \in 1 .. m + 1 /\ m \in 0 .. m /\ m + 1 - 1 = m
        /\ \A i \in 0 .. m + 1 : WorldAt(O[i], G, J, i)
        /\ \A i \in 1 .. m + 1 : StepAt(G[i], J, i, O[i - 1], O[i])
    BY <1>1 DEF Past
  <2>2. StepAt(G[m + 1], J, m + 1, O[m + 1 - 1], O[m + 1])
    BY <2>1
  <2> QED
    BY <1>1, <2>1, <2>2
<1>3. /\ \A i \in 0 .. m : World(N[i]) /\ BornBefore(N[i], m)
      /\ World(M) /\ BornBefore(M, m) /\ World(L) /\ m \in 0 .. n
      /\ \A i \in 0 .. m : i \in 0 .. n
  <2>1. ASSUME NEW i \in 0 .. m PROVE World(N[i]) /\ BornBefore(N[i], m)
    <3>1. World(N[i]) /\ BornBefore(N[i], i)
      BY <1>1, <1>2, <2>1 DEF WorldAt
    <3> QED
      BY <3>1 DEF BornBefore
  <2>2. m + 1 \in 0 .. m + 1 /\ m \in 0 .. m
    OBVIOUS
  <2> QED
    BY <1>1, <1>2, <2>1, <2>2 DEF WorldAt
<1>4. /\ \A o : o \in I2 <=> (o \in I /\ o.born \in 0 .. m) \/ \E y \in DOMAIN t : t[y].item /\ o = M[y]
      /\ \A o : o \in E2 <=> (o \in E /\ o.born \in 0 .. m) \/ \E y \in DOMAIN t : Open(t[y]) /\ o = M[y]
  OBVIOUS
<1> HIDE DEF I2, E2
<1>5. /\ E \subseteq I
      /\ \A i, k \in 0 .. n : KinTo(N[i], N[k])
      /\ \A i \in 0 .. n : Hangs(N[i], I, E)
      /\ \A i \in 1 .. n : GivenAt(F[i], N[i - 1], I, E)
  BY DEF Kept
<1>6. E2 \subseteq I2
  BY <1>4, <1>5 DEF Open
<1>7. Holds(t, M, I2, E2)
  <2>1. \A y, z \in DOMAIN M : M[y] = M[z] => y = z
    BY <1>3 DEF World
  <2>2. ASSUME NEW y \in DOMAIN M, M[y] \in I2 PROVE y \in DOMAIN t /\ t[y].item
    BY <1>4, <2>1, <2>2 DEF Holds
  <2>3. ASSUME NEW y \in DOMAIN M, M[y] \in E2 PROVE y \in DOMAIN t /\ Open(t[y])
    BY <1>4, <2>1, <2>3 DEF Holds
  <2> QED
    BY <2>2, <2>3 DEF Holds
<1>8. ASSUME NEW A, World(A), BornBefore(A, m), Hangs(A, I, E), KinTo(A, M)
      PROVE  Hangs(A, I2, E2)
  <2> SUFFICES ASSUME NEW y \in DOMAIN A, y # <<>>, A[y] \in I2 PROVE A[Front(y)] \in E2
    BY DEF Hangs
  <2>1. Front(y) \in DOMAIN A
    BY <1>8, PrefixOfNamed, PrefixReflexive DEF World, ClosedSet
  <2>2. CASE A[y] \in I
    BY <1>4, <1>8, <2>1, <2>2 DEF Hangs, BornBefore
  <2>3. CASE A[y] \notin I
    <3>1. PICK z \in DOMAIN t : t[z].item /\ A[y] = M[z]
      BY <1>4, <2>3
    <3>2. z # <<>> /\ A[Front(y)] = M[Front(z)]
      BY <1>8, <3>1 DEF KinTo
    <3>3. Front(z) \in DOMAIN t
      BY <3>2, ParentInTree
    <3>4. Open(t[Front(z)])
      BY <3>1, <3>2 DEF Items, Nests
    <3> QED
      BY <1>4, <3>2, <3>3, <3>4
  <2> QED
    BY <2>2, <2>3
<1>9. \A i \in 0 .. m : Hangs(N[i], I2, E2)
  BY <1>3, <1>5, <1>8
<1>10. Hangs(M, I2, E2)
  BY <1>3, <1>9
<1>11. Hangs(L, I2, E2)
  <2>1. c \in Command /\ c.op \in {"create", "rename"}
    BY <1>2, TargetIs DEF StepAt
  <2>2. \A y \in DOMAIN M : y # <<>> => Front(y) \in DOMAIN M
    BY <1>3, PrefixOfNamed, PrefixReflexive DEF World, ClosedSet
  <2>3. CASE c.op = "create"
    <3>1. PICK p, q : p = c.path /\ q = Target(c)
      OBVIOUS
    <3>2. /\ DOMAIN L = DOMAIN M \union {q} /\ \A y \in DOMAIN M : L[y] = M[y]
          /\ L[q].born = m + 1
      BY <1>2, <2>3, <3>1 DEF StepAt, Adds
    <3>3. L[q] \notin I2
      BY <1>3, <1>4, <3>2 DEF BornBefore
    <3> QED
      BY <1>10, <2>2, <3>2, <3>3 DEF Hangs
  <2>4. CASE c.op = "rename"
    <3>1. PICK p, q : p = c.path /\ q = Target(c)
      OBVIOUS
    <3>2. /\ Sibling(p, q) /\ DOMAIN L = Moved(p, q, DOMAIN M)
          /\ \A y \in DOMAIN M : L[Rebase(p, q, y)] = M[y] /\ y \in Path
      BY <1>2, <1>3, <2>4, <3>1 DEF StepAt, Moves, World
    <3>3. Rebase(p, q, <<>>) = <<>>
      BY <3>2, OnlyRootAboveRoot, RebaseElsewhere DEF Sibling
    <3>4. ASSUME NEW x \in DOMAIN L, x # <<>>, L[x] \in I2 PROVE L[Front(x)] \in E2
      <4>1. PICK z \in DOMAIN M : x = Rebase(p, q, z)
        BY <3>2 DEF Moved
      <4>2. z # <<>> /\ M[z] \in I2
        BY <3>2, <3>3, <3>4, <4>1
      <4>3. Front(x) = Rebase(p, q, Front(z))
        BY <3>2, <4>1, <4>2, MovedChild
      <4> QED
        BY <1>10, <2>2, <3>2, <4>2, <4>3 DEF Hangs
    <3> QED
      BY <3>4 DEF Hangs
  <2> QED
    BY <2>1, <2>3, <2>4
<1>12. \A i \in 0 .. m + 1 : Hangs(O[i], I2, E2)
  BY <1>1, <1>9, <1>11
<1>13. \A i, k \in 0 .. m + 1 : KinTo(O[i], O[k])
  <2>1. ASSUME NEW i \in 0 .. m PROVE KinTo(N[i], L) /\ KinTo(L, N[i])
    <3>1. KinTo(N[i], M)
      BY <1>3, <1>5
    <3> QED
      BY <1>2, <1>3, <3>1, KinStep
  <2>2. KinTo(L, L)
    BY <1>3 DEF World, KinTo
  <2>3. ASSUME NEW i \in 0 .. m, NEW k \in 0 .. m PROVE KinTo(O[i], O[k])
    BY <1>1, <1>3, <1>5
  <2>4. \A i \in 0 .. m + 1 : i \in 0 .. m \/ i = m + 1
    OBVIOUS
  <2> QED
    BY <1>1, <2>1, <2>2, <2>3, <2>4
<1>14. ASSUME NEW i \in 1 .. m PROVE GivenAt(G[i], O[i - 1], I2, E2)
  <2>1. /\ i \in 1 .. n /\ i - 1 \in 0 .. m /\ G[i] = F[i] /\ O[i - 1] = N[i - 1]
        /\ i \in 1 .. m + 1
    BY <1>1
  <2>2. GivenAt(F[i], N[i - 1], I, E) /\ BornBefore(N[i - 1], m)
    BY <1>3, <1>5, <2>1
  <2>3. F[i].path \in DOMAIN N[i - 1]
    BY <1>1, <2>1 DEF Past, StepAt, Adds, Moves
  <2>4. N[i - 1][F[i].path].born \in 0 .. m
    BY <2>2, <2>3 DEF BornBefore
  <2> QED
    BY <1>4, <2>1, <2>2, <2>4 DEF GivenAt
<1>15. GivenAt(c, M, I2, E2)
  <2>1. M[c.path] \in I2 /\ (Open(t[c.path]) => M[c.path] \in E2)
    BY <1>4
  <2>2. ~Open(t[c.path]) => SubKeys(DOMAIN M, c.path) # {}
    BY DEF Items, Marked, Open
  <2> QED
    BY <2>1, <2>2 DEF GivenAt
<1>16. \A i \in 1 .. m + 1 : GivenAt(G[i], O[i - 1], I2, E2)
  <2>1. \A i \in 1 .. m + 1 : i \in 1 .. m \/ i = m + 1
    OBVIOUS
  <2>2. O[m + 1 - 1] = M
    BY <1>1
  <2> QED
    BY <1>1, <1>14, <1>15, <2>1, <2>2
<1>17. Kept(O, G, m + 1, I2, E2)
  BY <1>6, <1>12, <1>13, <1>16 DEF Kept
<1> QED
  BY <1>7, <1>17 DEF NewItems

-----------------------------------------------------------------------------
(* What the history says of the items, for the nodes S that a Refresh has  *)
(* still to look at.                                                       *)
Tracked(r, u, S, N, F, m, n) ==
  /\ Ready(r, u) /\ Pending(r, u.tree, S)
  /\ \E I, E : Kept(N, F, n, I, E) /\ Holds(u.tree, N[m], I, E)

ToDo == IF refreshing THEN todo ELSE {}

LEMMA TrackedSteady ==
  ASSUME NEW r, NEW u, NEW S, NEW N, NEW F, NEW m, NEW n, Tracked(r, u, S, N, F, m, n),
         NEW v, Ready(r, v), Steady(u.tree, v.tree), NEW S2, S2 \subseteq S
  PROVE  Tracked(r, v, S2, N, F, m, n)
<1>1. Pending(r, v.tree, S2)
  BY DEF Tracked, Pending, Listed, Kids, Steady
<1>2. PICK I, E : Kept(N, F, n, I, E) /\ Holds(u.tree, N[m], I, E)
  BY DEF Tracked
<1>3. Holds(v.tree, N[m], I, E)
  BY <1>2, HoldsSteady
<1> QED
  BY <1>1, <1>2, <1>3 DEF Tracked

LEMMA InitTracked ==
  ASSUME Init, NEW N, NEW F, World(N[0])
  PROVE  Tracked(reg, ui, ToDo, N, F, 0, 0)
<1>1. Ready(reg, ui) /\ Pending(reg, ui.tree, ToDo)
  BY InitialReady DEF Pending, ToDo, Init
<1>2. KinTo(N[0], N[0])
  BY DEF KinTo, World
<1>3. Hangs(N[0], {}, {}) /\ Holds(ui.tree, N[0], {}, {})
  BY DEF Hangs, Holds
<1>4. Kept(N, F, 0, {}, {})
  <2>1. \A i \in 0 .. 0 : i = 0
    OBVIOUS
  <2>2. 1 .. 0 = {}
    OBVIOUS
  <2> QED
    BY <1>2, <1>3, <2>1, <2>2 DEF Kept
<1> QED
  BY <1>1, <1>3, <1>4 DEF Tracked

LEMMA LookTracked ==
  ASSUME IInv, AtRest, Shows(reg, ui), Look,
         NEW N, NEW F, NEW m, NEW n, Tracked(reg, ui, ToDo, N, F, m, n)
  PROVE  Tracked(reg', ui', ToDo', N, F, m, n)
<1>1. reg' = reg /\ ~refreshing' /\ ToDo' \subseteq ToDo
  BY LookKeeps, RestInv DEF AtRest, ToDo
<1>2. ReadyAfter(reg, ui, ui')
  BY LookReady DEF Tracked
<1> QED
  BY <1>1, <1>2, TrackedSteady DEF ReadyAfter

LEMMA RefreshTracked ==
  ASSUME IInv, DeletedKey \notin Name, OnRefresh \/ RefreshStep,
         NEW N, NEW F, NEW m, NEW n, Tracked(reg, ui, ToDo, N, F, m, n)
  PROVE  Tracked(reg', ui', ToDo', N, F, m, n)
<1>1. Ready(reg, ui) /\ Pending(reg, ui.tree, ToDo)
  BY DEF Tracked
<1>2. CASE OnRefresh
  <2>1. reg' = reg /\ ui' = ui /\ ToDo' = todo'
    BY <1>2 DEF OnRefresh, ToDo
  <2>2. Pending(reg, ui.tree, todo')
    BY <1>1, <1>2, BeginReady
  <2> QED
    BY <2>1, <2>2 DEF Tracked
<1>3. CASE RefreshStep
  <2>1. refreshing /\ reg' = reg
    BY <1>3 DEF RefreshStep, RefreshRemove, RefreshAdd, RefreshEnd
  <2>2. ReadyAfter(reg, ui, ui') /\ (refreshing' => todo' \subseteq todo)
    BY <1>1, <1>3, <2>1, RefreshReady DEF ToDo
  <2>3. ToDo' \subseteq ToDo
    BY <2>1, <2>2 DEF ToDo
  <2> QED
    BY <2>1, <2>2, <2>3, TrackedSteady DEF ReadyAfter
<1> QED
  BY <1>2, <1>3

(* A refused command leaves all as it is; the others move in the history,  *)
(* or the hive, or an empty tree, stops the program.                       *)
LEMMA EndsTracked ==
  ASSUME IInv, AtRest, NEW c \in Command, NEW outcomes,
         outcomes \in {Execute(reg, ui, c), UndoCommand(reg, ui, c)},
         NEW o, Ends(outcomes, o),
         NEW N, NEW F, NEW m, NEW n, Tracked(reg, ui, ToDo, N, F, m, n)
  PROVE  /\ o.reg \in SUBSET Path /\ Ready(reg, ui)
         /\ Refused(reg, ui, o) => Tracked(reg', ui', {}, N, F, m, n)
         /\ o.ui.status \in {"noRoot", "wiped"} => ui'.status \in {"noRoot", "wiped"}
<1>1. o.reg \in SUBSET Path
  <2>1. GoodOutcome(ui, c.path, o)
    BY AtRestInv, CommandGood DEF Ends
  <2> QED
    BY <2>1 DEF GoodOutcome
<1>2. Ready(reg, ui)
  BY DEF Tracked
<1>3. ASSUME Refused(reg, ui, o) PROVE Tracked(reg', ui', {}, N, F, m, n)
  <2>1. reg' = reg /\ o.reg = reg /\ o.ui = ui
    BY <1>3 DEF Refused, Ends
  <2>2. Ready(reg', ui') /\ Steady(ui.tree, ui'.tree)
    BY <1>1, <1>2, <2>1, EndsReady
  <2> QED
    BY <2>1, <2>2, TrackedSteady
<1>4. o.ui.status \in {"noRoot", "wiped"} => ui'.status = o.ui.status
  BY EndsStops
<1> QED
  BY <1>1, <1>2, <1>3, <1>4

LEMMA RedoTracked ==
  ASSUME IInv, AtRest, NEW N, NEW F, NEW K, NEW n \in Nat, Past(N, F, K, n),
         NEW m \in 0 .. n, m + 1 \in 1 .. n, Good(reg, ui, N[m], K),
         Tracked(reg, ui, ToDo, N, F, m, n),
         NEW c, c = F[m + 1], NEW o, Ends(Execute(reg, ui, c), o), ~Refused(reg, ui, o)
  PROVE  ui'.status \in {"noRoot", "wiped"} \/ Tracked(reg', ui', {}, N, F, m + 1, n)
<1>1. /\ m + 1 \in 0 .. n /\ m + 1 - 1 = m /\ World(N[m + 1]) /\ World(N[m])
      /\ c \in Command /\ StepAt(c, K, m + 1, N[m + 1 - 1], N[m + 1])
  BY CommandAt
<1>2. /\ o.reg \in SUBSET Path /\ Ready(reg, ui) /\ reg \in SUBSET Path
      /\ o.ui.status \in {"noRoot", "wiped"} => ui'.status \in {"noRoot", "wiped"}
      /\ o \in Execute(reg, ui, c)
  BY <1>1, AtRestInv, EndsTracked DEF Ends
<1>3. PICK I, E : Kept(N, F, n, I, E) /\ Holds(ui.tree, N[m], I, E)
  BY DEF Tracked
<1>4. PICK M, L : M = N[m] /\ L = N[m + 1]
  OBVIOUS
<1>5. /\ StepAt(c, K, m + 1, M, L) /\ World(L) /\ World(M) /\ Good(reg, ui, M, K)
      /\ Holds(ui.tree, M, I, E) /\ Hangs(L, I, E) /\ E \subseteq I /\ GivenAt(c, M, I, E)
  BY <1>1, <1>3, <1>4 DEF Kept
<1>6. ui.tree[c.path].item
  BY <1>5 DEF GivenAt, Holds, StepAt, Adds, Moves
<1>7. o.ui.status = "noRoot" \/ Advanced(c, ui.tree, o.reg, o.ui)
  BY <1>2, <1>5, <1>6, ExecuteReady
<1>8. CASE Advanced(c, ui.tree, o.reg, o.ui)
  <2>1. Holds(o.ui.tree, L, I, E)
    BY <1>5, <1>8, HoldsExecute
  <2>2. Ready(reg', ui') /\ Steady(o.ui.tree, ui'.tree)
    BY <1>2, <1>8, EndsReady DEF Advanced
  <2>3. Holds(ui'.tree, L, I, E)
    BY <2>1, <2>2, HoldsSteady
  <2> QED
    BY <1>3, <1>4, <2>2, <2>3 DEF Tracked, Pending
<1> QED
  BY <1>2, <1>7, <1>8

LEMMA UndoTracked ==
  ASSUME IInv, AtRest, NEW N, NEW F, NEW K, NEW n \in Nat, Past(N, F, K, n),
         NEW m \in 1 .. n, Good(reg, ui, N[m], K),
         Tracked(reg, ui, ToDo, N, F, m, n),
         NEW c, c = Done(F[m]), NEW o, Ends(UndoCommand(reg, ui, c), o), ~Refused(reg, ui, o)
  PROVE  ui'.status \in {"noRoot", "wiped"} \/ Tracked(reg', ui', {}, N, F, m - 1, n)
<1>1. /\ World(N[m]) /\ World(N[m - 1]) /\ Plain(N[m - 1], K)
      /\ F[m] \in Command /\ c \in Command /\ StepAt(F[m], K, m, N[m - 1], N[m])
  BY CommandAt
<1>2. /\ o.reg \in SUBSET Path /\ Ready(reg, ui) /\ reg \in SUBSET Path
      /\ o.ui.status \in {"noRoot", "wiped"} => ui'.status \in {"noRoot", "wiped"}
      /\ o \in UndoCommand(reg, ui, c)
  BY <1>1, AtRestInv, EndsTracked DEF Ends
<1>3. PICK I, E : Kept(N, F, n, I, E) /\ Holds(ui.tree, N[m], I, E)
  BY DEF Tracked
<1>4. PICK M, L, d : M = N[m - 1] /\ L = N[m] /\ d = F[m]
  OBVIOUS
<1>5. /\ StepAt(d, K, m, M, L) /\ World(L) /\ World(M) /\ Good(reg, ui, L, K)
      /\ Holds(ui.tree, L, I, E) /\ GivenAt(d, M, I, E)
      /\ o \in UndoCommand(reg, ui, Done(d))
  BY <1>1, <1>2, <1>3, <1>4 DEF Kept
<1>6. d.op = "create" => Open(ui.tree[d.path]) \/ SubKeys(DOMAIN M, d.path) # {}
  <2>1. ASSUME d.op = "create", M[d.path] \in E PROVE Open(ui.tree[d.path])
    <3>1. Adds(d.path, d.name, Target(d), m, M, L)
      BY <1>5, <2>1 DEF StepAt
    <3>2. d.path \in DOMAIN L /\ L[d.path] = M[d.path]
      BY <3>1 DEF Adds
    <3> QED
      BY <1>5, <2>1, <3>2 DEF Holds
  <2> QED
    BY <1>5, <2>1 DEF GivenAt
<1>7. o.ui.status \in {"noRoot", "wiped"} \/ Returned(d, ui.tree, o.reg, o.ui)
  BY <1>2, <1>5, <1>6, UndoReady
<1>8. CASE Returned(d, ui.tree, o.reg, o.ui)
  <2>1. Holds(o.ui.tree, M, I, E)
    BY <1>5, <1>8, HoldsUndo
  <2>2. Ready(reg', ui') /\ Steady(o.ui.tree, ui'.tree)
    BY <1>2, <1>8, EndsReady DEF Returned
  <2>3. Holds(ui'.tree, M, I, E)
    BY <2>1, <2>2, HoldsSteady
  <2> QED
    BY <1>3, <1>4, <2>2, <2>3 DEF Tracked, Pending
<1> QED
  BY <1>2, <1>7, <1>8

(* A new command, given at the selected node.                              *)
LEMMA PushStopped ==
  ASSUME IInv, AtRest, NEW c \in Command, c.path = ui.cur,
         c.op = "create" => Target(c) \notin DOMAIN ui.tree,
         NEW N, NEW F, NEW m, NEW n, Tracked(reg, ui, ToDo, N, F, m, n),
         NEW o, Ends(Execute(reg, ui, c), o), ~Refused(reg, ui, o), Stopped(o)
  PROVE  ui'.status \in {"noRoot", "wiped"}
<1>1. /\ Ready(reg, ui) /\ reg \in SUBSET Path /\ o \in Execute(reg, ui, c)
      /\ o.ui.status \in {"noRoot", "wiped"} => ui'.status \in {"noRoot", "wiped"}
  BY AtRestInv, EndsTracked DEF Ends
<1> QED
  BY <1>1, PushStops

LEMMA PushTracked ==
  ASSUME IInv, AtRest, NEW c \in Command, c.path = ui.cur,
         NEW N, NEW F, NEW K, NEW n \in Nat, NEW m \in 0 .. n, Good(reg, ui, N[m], K),
         Tracked(reg, ui, ToDo, N, F, m, n),
         NEW o, Ends(Execute(reg, ui, c), o), ~Refused(reg, ui, o),
         NEW L, NEW J, NewWorld(reg, ui, N[m], K, m, c, L, J),
         NEW O, NEW G, Extends(O, G, N, F, J, m, c, L)
  PROVE  ui'.status \in {"noRoot", "wiped"} \/ Tracked(reg', ui', {}, O, G, m + 1, m + 1)
<1>1. /\ o.reg \in SUBSET Path /\ Ready(reg, ui) /\ reg \in SUBSET Path
      /\ o.ui.status \in {"noRoot", "wiped"} => ui'.status \in {"noRoot", "wiped"}
      /\ o \in Execute(reg, ui, c)
  BY AtRestInv, EndsTracked DEF Ends
<1>2. PICK M : M = N[m]
  OBVIOUS
<1>3. PICK I0, E0 : Kept(N, F, n, I0, E0) /\ Holds(ui.tree, M, I0, E0)
  BY <1>2 DEF Tracked
<1>4. /\ reg = DOMAIN M /\ DOMAIN ui.tree \subseteq DOMAIN M /\ Items(DOMAIN M, ui.tree)
      /\ IsTree(ui.tree) /\ Closed(ui.tree) /\ c.path \in DOMAIN ui.tree /\ ui.tree[c.path].item
      /\ World(M)
  BY <1>1, <1>2 DEF Good, Fits, Ready, Fair, Rooted, AtHome
<1>5. PICK I, E : Kept(O, G, m + 1, I, E) /\ Holds(ui.tree, M, I, E)
  <2>1. PICK t, p : t = ui.tree /\ p = c.path
    OBVIOUS
  <2>2. /\ m \in Nat /\ m <= n /\ Items(DOMAIN M, t) /\ IsTree(t) /\ Closed(t)
        /\ DOMAIN t \subseteq DOMAIN M /\ c.path \in DOMAIN t /\ t[c.path].item
        /\ Holds(t, M, I0, E0)
    BY <1>3, <1>4, <2>1
  <2>3. NewItems(O, G, m + 1, t, M)
    BY <1>2, <1>3, <2>2, KeptMore
  <2> QED
    BY <2>1, <2>3 DEF NewItems
<1>6. StepAt(c, J, m + 1, M, L) /\ World(L) /\ Good(reg, ui, M, J)
  BY <1>2 DEF NewWorld
<1>7. O[m + 1] = L /\ E \subseteq I /\ Hangs(L, I, E)
  <2>1. m + 1 \in 0 .. m + 1
    OBVIOUS
  <2> QED
    BY <1>5, <2>1 DEF Extends, Kept
<1>8. o.ui.status = "noRoot" \/ Advanced(c, ui.tree, o.reg, o.ui)
  BY <1>1, <1>4, <1>6, ExecuteReady
<1>9. CASE Advanced(c, ui.tree, o.reg, o.ui)
  <2>1. Holds(o.ui.tree, L, I, E)
    BY <1>4, <1>5, <1>6, <1>9, <1>7, HoldsExecute
  <2>2. Ready(reg', ui') /\ Steady(o.ui.tree, ui'.tree)
    BY <1>1, <1>9, EndsReady DEF Advanced
  <2>3. Holds(ui'.tree, L, I, E)
    BY <2>1, <2>2, HoldsSteady
  <2> QED
    BY <1>5, <1>7, <2>2, <2>3 DEF Tracked, Pending
<1> QED
  BY <1>1, <1>8, <1>9

-----------------------------------------------------------------------------
(* What explains the state.  Refresh lists the backup key, which Expand    *)
(* skips, so of the items this says something only if no subkey is called  *)
(* like it; then nothing but the hive itself or an empty tree stops the    *)
(* program.                                                                *)
Explained ==
  \E N, F, K, m, n :
    /\ Past(N, F, K, n) /\ m \in 0 .. n /\ Lists(undoList, redoList, F, m, n)
    /\ Fits(reg, ui.tree, N[m], K)
    /\ ~refreshing => Shows(reg, ui)
    /\ DeletedKey \notin Name => Tracked(reg, ui, ToDo, N, F, m, n)

HInv == IInv /\ (Running => Explained) /\ (DeletedKey \notin Name => StopsAlone)
LEMMA InitExplained == Init => HInv
<1>0. Init => StopsAlone
  BY DEF Init, StopsAlone
<1> SUFFICES ASSUME Init PROVE Explained
  BY <1>0, InitInv DEF HInv
<1> DEFINE M == [y \in InitialKeys |-> [full |-> y, born |-> 0]]
           N == [i \in {0} |-> M]
           F == [i \in {} |-> <<>>]
<1>1. World(M) /\ Plain(M, {}) /\ BornBefore(M, 0) /\ TrueNames(M)
  <2>1. World(M)
    BY InitialKeysClosed, KeysAssumption DEF World
  <2>2. \A y \in InitialKeys : y # <<>> => y = Child(Front(y), Last(y)) /\ Front(y) \in InitialKeys
    BY KeysAssumption, ChildOfFront
  <2>3. Plain(M, {})
    BY <2>2 DEF Plain
  <2> QED
    BY <2>1, <2>3 DEF BornBefore, TrueNames
<1>2. Past(N, F, {}, 0)
  BY <1>1 DEF Past, WorldAt
<1>3. Lists(undoList, redoList, F, 0, 0)
  BY EmptySeq DEF Lists, Init
<1>4. Fits(reg, ui.tree, M, {})
  <2> DEFINE o == [y \in InitialKeys |-> y]
  <2>1. o[<<>>] = <<>> /\ \A p \in Path, x \in Name :
               Append(p, x) \in InitialKeys => o[Append(p, x)] = Append(o[p], x)
    <3>1. ASSUME NEW p \in Path, NEW x \in Name, Append(p, x) \in InitialKeys
          PROVE  p \in InitialKeys
      BY <3>1, ChildPath, KeysAssumption
    <3> QED
      BY <3>1, KeysAssumption
  <2> HIDE DEF o
  <2>2. Named(InitialKeys, o, InitialTree) /\ AtHome(InitialKeys, InitialTree)
        /\ Complete(InitialKeys, InitialTree)
    BY <2>1, InitialTreeHome
  <2>3. \A y \in DOMAIN InitialTree : InitialTree[y].full = y /\ y \in InitialKeys
    BY <2>2 DEF Named, AtHome, o
  <2> QED
    BY <2>2, <2>3 DEF Fits, Init
<1>5. Shows(reg, ui)
  BY InitialTreeHome DEF Shows, Init
<1>6. N[0] = M
  OBVIOUS
<1> HIDE DEF M, N, F
<1>7. Tracked(reg, ui, ToDo, N, F, 0, 0)
  BY <1>1, <1>6, InitTracked
<1> QED
  BY <1>2, <1>3, <1>4, <1>5, <1>6, <1>7 DEF Explained

LEMMA TrackedRuns ==
  ASSUME NEW r, NEW u, NEW S, NEW N, NEW F, NEW m, NEW n, Tracked(r, u, S, N, F, m, n)
  PROVE  u.status = "running"
  BY DEF Tracked, Ready, Fair

LEMMA LookExplained ==
  ASSUME HInv, Look
  PROVE  HInv'
<1>1. IInv /\ IInv' /\ AtRest /\ Keeps(reg, ui, ui') /\ Explained
      /\ UNCHANGED <<reg, undoList, redoList, refreshing>>
  BY LookInv, LookKeeps, LookAtRest, RestInv DEF HInv, AtRest
<1>2. PICK N, F, K, m, n :
    /\ Past(N, F, K, n) /\ m \in 0 .. n /\ Lists(undoList, redoList, F, m, n)
    /\ Fits(reg, ui.tree, N[m], K)
    /\ ~refreshing => Shows(reg, ui)
    /\ DeletedKey \notin Name => Tracked(reg, ui, ToDo, N, F, m, n)
  BY <1>1 DEF Explained
<1>3. Fits(reg, ui'.tree, N[m], K)
  BY <1>1, <1>2, PastFits DEF Keeps
<1>4. Shows(reg, ui) /\ Shows(reg, ui')
  BY <1>1, <1>2 DEF Keeps, Fits, Trees, AtRest
<1>5. DeletedKey \notin Name => Tracked(reg', ui', ToDo', N, F, m, n)
  BY <1>1, <1>2, <1>4, LookTracked
<1>6. DeletedKey \notin Name => StopsAlone'
  BY <1>5, TrackedRuns DEF StopsAlone
<1>7. Explained'
  BY <1>1, <1>2, <1>3, <1>4, <1>5 DEF Explained
<1> QED
  BY <1>1, <1>6, <1>7 DEF HInv

LEMMA RefreshExplained ==
  ASSUME HInv, OnRefresh \/ RefreshStep
  PROVE  HInv'
<1>1. IInv /\ IInv' /\ Running /\ Explained
  BY RefreshInv DEF HInv, OnRefresh, AtRest, RefreshStep, RefreshRemove, RefreshAdd, RefreshEnd
<1>2. PICK N, F, K, m, n :
    /\ Past(N, F, K, n) /\ m \in 0 .. n /\ Lists(undoList, redoList, F, m, n)
    /\ Fits(reg, ui.tree, N[m], K)
    /\ ~refreshing => Shows(reg, ui)
    /\ DeletedKey \notin Name => Tracked(reg, ui, ToDo, N, F, m, n)
  BY <1>1 DEF Explained
<1>3. DeletedKey \notin Name => Tracked(reg', ui', ToDo', N, F, m, n)
  BY <1>1, <1>2, RefreshTracked
<1>4. DeletedKey \notin Name => StopsAlone'
  BY <1>3, TrackedRuns DEF StopsAlone
<1>5. CASE OnRefresh
  <2>1. UNCHANGED <<reg, ui, undoList, redoList>> /\ refreshing'
    BY <1>5 DEF OnRefresh, lists
  <2>2. Explained'
    BY <1>2, <1>3, <2>1 DEF Explained
  <2> QED
    BY <1>1, <1>4, <2>2 DEF HInv
<1>6. CASE RefreshStep
  <2>1. AtHome(reg, ui.tree) /\ Trees(reg, ui)
    BY <1>2 DEF Fits, Trees
  <2>2. /\ UNCHANGED <<reg, undoList, redoList>> /\ Grows(reg, ui.tree, ui'.tree)
        /\ ~refreshing' => Shows(reg, ui')
    BY <1>1, <1>6, <2>1, RefreshKeeps
  <2>3. Fits(reg, ui'.tree, N[m], K)
    BY <1>2, <2>2, PastFits
  <2>4. Explained'
    BY <1>2, <1>3, <2>2, <2>3 DEF Explained
  <2> QED
    BY <1>1, <1>4, <2>4 DEF HInv
<1> QED
  BY <1>5, <1>6

-----------------------------------------------------------------------------
(* The steps that change the registry.                                     *)

(* What becomes of the stacks.                                             *)
Recorded(o, undoLater, redoLater) ==
  IF o.ok THEN undoList' = undoLater /\ redoList' = redoLater ELSE UNCHANGED lists

LEMMA StepEnds ==
  /\ \A c : AddCommand(c) =>
       /\ UNCHANGED refreshing
       /\ \E o : Ends(Execute(reg, ui, c), o) /\ Recorded(o, Append(undoList, Done(c)), <<>>)
  /\ \A outcomes, l1, l2 : Rerun(outcomes, l1, l2) =>
       UNCHANGED refreshing /\ \E o : Ends(outcomes, o) /\ Recorded(o, l1, l2)
<1>1. ASSUME NEW c, AddCommand(c)
      PROVE  /\ UNCHANGED refreshing
             /\ \E o : Ends(Execute(reg, ui, c), o) /\ Recorded(o, Append(undoList, Done(c)), <<>>)
  BY <1>1 DEF AddCommand, Ends, Recorded, refresh
<1>2. ASSUME NEW outcomes, NEW l1, NEW l2, Rerun(outcomes, l1, l2)
      PROVE  UNCHANGED refreshing /\ \E o : Ends(outcomes, o) /\ Recorded(o, l1, l2)
  BY <1>2 DEF Rerun, Ends, Recorded, refresh
<1> QED
  BY <1>1, <1>2

(* The registry refused, or a world that is there or a new one is reached. *)
LEMMA EndsInWorld ==
  ASSUME Rest, AtRest, NEW c \in Command, NEW outcomes,
         outcomes \in {Execute(reg, ui, c), UndoCommand(reg, ui, c)},
         NEW o, Ends(outcomes, o), Running', NEW M, NEW K, Good(reg, ui, M, K)
  PROVE  \/ /\ Refused(reg, ui, o)
            /\ Fits(reg', ui'.tree, M, K) /\ Shows(reg', ui')
         \/ /\ ~Refused(reg, ui, o) /\ ~Stopped(o) /\ o.ok = TRUE
            /\ \A L, J : Good(o.reg, o.ui, L, J) => Fits(reg', ui'.tree, L, J) /\ Shows(reg', ui')
<1>1. \A L, J : Good(o.reg, o.ui, L, J) => Fits(reg', ui'.tree, L, J) /\ Shows(reg', ui')
  BY EndsGood
<1>2. ~Stopped(o)
  BY EndsGrows DEF Stopped
<1>3. /\ reg \in SUBSET Path /\ Sound(ui) /\ ui.status = "running"
      /\ o \in Execute(reg, ui, c) \union UndoCommand(reg, ui, c)
  BY RestFacts DEF Ends
<1>4. ~Refused(reg, ui, o) => o.ok = TRUE
  BY <1>2, <1>3, WorkedIsOk
<1>5. Refused(reg, ui, o) => o.reg = reg /\ o.ui = ui
  BY DEF Refused
<1> QED
  BY <1>1, <1>2, <1>4, <1>5

LEMMA PastGood ==
  ASSUME IInv, AtRest, Explained
  PROVE  \E N, F, K, m, n :
           /\ Past(N, F, K, n) /\ n \in Nat /\ m \in 0 .. n /\ Lists(undoList, redoList, F, m, n)
           /\ Good(reg, ui, N[m], K)
           /\ DeletedKey \notin Name => Tracked(reg, ui, ToDo, N, F, m, n)
<1>1. PICK N, F, K, m, n :
    /\ Past(N, F, K, n) /\ m \in 0 .. n /\ Lists(undoList, redoList, F, m, n)
    /\ Fits(reg, ui.tree, N[m], K)
    /\ ~refreshing => Shows(reg, ui)
    /\ DeletedKey \notin Name => Tracked(reg, ui, ToDo, N, F, m, n)
  BY DEF Explained
<1>2. World(N[m]) /\ Plain(N[m], K) /\ n \in Nat
  BY <1>1 DEF Past, WorldAt
<1>3. Good(reg, ui, N[m], K)
  BY <1>1, <1>2 DEF Good, AtRest
<1> QED
  BY <1>1, <1>2, <1>3

(* A new command that worked makes a new world, and the past leads to it.  *)
LEMMA PushMakesWorld ==
  ASSUME IInv, AtRest, NEW c \in Command, c.path = ui.cur, c.name # DeletedKey,
         NEW o, Ends(Execute(reg, ui, c), o), ~Refused(reg, ui, o), ~Stopped(o),
         NEW N, NEW F, NEW K, NEW n \in Nat, Past(N, F, K, n), NEW m \in 0 .. n,
         Good(reg, ui, N[m], K)
  PROVE  \E L, J, O, G : /\ NewWorld(reg, ui, N[m], K, m, c, L, J)
                         /\ Extends(O, G, N, F, J, m, c, L)
<1>1. /\ reg \in SUBSET Path /\ Sound(ui) /\ ui.status = "running" /\ m \in Nat
      /\ o \in Execute(reg, ui, c) /\ BornBefore(N[m], m)
  BY AtRestInv DEF Ends, Past, WorldAt
<1>2. o.ok = TRUE
  BY <1>1, WorkedIsOk
<1>3. PICK L, J : NewWorld(reg, ui, N[m], K, m, c, L, J)
  <2>1. c.op \in {"create", "rename"}
    BY TargetIs
  <2> QED
    BY <1>1, <1>2, <2>1, CreateMakesWorld, RenameMakesWorld
<1>4. PICK M : M = N[m]
  OBVIOUS
<1>5. NewWorld(reg, ui, M, K, m, c, L, J)
  BY <1>3, <1>4
<1>6. \E O, G : Extends(O, G, N, F, J, m, c, L)
  BY <1>4, <1>5, PastMore
<1> QED
  BY <1>3, <1>6

LEMMA PushExplained ==
  ASSUME IInv, AtRest, Explained, Running', NEW c \in Command, AddCommand(c),
         c.path = ui.cur, c.name # DeletedKey
  PROVE  Explained'
<1>1. PICK N, F, K, m, n :
    /\ Past(N, F, K, n) /\ n \in Nat /\ m \in 0 .. n /\ Lists(undoList, redoList, F, m, n)
    /\ Good(reg, ui, N[m], K)
    /\ DeletedKey \notin Name => Tracked(reg, ui, ToDo, N, F, m, n)
  BY PastGood
<1>2. PICK o : Ends(Execute(reg, ui, c), o) /\ Recorded(o, Append(undoList, Done(c)), <<>>)
  BY StepEnds
<1>3. ToDo' = {}
  BY StepEnds DEF ToDo, AtRest
<1>4. CASE Refused(reg, ui, o)
  <2>1. Fits(reg', ui'.tree, N[m], K) /\ Shows(reg', ui')
    BY <1>1, <1>2, <1>4, EndsInWorld, RestInv
  <2>2. undoList' = undoList /\ redoList' = redoList
    BY <1>2, <1>4 DEF Refused, Recorded, lists
  <2>3. DeletedKey \notin Name => Tracked(reg', ui', {}, N, F, m, n)
    BY <1>1, <1>2, <1>4, EndsTracked
  <2> QED
    BY <1>1, <1>3, <2>1, <2>2, <2>3 DEF Explained
<1>5. CASE ~Refused(reg, ui, o)
  <2>1. /\ ~Stopped(o) /\ o.ok = TRUE
        /\ \A L, J : Good(o.reg, o.ui, L, J) => Fits(reg', ui'.tree, L, J) /\ Shows(reg', ui')
    BY <1>1, <1>2, <1>5, EndsInWorld, RestInv
  <2>2. /\ reg \in SUBSET Path /\ Sound(ui) /\ ui.status = "running" /\ m \in Nat
        /\ o \in Execute(reg, ui, c)
    BY <1>1, <1>2, AtRestInv DEF Ends
  <2>3. PICK L, J, O, G : /\ NewWorld(reg, ui, N[m], K, m, c, L, J)
                          /\ Extends(O, G, N, F, J, m, c, L)
    BY <1>1, <1>2, <1>5, <2>1, PushMakesWorld
  <2>4. Past(O, G, J, m + 1) /\ O[m + 1] = L /\ G[m + 1] = c /\ \A i \in 1 .. m : G[i] = F[i]
    BY <2>3 DEF Extends
  <2>5. Good(o.reg, o.ui, L, J)
    <3>1. StepAt(c, J, m + 1, N[m], L) /\ World(L) /\ Good(reg, ui, N[m], J)
      BY <2>3 DEF NewWorld
    <3> QED
      BY <1>5, <2>1, <2>2, <3>1, ExecuteFits
  <2>6. Fits(reg', ui'.tree, O[m + 1], J) /\ Shows(reg', ui')
    BY <2>1, <2>4, <2>5
  <2>7. Lists(undoList', redoList', G, m + 1, m + 1)
    <3>1. undoList' = Append(undoList, Done(c)) /\ redoList' = <<>>
      BY <1>2, <2>1 DEF Recorded
    <3>2. undoList \in Seq(Command) /\ Done(c) \in Command
      <4>1. c.op = "rename" => c.path # <<>>
        BY <2>3 DEF NewWorld, StepAt, Moves, Sibling
      <4> QED
        BY <4>1, TargetIs, DoneRename DEF IInv, TypeOK
    <3> QED
      BY <1>1, <2>4, <3>1, <3>2, ListsPush
  <2>8. DeletedKey \notin Name => Tracked(reg', ui', {}, O, G, m + 1, m + 1)
    <3>1. ui'.status \notin {"noRoot", "wiped"}
      BY DEF Running
    <3> QED
      BY <1>1, <1>2, <1>5, <2>3, <3>1, PushTracked
  <2>9. m + 1 \in 0 .. m + 1
    BY <2>2
  <2> QED
    BY <1>3, <2>4, <2>6, <2>7, <2>8, <2>9 DEF Explained
<1> QED
  BY <1>4, <1>5

LEMMA UndoExplained ==
  ASSUME IInv, AtRest, Explained, Running', OnEditUndo
  PROVE  Explained'
<1>1. PICK N, F, K, m, n :
    /\ Past(N, F, K, n) /\ n \in Nat /\ m \in 0 .. n /\ Lists(undoList, redoList, F, m, n)
    /\ Good(reg, ui, N[m], K)
    /\ DeletedKey \notin Name => Tracked(reg, ui, ToDo, N, F, m, n)
  BY PastGood
<1>2. PICK c : c = Last(undoList)
  OBVIOUS
<1>3. /\ undoList # <<>> /\ undoList \in Seq(Command) /\ redoList \in Seq(Command)
      /\ Rerun(UndoCommand(reg, ui, c), Front(undoList), Append(redoList, Done(c)))
  BY <1>2 DEF OnEditUndo, IInv, TypeOK
<1>4. /\ m \in 1 .. n /\ c = Done(F[m])
      /\ Done(Done(F[m])) = F[m] /\ F[m] \in Command =>
           Lists(Front(undoList), Append(redoList, Done(c)), F, m - 1, n)
  BY <1>1, <1>2, <1>3, ListsUndo
<1>5. /\ m - 1 \in 0 .. n
      /\ World(N[m - 1]) /\ Plain(N[m - 1], K)
      /\ F[m] \in Command /\ c \in Command /\ Done(Done(F[m])) = F[m]
      /\ StepAt(F[m], K, m, N[m - 1], N[m])
  BY <1>1, <1>4, CommandAt
<1>6. PICK o : /\ Ends(UndoCommand(reg, ui, c), o)
               /\ Recorded(o, Front(undoList), Append(redoList, Done(c)))
  BY <1>3, StepEnds
<1>7. ToDo' = {}
  BY <1>3, StepEnds DEF ToDo, AtRest
<1>8. CASE Refused(reg, ui, o)
  <2>1. Fits(reg', ui'.tree, N[m], K) /\ Shows(reg', ui')
    BY <1>1, <1>5, <1>6, <1>8, EndsInWorld, RestInv
  <2>2. undoList' = undoList /\ redoList' = redoList
    BY <1>6, <1>8 DEF Refused, Recorded, lists
  <2>3. DeletedKey \notin Name => Tracked(reg', ui', {}, N, F, m, n)
    BY <1>1, <1>5, <1>6, <1>8, EndsTracked
  <2> QED
    BY <1>1, <1>7, <2>1, <2>2, <2>3 DEF Explained
<1>9. CASE ~Refused(reg, ui, o)
  <2>1. /\ ~Stopped(o) /\ o.ok = TRUE
        /\ \A L, J : Good(o.reg, o.ui, L, J) => Fits(reg', ui'.tree, L, J) /\ Shows(reg', ui')
    BY <1>1, <1>5, <1>6, <1>9, EndsInWorld, RestInv
  <2>2. /\ reg \in SUBSET Path /\ Sound(ui) /\ ui.status = "running"
        /\ o \in UndoCommand(reg, ui, Done(F[m]))
    BY <1>4, <1>6, AtRestInv DEF Ends
  <2>3. Good(o.reg, o.ui, N[m - 1], K)
    BY <1>1, <1>5, <1>9, <2>1, <2>2, UndoFits
  <2>4. Fits(reg', ui'.tree, N[m - 1], K) /\ Shows(reg', ui')
    BY <2>1, <2>3
  <2>5. Lists(undoList', redoList', F, m - 1, n)
    BY <1>4, <1>5, <1>6, <2>1 DEF Recorded
  <2>6. DeletedKey \notin Name => Tracked(reg', ui', {}, N, F, m - 1, n)
    <3>1. ui'.status \notin {"noRoot", "wiped"}
      BY DEF Running
    <3> QED
      BY <1>1, <1>4, <1>6, <1>9, <3>1, UndoTracked
  <2> QED
    BY <1>1, <1>5, <1>7, <2>4, <2>5, <2>6 DEF Explained
<1> QED
  BY <1>8, <1>9

LEMMA RedoExplained ==
  ASSUME IInv, AtRest, Explained, Running', OnEditRedo
  PROVE  Explained'
<1>1. PICK N, F, K, m, n :
    /\ Past(N, F, K, n) /\ n \in Nat /\ m \in 0 .. n /\ Lists(undoList, redoList, F, m, n)
    /\ Good(reg, ui, N[m], K)
    /\ DeletedKey \notin Name => Tracked(reg, ui, ToDo, N, F, m, n)
  BY PastGood
<1>2. PICK c : c = Last(redoList)
  OBVIOUS
<1>3. /\ redoList # <<>> /\ undoList \in Seq(Command) /\ redoList \in Seq(Command)
      /\ Rerun(Execute(reg, ui, c), Append(undoList, Done(c)), Front(redoList))
  BY <1>2 DEF OnEditRedo, IInv, TypeOK
<1>4. /\ m + 1 \in 1 .. n /\ c = F[m + 1]
      /\ Done(F[m + 1]) \in Command =>
           Lists(Append(undoList, Done(c)), Front(redoList), F, m + 1, n)
  BY <1>1, <1>2, <1>3, ListsRedo
<1>5. /\ m + 1 \in 0 .. n /\ m + 1 - 1 = m
      /\ World(N[m + 1])
      /\ c \in Command /\ Done(F[m + 1]) \in Command
      /\ StepAt(c, K, m + 1, N[m + 1 - 1], N[m + 1])
  BY <1>1, <1>4, CommandAt
<1>6. PICK o : /\ Ends(Execute(reg, ui, c), o)
               /\ Recorded(o, Append(undoList, Done(c)), Front(redoList))
  BY <1>3, StepEnds
<1>7. ToDo' = {}
  BY <1>3, StepEnds DEF ToDo, AtRest
<1>8. CASE Refused(reg, ui, o)
  <2>1. Fits(reg', ui'.tree, N[m], K) /\ Shows(reg', ui')
    BY <1>1, <1>5, <1>6, <1>8, EndsInWorld, RestInv
  <2>2. undoList' = undoList /\ redoList' = redoList
    BY <1>6, <1>8 DEF Refused, Recorded, lists
  <2>3. DeletedKey \notin Name => Tracked(reg', ui', {}, N, F, m, n)
    BY <1>1, <1>5, <1>6, <1>8, EndsTracked
  <2> QED
    BY <1>1, <1>7, <2>1, <2>2, <2>3 DEF Explained
<1>9. CASE ~Refused(reg, ui, o)
  <2>1. /\ ~Stopped(o) /\ o.ok = TRUE
        /\ \A L, J : Good(o.reg, o.ui, L, J) => Fits(reg', ui'.tree, L, J) /\ Shows(reg', ui')
    BY <1>1, <1>5, <1>6, <1>9, EndsInWorld, RestInv
  <2>2. /\ reg \in SUBSET Path /\ Sound(ui) /\ ui.status = "running"
        /\ o \in Execute(reg, ui, c)
    BY <1>6, AtRestInv DEF Ends
  <2>3. Good(o.reg, o.ui, N[m + 1], K)
    BY <1>1, <1>5, <1>9, <2>1, <2>2, ExecuteFits
  <2>4. Fits(reg', ui'.tree, N[m + 1], K) /\ Shows(reg', ui')
    BY <2>1, <2>3
  <2>5. Lists(undoList', redoList', F, m + 1, n)
    BY <1>4, <1>5, <1>6, <2>1 DEF Recorded
  <2>6. DeletedKey \notin Name => Tracked(reg', ui', {}, N, F, m + 1, n)
    <3>1. ui'.status \notin {"noRoot", "wiped"}
      BY DEF Running
    <3> QED
      BY <1>1, <1>4, <1>6, <1>9, <3>1, RedoTracked
  <2> QED
    BY <1>1, <1>5, <1>7, <2>4, <2>5, <2>6 DEF Explained
<1> QED
  BY <1>8, <1>9

(* A command given in place is about the selected node, and a New Key has  *)
(* a new name there.                                                       *)
LEMMA GivenInPlace ==
  ASSUME Rest, AtRest, NamesItself,
         NEW x \in Name \ {DeletedKey}, OnNewKey(x) \/ OnEndRename(x)
  PROVE  \E c \in Command :
           /\ AddCommand(c) /\ c.path = ui.cur /\ c.name # DeletedKey
           /\ c.op = "create" => Target(c) \notin DOMAIN ui.tree
<1>1. /\ ui.tree[ui.sel].full = ui.cur /\ ui.cur \in Path /\ ui.sel = ui.cur /\ x # DeletedKey
  BY RestFacts DEF NamesItself
<1>2. PICK op \in {"create", "rename"} :
        /\ AddCommand([op |-> op, path |-> ui.tree[ui.sel].full, name |-> x])
        /\ op = "create" => x \notin Kids(ui.tree, ui.sel)
  BY DEF OnNewKey, OnEndRename
<1>3. PICK c : c = [op |-> op, path |-> ui.cur, name |-> x]
  OBVIOUS
<1>4. /\ c \in Command /\ c.path = ui.cur /\ c.name = x /\ c.op = op /\ AddCommand(c)
  BY <1>1, <1>2, <1>3 DEF Command
<1>5. c.op = "create" => Target(c) \notin DOMAIN ui.tree
  BY <1>1, <1>2, <1>4, TargetIs DEF Kids, Child
<1> QED
  BY <1>1, <1>4, <1>5

LEMMA EditExplained ==
  ASSUME HInv, Running',
         \/ OnEditUndo \/ OnEditRedo
         \/ NamesItself /\ \E x \in Name \ {DeletedKey} : OnNewKey(x) \/ OnEndRename(x)
  PROVE  Explained'
<1>1. IInv /\ AtRest /\ Explained
  BY DEF HInv, OnEditUndo, OnEditRedo, OnNewKey, OnEndRename, AtRest
<1>2. ASSUME NamesItself, NEW x \in Name \ {DeletedKey}, OnNewKey(x) \/ OnEndRename(x)
      PROVE  Explained'
  BY <1>1, <1>2, GivenInPlace, PushExplained, RestInv
<1> QED
  BY <1>1, <1>2, UndoExplained, RedoExplained

-----------------------------------------------------------------------------
(* How an edit may stop the program.                                       *)

LEMMA PushStopsAlone ==
  ASSUME IInv, AtRest, Explained, DeletedKey \notin Name, NEW c \in Command, AddCommand(c),
         c.path = ui.cur, c.name # DeletedKey,
         c.op = "create" => Target(c) \notin DOMAIN ui.tree
  PROVE  StopsAlone'
<1>1. PICK N, F, K, m, n :
    /\ Past(N, F, K, n) /\ n \in Nat /\ m \in 0 .. n
    /\ Good(reg, ui, N[m], K) /\ Tracked(reg, ui, ToDo, N, F, m, n)
  BY PastGood
<1>2. PICK o : Ends(Execute(reg, ui, c), o)
  BY StepEnds
<1>3. CASE Refused(reg, ui, o)
  BY <1>1, <1>2, <1>3, EndsTracked, TrackedRuns DEF StopsAlone
<1>4. CASE ~Refused(reg, ui, o) /\ Stopped(o)
  BY <1>1, <1>2, <1>4, PushStopped DEF StopsAlone
<1>5. CASE ~Refused(reg, ui, o) /\ ~Stopped(o)
  <2>1. PICK L, J, O, G : /\ NewWorld(reg, ui, N[m], K, m, c, L, J)
                          /\ Extends(O, G, N, F, J, m, c, L)
    BY <1>1, <1>2, <1>5, PushMakesWorld
  <2>2. ui'.status \in {"noRoot", "wiped"} \/ Tracked(reg', ui', {}, O, G, m + 1, m + 1)
    BY <1>1, <1>2, <1>5, <2>1, PushTracked
  <2> QED
    BY <2>2, TrackedRuns DEF StopsAlone
<1> QED
  BY <1>3, <1>4, <1>5

LEMMA UndoStopsAlone ==
  ASSUME IInv, AtRest, Explained, DeletedKey \notin Name, OnEditUndo
  PROVE  StopsAlone'
<1>1. PICK N, F, K, m, n :
    /\ Past(N, F, K, n) /\ n \in Nat /\ m \in 0 .. n /\ Lists(undoList, redoList, F, m, n)
    /\ Good(reg, ui, N[m], K) /\ Tracked(reg, ui, ToDo, N, F, m, n)
  BY PastGood
<1>2. PICK c : c = Last(undoList)
  OBVIOUS
<1>3. /\ undoList # <<>> /\ undoList \in Seq(Command) /\ redoList \in Seq(Command)
      /\ Rerun(UndoCommand(reg, ui, c), Front(undoList), Append(redoList, Done(c)))
  BY <1>2 DEF OnEditUndo, IInv, TypeOK
<1>4. m \in 1 .. n /\ c = Done(F[m])
  BY <1>1, <1>2, <1>3, ListsUndo
<1>5. c \in Command
  BY <1>1, <1>4, CommandAt
<1>6. PICK o : Ends(UndoCommand(reg, ui, c), o)
  BY <1>3, StepEnds
<1>7. CASE Refused(reg, ui, o)
  BY <1>1, <1>5, <1>6, <1>7, EndsTracked, TrackedRuns DEF StopsAlone
<1>8. CASE ~Refused(reg, ui, o)
  <2>1. ui'.status \in {"noRoot", "wiped"} \/ Tracked(reg', ui', {}, N, F, m - 1, n)
    BY <1>1, <1>4, <1>6, <1>8, UndoTracked
  <2> QED
    BY <2>1, TrackedRuns DEF StopsAlone
<1> QED
  BY <1>7, <1>8

LEMMA RedoStopsAlone ==
  ASSUME IInv, AtRest, Explained, DeletedKey \notin Name, OnEditRedo
  PROVE  StopsAlone'
<1>1. PICK N, F, K, m, n :
    /\ Past(N, F, K, n) /\ n \in Nat /\ m \in 0 .. n /\ Lists(undoList, redoList, F, m, n)
    /\ Good(reg, ui, N[m], K) /\ Tracked(reg, ui, ToDo, N, F, m, n)
  BY PastGood
<1>2. PICK c : c = Last(redoList)
  OBVIOUS
<1>3. /\ redoList # <<>> /\ undoList \in Seq(Command) /\ redoList \in Seq(Command)
      /\ Rerun(Execute(reg, ui, c), Append(undoList, Done(c)), Front(redoList))
  BY <1>2 DEF OnEditRedo, IInv, TypeOK
<1>4. m + 1 \in 1 .. n /\ c = F[m + 1]
  BY <1>1, <1>2, <1>3, ListsRedo
<1>5. c \in Command
  BY <1>1, <1>4, CommandAt
<1>6. PICK o : Ends(Execute(reg, ui, c), o)
  BY <1>3, StepEnds
<1>7. CASE Refused(reg, ui, o)
  BY <1>1, <1>5, <1>6, <1>7, EndsTracked, TrackedRuns DEF StopsAlone
<1>8. CASE ~Refused(reg, ui, o)
  <2>1. ui'.status \in {"noRoot", "wiped"} \/ Tracked(reg', ui', {}, N, F, m + 1, n)
    BY <1>1, <1>4, <1>6, <1>8, RedoTracked
  <2> QED
    BY <2>1, TrackedRuns DEF StopsAlone
<1> QED
  BY <1>7, <1>8

LEMMA NextExplained ==
  ASSUME HInv, [NextInPlace]_vars
  PROVE  HInv'
<1>1. CASE Look
  BY <1>1, LookExplained
<1>2. CASE OnRefresh \/ RefreshStep
  BY <1>2, RefreshExplained
<1>3. CASE \/ OnEditUndo \/ OnEditRedo
           \/ NamesItself /\ \E x \in Name \ {DeletedKey} : OnNewKey(x) \/ OnEndRename(x)
  <2>1. EditKeys \/ \E x \in Name : OnEndRename(x)
    BY <1>3 DEF EditKeys
  <2>2. IInv'
    BY <2>1, EditInv DEF HInv
  <2>3. Running' => Explained'
    BY <1>3, EditExplained
  <2>4. IInv /\ AtRest /\ Explained
    BY <1>3 DEF HInv, OnEditUndo, OnEditRedo, OnNewKey, OnEndRename, AtRest
  <2>5. ASSUME DeletedKey \notin Name PROVE StopsAlone'
    BY <1>3, <2>4, <2>5, GivenInPlace, RestInv, PushStopsAlone, UndoStopsAlone, RedoStopsAlone
  <2> QED
    BY <2>2, <2>3, <2>5 DEF HInv
<1>4. CASE UNCHANGED vars
  BY <1>4 DEF HInv, Explained, ToDo, StopsAlone, IInv, vars, lists, refresh, TypeOK, Running
<1> QED
  BY <1>1, <1>2, <1>3, <1>4 DEF NextInPlace

LEMMA InPlaceExplained == SpecInPlace => []HInv
  BY InitExplained, NextExplained, PTL DEF SpecInPlace

-----------------------------------------------------------------------------
(* What the history says of the editor.                                    *)

LEMMA HistoryNow ==
  ASSUME HInv, Running
  PROVE  \E N, F, K, m, n :
           /\ Past(N, F, K, n) /\ n \in Nat /\ m \in 0 .. n /\ Lists(undoList, redoList, F, m, n)
           /\ WorldAt(N[m], F, K, m) /\ Fits(reg, ui.tree, N[m], K)
           /\ ~refreshing => Shows(reg, ui)
           /\ undoList \in Seq(Command) /\ redoList \in Seq(Command)
<1>1. PICK N, F, K, m, n :
    /\ Past(N, F, K, n) /\ m \in 0 .. n /\ Lists(undoList, redoList, F, m, n)
    /\ Fits(reg, ui.tree, N[m], K)
    /\ ~refreshing => Shows(reg, ui)
  BY DEF HInv, Explained
<1>2. WorldAt(N[m], F, K, m) /\ n \in Nat
  BY <1>1 DEF Past
<1>3. undoList \in Seq(Command) /\ redoList \in Seq(Command)
  BY DEF HInv, IInv, TypeOK
<1> QED
  BY <1>1, <1>2, <1>3

(* Editing in place, the items of the tree control nest: one hangs below   *)
(* an item without a placeholder, so expanding a node never inserts an     *)
(* item a second time.  Refresh would list the backup key, which Expand    *)
(* does not, so no subkey may be called like it.                           *)
THEOREM InPlaceItemsNest == DeletedKey \notin Name => (SpecInPlace => []ItemsNest)
<1> SUFFICES ASSUME DeletedKey \notin Name PROVE SpecInPlace => []ItemsNest
  OBVIOUS
<1>1. HInv => ItemsNest
  <2> SUFFICES ASSUME HInv, Running, NEW p \in DOMAIN ui.tree, p # <<>>, ui.tree[p].item
               PROVE  ui.tree[Front(p)].item /\ ui.tree[Front(p)].mark = "none"
    BY DEF ItemsNest
  <2>1. Items(reg, ui.tree)
    BY DEF HInv, Explained, Tracked, Ready, Fair
  <2> QED
    BY <2>1 DEF Items, Nests, Open
<1> QED
  BY <1>1, InPlaceExplained, PTL

(* Editing in place, whatever is created, renamed, taken back, redone,     *)
(* expanded and refreshed, the program stops at the hive itself (no root   *)
(* to open) or with an empty tree, and never because a node, a parent, a   *)
(* child, an item or the selection is missing or a key is there twice.     *)
THEOREM InPlaceStopsAlone == DeletedKey \notin Name => (SpecInPlace => []StopsAlone)
<1> SUFFICES ASSUME DeletedKey \notin Name PROVE SpecInPlace => []StopsAlone
  OBVIOUS
<1>1. HInv => StopsAlone
  BY DEF HInv
<1> QED
  BY <1>1, InPlaceExplained, PTL

(* Editing in place, no subkey is ever hidden: a node that lists a child   *)
(* lists all of them, in whatever order RegKeyTreeNode::Expand, New Key,   *)
(* Rename, Undo and Redo came.                                             *)
THEOREM InPlaceTreeIsComplete == SpecInPlace => []TreeIsComplete
<1>1. HInv => TreeIsComplete
  <2> SUFFICES ASSUME HInv, Running PROVE Complete(reg, ui.tree)
    BY DEF TreeIsComplete, Complete, Listed
  <2> QED
    BY HistoryNow DEF Fits
<1> QED
  BY <1>1, InPlaceExplained, PTL

(* Editing in place, the rows of CView are the children of the node it     *)
(* shows whenever the program waits for a message, with no Refresh.        *)
THEOREM InPlaceListShowsKids == SpecInPlace => []ListShowsKids
<1>1. HInv => ListShowsKids
  BY HistoryNow DEF ListShowsKids, AtRest, Running, Shows
<1> QED
  BY <1>1, InPlaceExplained, PTL

(* Editing in place, the _full texts that SetText leaves behind are right  *)
(* again once every rename has been taken back.                            *)
THEOREM InPlaceFullPathsAreTrue == SpecInPlace => []FullPathsAreTrue
<1>1. HInv => FullPathsAreTrue
  <2> SUFFICES ASSUME HInv, Running, ~Renamed, NEW p \in DOMAIN ui.tree
               PROVE  ui.tree[p].full = p
    BY DEF FullPathsAreTrue
  <2>1. PICK N, F, K, m, n :
      /\ Past(N, F, K, n) /\ n \in Nat /\ m \in 0 .. n /\ Lists(undoList, redoList, F, m, n)
      /\ WorldAt(N[m], F, K, m) /\ Fits(reg, ui.tree, N[m], K)
      /\ undoList \in Seq(Command)
    BY HistoryNow
  <2>2. ASSUME NEW j \in 1 .. m PROVE F[j].op = "create"
    <3>1. j \in 1 .. n
      BY <2>1
    <3>2. F[j] \in Command /\ StepAt(F[j], K, j, N[j - 1], N[j])
      BY <2>1, <3>1, CommandAt
    <3>3. j \in DOMAIN undoList /\ undoList[j] = Done(F[j])
      BY <2>1, LenProperties DEF Lists
    <3>4. Done(F[j]).op # "rename"
      BY <3>3 DEF Renamed
    <3>5. F[j].op = "rename" => F[j].path # <<>>
      BY <3>2 DEF StepAt, Moves, Sibling
    <3> QED
      BY <3>2, <3>4, <3>5, DoneRename, TargetIs
  <2>3. TrueNames(N[m])
    BY <2>1, <2>2 DEF WorldAt
  <2> QED
    BY <2>1, <2>3 DEF Fits, AtHome, TrueNames
<1> QED
  BY <1>1, InPlaceExplained, PTL

(* There is nothing below a key that has just been made.                   *)
LEMMA NewKeyIsBare ==
  ASSUME NEW p, NEW x, NEW q, NEW i, NEW M, NEW L, Adds(p, x, q, i, M, L), World(M), World(L)
  PROVE  SubKeys(DOMAIN L, q) = {}
<1>1. DOMAIN M \in SUBSET Path /\ ClosedSet(DOMAIN M)
  BY DEF World
<1>2. /\ p \in Path /\ x \in Name /\ q = Child(p, x)
      /\ p \in DOMAIN M /\ q \notin DOMAIN M /\ DOMAIN L = DOMAIN M \union {q}
  BY <1>1 DEF Adds
<1>3. q \in Path /\ Front(q) = p /\ q # p
  BY <1>2, ChildFacts
<1>4. ASSUME NEW s \in DOMAIN L, s # <<>> PROVE Front(s) # q
  <2>1. CASE s = q
    BY <1>3, <2>1
  <2>2. CASE s \in DOMAIN M
    <3>1. Front(s) \in Path /\ IsPrefix(Front(s), s)
      BY <1>1, <1>4, <2>2, PrefixOfNamed, PrefixReflexive
    <3> QED
      BY <1>1, <1>2, <2>2, <3>1 DEF ClosedSet
  <2> QED
    BY <1>2, <2>1, <2>2
<1> QED
  BY <1>3, <1>4, NoSubKeysAsPaths DEF World

(* What the step from one world to the next says of taking it back and of  *)
(* doing it again.                                                         *)
LEMMA StepApplies ==
  ASSUME NEW c, NEW K, NEW i, NEW M, NEW L, StepAt(c, K, i, M, L), World(M), World(L)
  PROVE  /\ DOMAIN L = reg => UndoApplies(Done(c))
         /\ DOMAIN M = reg => RedoApplies(c)
<1>1. c \in Command /\ DOMAIN M \in SUBSET Path /\ ClosedSet(DOMAIN M)
  BY DEF StepAt, World
<1>2. CASE c.op = "create"
  <2>1. PICK p, q, x : p = c.path /\ q = Target(c) /\ x = c.name
    OBVIOUS
  <2>2. Adds(p, x, q, i, M, L) /\ Done(c) = c /\ p \in Path /\ x \in Name /\ q = Child(p, x)
    BY <1>1, <1>2, <2>1, TargetIs DEF StepAt
  <2>3. p \in DOMAIN M /\ q \notin DOMAIN M /\ q \in DOMAIN L /\ DOMAIN L = DOMAIN M \union {q}
    BY <2>2 DEF Adds
  <2>6. SubKeys(DOMAIN L, q) = {}
    BY <2>2, NewKeyIsBare
  <2> QED
    BY <1>2, <2>1, <2>2, <2>3, <2>6 DEF UndoApplies, RedoApplies
<1>3. CASE c.op = "rename"
  <2>1. Moves(c.path, Target(c), M, L) /\ c.path # <<>>
    BY <1>3 DEF StepAt, Moves, Sibling
  <2>2. Moves(Target(c), c.path, L, M)
    BY <2>1, MovesWorld
  <2>3. Done(c).op = "rename" /\ Done(c).path = Target(c) /\ Target(Done(c)) = c.path
    BY <1>1, <1>3, <2>1, DoneRename
  <2> QED
    BY <2>1, <2>2, <2>3 DEF Moves, UndoApplies, RedoApplies
<1> QED
  BY <1>1, <1>2, <1>3, TargetIs

(* Editing in place, the next Undo and the next Redo are always            *)
(* applicable: whatever has been renamed since a command was given, it     *)
(* names the right key when its turn comes.                                *)
THEOREM InPlaceUndoRedoApply == SpecInPlace => []NextUndoRedoApply
<1>1. HInv => NextUndoRedoApply
  <2> SUFFICES ASSUME HInv, Running
               PROVE  /\ undoList # <<>> => UndoApplies(Last(undoList))
                      /\ redoList # <<>> => RedoApplies(Last(redoList))
    BY DEF NextUndoRedoApply
  <2>1. PICK N, F, K, m, n :
      /\ Past(N, F, K, n) /\ n \in Nat /\ m \in 0 .. n /\ Lists(undoList, redoList, F, m, n)
      /\ Fits(reg, ui.tree, N[m], K)
      /\ undoList \in Seq(Command) /\ redoList \in Seq(Command)
    BY HistoryNow
  <2>2. reg = DOMAIN N[m]
    BY <2>1 DEF Fits
  <2>3. ASSUME undoList # <<>> PROVE UndoApplies(Last(undoList))
    <3>1. m \in 1 .. n /\ Last(undoList) = Done(F[m])
      BY <2>1, <2>3, ListsUndo
    <3>2. StepAt(F[m], K, m, N[m - 1], N[m]) /\ World(N[m]) /\ World(N[m - 1])
      BY <2>1, <3>1, CommandAt
    <3> QED
      BY <2>2, <3>1, <3>2, StepApplies
  <2>4. ASSUME redoList # <<>> PROVE RedoApplies(Last(redoList))
    <3>1. m + 1 \in 1 .. n /\ Last(redoList) = F[m + 1] /\ m + 1 - 1 = m
      BY <2>1, <2>4, ListsRedo
    <3>2. /\ StepAt(F[m + 1], K, m + 1, N[m + 1 - 1], N[m + 1])
          /\ World(N[m + 1]) /\ World(N[m + 1 - 1])
      BY <2>1, <3>1, CommandAt
    <3> QED
      BY <2>2, <3>1, <3>2, StepApplies
  <2> QED
    BY <2>3, <2>4
<1> QED
  BY <1>1, InPlaceExplained, PTL

(* A function that follows the commands is the one RegistryAfter means.    *)
LEMMA RegistryAfterIs ==
  ASSUME NEW s, Len(s) \in Nat, NEW f,
         f = [n \in 0 .. Len(s) |-> IF n = 0 THEN InitialKeys ELSE Effect(f[n - 1], s[n])]
  PROVE  RegistryAfter(s) = f[Len(s)]
<1> DEFINE After(h) == h = [n \in 0 .. Len(s) |->
                              IF n = 0 THEN InitialKeys ELSE Effect(h[n - 1], s[n])]
           g == CHOOSE h : After(h)
           T == {n \in 0 .. Len(s) : g[n] # f[n]}
<1>1. After(g)
  OBVIOUS
<1>2. RegistryAfter(s) = g[Len(s)]
  BY DEF RegistryAfter
<1> HIDE DEF g
<1>6. ASSUME NEW h, After(h), NEW n \in 0 .. Len(s)
      PROVE  h[n] = IF n = 0 THEN InitialKeys ELSE Effect(h[n - 1], s[n])
  <2>1. PICK k : k = [i \in 0 .. Len(s) |-> IF i = 0 THEN InitialKeys ELSE Effect(h[i - 1], s[i])]
    OBVIOUS
  <2>2. h = k
    BY <1>6, <2>1
  <2>3. k[n] = IF n = 0 THEN InitialKeys ELSE Effect(h[n - 1], s[n])
    BY <2>1
  <2> QED
    BY <2>2, <2>3
<1>7. After(f)
  OBVIOUS
<1> HIDE DEF After
<1>8. \A h : After(h) => h[0] = InitialKeys /\ \A n \in 1 .. Len(s) : h[n] = Effect(h[n - 1], s[n])
  <2> SUFFICES ASSUME NEW h, After(h)
               PROVE  h[0] = InitialKeys /\ \A n \in 1 .. Len(s) : h[n] = Effect(h[n - 1], s[n])
    OBVIOUS
  <2>1. 0 \in 0 .. Len(s) /\ \A n \in 1 .. Len(s) : n \in 0 .. Len(s) /\ n # 0
    OBVIOUS
  <2>2. h[0] = InitialKeys
    BY <1>6, <2>1
  <2>3. ASSUME NEW n \in 1 .. Len(s) PROVE h[n] = Effect(h[n - 1], s[n])
    BY <1>6, <2>1
  <2> QED
    BY <2>2, <2>3
<1>3. /\ g[0] = f[0]
      /\ \A n \in 1 .. Len(s) : /\ g[n] = Effect(g[n - 1], s[n])
                                /\ f[n] = Effect(f[n - 1], s[n])
  BY <1>1, <1>7, <1>8
<1>4. T = {}
  <2> SUFFICES ASSUME T # {} PROVE FALSE
    OBVIOUS
  <2>1. T \in SUBSET Nat
    OBVIOUS
  <2>2. PICK n \in T : \A k \in T : n <= k
    BY <2>1, LeastNumber
  <2>3. n \in 1 .. Len(s) /\ g[n - 1] = f[n - 1]
    <3>1. n \in 0 .. Len(s) /\ n # 0
      BY <1>3
    <3>2. n - 1 \in 0 .. Len(s) /\ n - 1 \notin T
      BY <2>2, <3>1
    <3> QED
      BY <3>1, <3>2
  <2> QED
    BY <1>3, <2>3
<1>5. Len(s) \in 0 .. Len(s)
  OBVIOUS
<1> QED
  BY <1>2, <1>4, <1>5

(* One step of the history as Effect sees it.                              *)
LEMMA StepEffect ==
  ASSUME NEW c, NEW K, NEW i, NEW M, NEW L, StepAt(c, K, i, M, L)
  PROVE  DOMAIN L = Effect(DOMAIN M, Done(c))
<1>1. c \in Command
  BY DEF StepAt
<1>2. CASE c.op = "create"
  BY <1>1, <1>2, TargetIs DEF StepAt, Adds, Effect, Target
<1>3. CASE c.op = "rename"
  <2>1. Moves(c.path, Target(c), M, L) /\ c.path # <<>>
    BY <1>3 DEF StepAt, Moves, Sibling
  <2>2. PICK d : d = Done(c)
    OBVIOUS
  <2>3. d.op = "rename" /\ d.path = Target(c) /\ Append(Front(d.path), d.name) = c.path
    <3>1. d.op = "rename" /\ d.path = Target(c) /\ Target(d) = c.path
      BY <1>1, <1>3, <2>1, <2>2, DoneRename
    <3> QED
      BY <3>1 DEF Target
  <2>4. Effect(DOMAIN M, d) = {Rebase(c.path, Target(c), x) : x \in DOMAIN M}
    BY <2>3 DEF Effect
  <2> QED
    BY <2>1, <2>2, <2>4 DEF Moves, Moved
<1> QED
  BY <1>1, <1>2, <1>3, TargetIs

(* Editing in place, the registry is what the commands on the undo stack   *)
(* make of the keys of the start, one after the other: what is taken back  *)
(* leaves nothing behind, and what is redone is what was done.             *)
THEOREM InPlaceHistoryExplainsRegistry == SpecInPlace => []HistoryExplainsRegistry
<1>1. HInv => HistoryExplainsRegistry
  <2> SUFFICES ASSUME HInv, Running PROVE reg = RegistryAfter(undoList)
    BY DEF HistoryExplainsRegistry
  <2>1. PICK N, F, K, m, n :
      /\ Past(N, F, K, n) /\ n \in Nat /\ m \in 0 .. n /\ Lists(undoList, redoList, F, m, n)
      /\ Fits(reg, ui.tree, N[m], K)
    BY HistoryNow
  <2>2. Len(undoList) = m /\ \A i \in 1 .. m : undoList[i] = Done(F[i])
    BY <2>1 DEF Lists
  <2> DEFINE f == [i \in 0 .. m |-> DOMAIN N[i]]
  <2>3. f[0] = InitialKeys
    BY <2>1 DEF Past
  <2>4. ASSUME NEW i \in 1 .. m PROVE f[i] = Effect(f[i - 1], undoList[i])
    <3>1. i \in 1 .. n /\ i \in 0 .. m /\ i - 1 \in 0 .. m
      BY <2>1
    <3>2. DOMAIN N[i] = Effect(DOMAIN N[i - 1], Done(F[i]))
      BY <2>1, <3>1, CommandAt, StepEffect
    <3> QED
      BY <2>2, <3>1, <3>2
  <2>5. f = [i \in 0 .. m |-> IF i = 0 THEN InitialKeys ELSE Effect(f[i - 1], undoList[i])]
    <3>1. ASSUME NEW i \in 0 .. m
          PROVE  f[i] = IF i = 0 THEN InitialKeys ELSE Effect(f[i - 1], undoList[i])
      <4>1. i = 0 \/ i \in 1 .. m
        BY <2>1
      <4> HIDE DEF f
      <4> QED
        BY <2>3, <2>4, <4>1
    <3>2. f = [i \in 0 .. m |-> f[i]]
      OBVIOUS
    <3> HIDE DEF f
    <3> QED
      BY <3>1, <3>2
  <2>6. f[m] = reg
    BY <2>1 DEF Fits
  <2>7. m \in Nat
    BY <2>1
  <2> HIDE DEF f
  <2> QED
    BY <2>2, <2>5, <2>6, <2>7, RegistryAfterIs
<1> QED
  BY <1>1, InPlaceExplained, PTL

(* Editing in place, a New Key that is recorded has made exactly one key,  *)
(* the one below the selected node, and it was not there before.           *)
THEOREM InPlaceNewKeyGoesUnderSelection == SpecInPlace => NewKeyGoesUnderSelection
<1>1. ASSUME HInv, NEW x \in Name \ {DeletedKey}, NamesItself, OnNewKey(x), undoList' # undoList,
             NEW q, q = Append(ui.tree[ui.sel].at, x)
      PROVE  q \notin reg /\ reg' = reg \union {q}
  <2>1. /\ IInv /\ AtRest /\ Running /\ ui.sel # NoNode
        /\ AddCommand([op |-> "create", path |-> ui.sel, name |-> x])
    BY <1>1 DEF HInv, OnNewKey, AtRest, NamesItself
  <2>2. /\ Sound(ui) /\ ui.status = "running" /\ reg \in SUBSET Path
        /\ ui.sel = ui.cur /\ ui.cur \in DOMAIN ui.tree /\ ui.cur \in Path
    BY <2>1, AtRestInv DEF Sound
  <2>3. /\ AtHome(reg, ui.tree) /\ Listed(reg, ui.tree, ui.cur) /\ ClosedSet(reg)
    <3>1. PICK N, F, K, m, n :
        /\ Past(N, F, K, n) /\ n \in Nat /\ m \in 0 .. n
        /\ WorldAt(N[m], F, K, m) /\ Fits(reg, ui.tree, N[m], K)
        /\ ~refreshing => Shows(reg, ui)
      BY <1>1, <2>1, HistoryNow
    <3>2. AtHome(reg, ui.tree) /\ reg = DOMAIN N[m] /\ World(N[m]) /\ Shows(reg, ui)
      BY <2>1, <3>1 DEF Fits, WorldAt, AtRest
    <3> QED
      BY <2>2, <3>2 DEF World, Shows
  <2>4. q = Child(ui.cur, x) /\ ui.cur \in reg
    BY <1>1, <2>2, <2>3 DEF AtHome, Child
  <2>5. PICK c : c = [op |-> "create", path |-> ui.cur, name |-> x]
    OBVIOUS
  <2>6. PICK o : Ends(Execute(reg, ui, c), o) /\ Recorded(o, Append(undoList, Done(c)), <<>>)
    BY <2>1, <2>2, <2>5, StepEnds
  <2>7. o \in CreateKey(reg, ui, ui.cur, x) /\ reg' = o.reg /\ o.ok # FALSE
    BY <1>1, <2>5, <2>6 DEF Ends, Execute, Recorded, lists
  <2>8. Created(reg, ui, ui.cur, x, q, o)
    <3>1. ~Refused(reg, ui, o) /\ ~Stopped(o)
      BY <2>7 DEF Refused, Stopped
    <3> QED
      BY <2>2, <2>4, <2>7, <3>1, CreateShape
  <2>9. o.reg = reg \union {q} /\ q \notin DOMAIN ui.tree
    BY <2>2, <2>3, <2>4, <2>8, PrefixesAreThere DEF Created
  <2>10. q \notin reg
    <3>1. q # <<>> /\ Front(q) = ui.cur /\ Last(q) = x
      BY <2>2, <2>4, ChildFacts
    <3> QED
      BY <2>2, <2>3, <2>9, <3>1, ListedAsPaths
  <2> QED
    BY <2>7, <2>9, <2>10
<1>2. HInv /\ [NextInPlace]_vars =>
        [\A x \in Name \ {DeletedKey} : NamesItself /\ OnNewKey(x) /\ undoList' # undoList =>
           LET q == Append(ui.tree[ui.sel].at, x)
           IN  q \notin reg /\ reg' = reg \union {q}]_vars
  BY <1>1
<1> QED
  BY <1>2, InPlaceExplained, PTL DEF SpecInPlace, NewKeyGoesUnderSelection
=============================================================================
