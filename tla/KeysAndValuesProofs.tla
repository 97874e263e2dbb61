------------------------- MODULE KeysAndValuesProofs -------------------------
(***************************************************************************)
(* Proofs about KeysAndValues.tla: keys and values are created, renamed,   *)
(* changed, taken back and redone in one editor.  The invariant is the one *)
(* of KeyHistoryProofs.tla, a past of worlds, in which a value command     *)
(* leaves the world as it is; and as long as New Value has written over no *)
(* value, a second past beside it, of what the value of each key was.      *)
(***************************************************************************)
EXTENDS KeysAndValues, KeyHistoryProofs

-----------------------------------------------------------------------------
(* RunsAll is a fold from the left: its steps one by one.                  *)

StackStep(commands, undo, i, s) == RunNext(s, commands[Len(commands) - i + 1], undo)

LEMMA RunsAllUnfolds ==
  ASSUME NEW commands, NEW undo
  PROVE  LET R == Reverse(commands)
             G(t, iter) == IF t = {} THEN [data |-> data, ok |-> TRUE]
                           ELSE LET x == Max(t) IN RunNext(iter[t \ {x}], R[x], undo)
         IN  RunsAll(commands, undo)
               = (CHOOSE iter : iter = [t \in SUBSET DOMAIN R |-> G(t, iter)])[DOMAIN R]
  BY DEF RunsAll, FoldLeft, MapThenFoldSet

(* The greatest number of a set of those up to k that has k in it.         *)
LEMMA MaxIsLast ==
  ASSUME NEW k \in Nat, NEW t \in SUBSET (1 .. k), k \in t
  PROVE  Max(t) = k
<1>1. \A y \in t : k >= y
  OBVIOUS
<1>2. \A x \in t : (\A y \in t : x >= y) => x = k
  OBVIOUS
<1> QED
  BY <1>1, <1>2 DEF Max

(* A function that is defined by what the numbers of its argument do, the  *)
(* greatest last, exists.                                                  *)
FoldsUpTo(commands, undo, a, k, h) ==
  h = [t \in SUBSET (1 .. k) |->
         IF t = {} THEN a ELSE StackStep(commands, undo, Max(t), h[t \ {Max(t)}])]

LEMMA FoldExists ==
  ASSUME NEW commands, NEW undo, NEW a, NEW n \in Nat
  PROVE  \E h : FoldsUpTo(commands, undo, a, n, h)
<1> DEFINE T == {k \in 0 .. n : ~\E h : FoldsUpTo(commands, undo, a, k, h)}
<1>1. \E h : FoldsUpTo(commands, undo, a, 0, h)
  <2> DEFINE h == [t \in SUBSET (1 .. 0) |-> a]
  <2>1. \A t \in SUBSET (1 .. 0) : t = {}
    OBVIOUS
  <2>2. h = [t \in SUBSET (1 .. 0) |->
               IF t = {} THEN a ELSE StackStep(commands, undo, Max(t), h[t \ {Max(t)}])]
    BY <2>1
  <2> QED
    BY <2>2 DEF FoldsUpTo
<1>2. ASSUME NEW k \in 0 .. n, k + 1 \in 0 .. n, NEW h, FoldsUpTo(commands, undo, a, k, h)
      PROVE  \E g : FoldsUpTo(commands, undo, a, k + 1, g)
  <2> DEFINE m == k + 1
             g == [t \in SUBSET (1 .. m) |->
                     IF m \in t THEN StackStep(commands, undo, m, h[t \ {m}]) ELSE h[t]]
  <2>1. \A t \in SUBSET (1 .. m) : t \ {m} \in SUBSET (1 .. k) /\ (m \notin t => t \in SUBSET (1 .. k))
    OBVIOUS
  <2>2. \A t \in SUBSET (1 .. k) : t \in SUBSET (1 .. m) /\ m \notin t
    OBVIOUS
  <2>3. m \in Nat
    OBVIOUS
  <2> HIDE DEF m
  <2>4. \A t \in SUBSET (1 .. k) : g[t] = h[t]
    BY <2>2
  <2>5. \A t \in SUBSET (1 .. k) :
          h[t] = IF t = {} THEN a ELSE StackStep(commands, undo, Max(t), h[t \ {Max(t)}])
    <3> DEFINE e(t) == IF t = {} THEN a ELSE StackStep(commands, undo, Max(t), h[t \ {Max(t)}])
    <3>1. h = [t \in SUBSET (1 .. k) |-> e(t)]
      BY <1>2 DEF FoldsUpTo
    <3> HIDE DEF e
    <3>2. \A t \in SUBSET (1 .. k) : h[t] = e(t)
      BY <3>1
    <3> QED
      BY <3>2 DEF e
  <2>6. ASSUME NEW t \in SUBSET (1 .. m)
        PROVE  g[t] = IF t = {} THEN a ELSE StackStep(commands, undo, Max(t), g[t \ {Max(t)}])
    <3>1. CASE m \in t
      <4>1. Max(t) = m /\ t # {} /\ t \ {m} \in SUBSET (1 .. k)
        BY <2>1, <2>3, <3>1, MaxIsLast
      <4>2. g[t] = StackStep(commands, undo, m, h[t \ {m}])
        BY <3>1
      <4>3. g[t \ {m}] = h[t \ {m}]
        BY <2>4, <4>1
      <4> HIDE DEF g
      <4> QED
        BY <4>1, <4>2, <4>3
    <3>2. CASE m \notin t
      <4>1. t \in SUBSET (1 .. k) /\ g[t] = h[t]
        BY <2>1, <2>4, <3>2
      <4>2. t \ {Max(t)} \in SUBSET (1 .. k)
        BY <4>1
      <4>3. g[t \ {Max(t)}] = h[t \ {Max(t)}]
        BY <2>4, <4>2
      <4> HIDE DEF g
      <4> QED
        BY <2>5, <4>1, <4>3
    <3> QED
      BY <3>1, <3>2
  <2>7. g = [t \in SUBSET (1 .. m) |-> g[t]]
    OBVIOUS
  <2> HIDE DEF g
  <2>8. FoldsUpTo(commands, undo, a, m, g)
    BY <2>6, <2>7 DEF FoldsUpTo
  <2> QED
    BY <2>8 DEF m
<1>3. T = {}
  <2> SUFFICES ASSUME T # {} PROVE FALSE
    OBVIOUS
  <2>1. T \in SUBSET Nat
    OBVIOUS
  <2>2. PICK k \in T : \A j \in T : k <= j
    BY <2>1, LeastNumber
  <2>3. k \in 0 .. n /\ k # 0 /\ ~\E h : FoldsUpTo(commands, undo, a, k, h)
    BY <1>1, <2>2
  <2>4. k - 1 \in 0 .. n /\ k - 1 \notin T /\ k - 1 + 1 = k
    BY <2>2, <2>3
  <2> QED
    BY <1>2, <2>3, <2>4
<1> QED
  BY <1>3

(* If w says what is there after each command, RunsAll is its last.        *)
Ran(A) == [data |-> A, ok |-> TRUE]

Trace(w, commands, undo) ==
  /\ w[0] = Ran(data)
  /\ \A i \in 1 .. Len(commands) : w[i] = StackStep(commands, undo, i, w[i - 1])

LEMMA TraceEnds ==
  ASSUME NEW S, NEW commands \in Seq(S), NEW undo, NEW w, Trace(w, commands, undo)
  PROVE  RunsAll(commands, undo) = w[Len(commands)]
<1> SUFFICES ASSUME NEW n \in Nat, n = Len(commands), w[0] = [data |-> data, ok |-> TRUE],
                    \A i \in 1 .. n : w[i] = StackStep(commands, undo, i, w[i - 1])
             PROVE  RunsAll(commands, undo) = w[n]
  <2>1. PICK n \in Nat : n = Len(commands)
    OBVIOUS
  <2> QED
    BY <2>1 DEF Trace, Ran
<1> DEFINE R == Reverse(commands)
           a == [data |-> data, ok |-> TRUE]
           G(t, iter) == IF t = {} THEN a
                         ELSE LET x == Max(t) IN RunNext(iter[t \ {x}], R[x], undo)
           F == CHOOSE iter : iter = [t \in SUBSET DOMAIN R |-> G(t, iter)]
           U == {k \in 0 .. n : F[1 .. k] # w[k]}
<1>1. DOMAIN R = 1 .. n /\ \A i \in 1 .. n : R[i] = commands[n - i + 1]
  BY DEF Reverse
<1>2. RunsAll(commands, undo) = F[1 .. n]
  <2>1. RunsAll(commands, undo) = F[DOMAIN R]
    BY RunsAllUnfolds
  <2> HIDE DEF F, R
  <2> QED
    BY <1>1, <2>1
<1> HIDE DEF R
<1>3. \E iter : iter = [t \in SUBSET DOMAIN R |-> G(t, iter)]
  <2>1. PICK h : FoldsUpTo(commands, undo, a, n, h)
    BY FoldExists
  <2>2. ASSUME NEW t \in SUBSET (1 .. n), t # {} PROVE Max(t) \in 1 .. n
    <3>1. \E k \in t : \A j \in t : k >= j
      <4> DEFINE V == {n - j : j \in t}
      <4>1. \A j \in t : j \in 1 .. n /\ n - j \in Nat /\ n - j \in V
        OBVIOUS
      <4>2. \A z \in V : \E j \in t : z = n - j
        OBVIOUS
      <4> HIDE DEF V
      <4>3. V \in SUBSET Nat /\ V # {}
        <5>1. \A z \in V : z \in Nat
          BY <4>1, <4>2
        <5>2. PICK j \in t : TRUE
          BY <2>2
        <5> QED
          BY <4>1, <5>1, <5>2
      <4>4. PICK v \in V : \A z \in V : v <= z
        BY <4>3, LeastNumber
      <4>5. PICK k \in t : v = n - k
        BY <4>2
      <4>6. ASSUME NEW j \in t PROVE k >= j
        <5>1. k \in 1 .. n /\ j \in 1 .. n /\ n - k <= n - j
          BY <4>1, <4>4, <4>5
        <5> QED
          BY <5>1
      <4> QED
        BY <4>6
    <3> QED
      BY <2>2, <3>1 DEF Max
  <2>3. ASSUME NEW t \in SUBSET (1 .. n)
        PROVE  (IF t = {} THEN a ELSE StackStep(commands, undo, Max(t), h[t \ {Max(t)}])) = G(t, h)
    BY <1>1, <2>2 DEF StackStep
  <2> HIDE DEF G
  <2>4. h = [t \in SUBSET (1 .. n) |-> G(t, h)]
    BY <2>1, <2>3 DEF FoldsUpTo
  <2> QED
    BY <1>1, <2>4
<1>4. F = [t \in SUBSET (1 .. n) |-> G(t, F)]
  <2> HIDE DEF G
  <2> QED
    BY <1>1, <1>3
<1> HIDE DEF F
<1>5. \A t \in SUBSET (1 .. n) : F[t] = G(t, F)
  <2> HIDE DEF G
  <2> QED
    BY <1>4
<1>6. F[{}] = a
  BY <1>5
<1>7. ASSUME NEW k \in 1 .. n PROVE F[1 .. k] = StackStep(commands, undo, k, F[1 .. k - 1])
  <2>1. 1 .. k \in SUBSET (1 .. n) /\ k \in 1 .. k /\ (1 .. k) \ {k} = 1 .. k - 1
    OBVIOUS
  <2>2. Max(1 .. k) = k
    BY <2>1, MaxIsLast
  <2>3. F[1 .. k] = G(1 .. k, F)
    BY <1>5, <2>1
  <2>4. G(1 .. k, F) = RunNext(F[(1 .. k) \ {k}], R[k], undo)
    BY <2>1, <2>2
  <2> HIDE DEF G
  <2> QED
    BY <1>1, <2>1, <2>3, <2>4 DEF StackStep
<1> HIDE DEF G
<1>8. U = {}
  <2> SUFFICES ASSUME U # {} PROVE FALSE
    OBVIOUS
  <2>1. U \in SUBSET Nat
    OBVIOUS
  <2>2. PICK k \in U : \A j \in U : k <= j
    BY <2>1, LeastNumber
  <2>3. k \in 0 .. n /\ k # 0 /\ F[1 .. k] # w[k]
    <3>1. 1 .. 0 = {}
      OBVIOUS
    <3> QED
      BY <1>6, <2>2, <3>1
  <2>4. k - 1 \in 0 .. n /\ k - 1 \notin U /\ k \in 1 .. n
    BY <2>2, <2>3
  <2>5. F[1 .. k - 1] = w[k - 1]
    BY <2>4
  <2> QED
    BY <1>7, <2>3, <2>4, <2>5
<1>9. n \in 0 .. n
  OBVIOUS
<1> QED
  BY <1>2, <1>8, <1>9

-----------------------------------------------------------------------------
(* Commands of both kinds.                                                 *)

Entry == Command \union ValueCommand

LEMMA EntryIs ==
  ASSUME NEW c \in Entry
  PROVE  /\ c.path \in Path
         /\ c \in Command => ~IsValueCommand(c) /\ c.op \in {"create", "rename"}
         /\ c \in ValueCommand => IsValueCommand(c) /\ c.op # "rename" /\ c.value \in Data
         /\ IsValueCommand(c) <=> c \in ValueCommand
  BY DEF Entry, Command, ValueCommand, IsValueCommand

(* What may stand on the undo stack for the command f, done when the       *)
(* values were A, and on the redo stack: exactly f, or what f turned       *)
(* itself into, except for the data once a value has been written over.    *)
OldValue(f, A) == IF f.op = "new" THEN f.value ELSE A[f.path]

Alike(c, f) == c \in ValueCommand /\ c.op = f.op /\ c.path = f.path

Undoable(f, A, exact) ==
  {c \in Entry : IF IsValueCommand(f) THEN Alike(c, f) /\ (exact => c.value = OldValue(f, A))
                 ELSE c = Done(f)}

Redoable(f, exact) ==
  {c \in Entry : IF IsValueCommand(f) THEN Alike(c, f) /\ (exact => c.value = f.value)
                 ELSE c = f}

Undoables(F, D, n, exact) == [i \in 1 .. n |-> Undoable(F[i], D[i - 1], exact)]
Redoables(F, n, exact)    == [i \in 1 .. n |-> Redoable(F[i], exact)]

(* Of n commands the first m are on the undo stack us, the others on the   *)
(* redo stack rs, the next to redo last.                                   *)
Stacked(us, rs, U, R, m, n) ==
  /\ Len(us) = m /\ \A i \in 1 .. m : us[i] \in U[i]
  /\ Len(rs) = n - m /\ \A j \in 1 .. n - m : rs[j] \in R[n + 1 - j]

LEMMA StackedUndo ==
  ASSUME NEW us \in Seq(Entry), NEW rs \in Seq(Entry), us # <<>>,
         NEW U, NEW R, NEW n \in Nat, NEW m \in 0 .. n, Stacked(us, rs, U, R, m, n)
  PROVE  /\ m \in 1 .. n /\ Last(us) \in U[m] /\ Last(us) \in Entry
         /\ \A e \in Entry : e \in R[m] => /\ Stacked(Front(us), Append(rs, e), U, R, m - 1, n)
                                           /\ Front(us) \in Seq(Entry) /\ Append(rs, e) \in Seq(Entry)
<1>1. /\ Len(us) \in Nat \ {0} /\ Last(us) = us[Len(us)] /\ Len(Front(us)) = Len(us) - 1
      /\ Last(us) \in Entry /\ Front(us) \in Seq(Entry)
      /\ \A i \in 1 .. Len(us) - 1 : Front(us)[i] = us[i]
  BY EndOfSeq
<1>2. Len(us) = m /\ \A i \in 1 .. m : us[i] \in U[i]
  BY DEF Stacked
<1>3. /\ m \in 1 .. n /\ Last(us) \in U[m] /\ Len(Front(us)) = m - 1
      /\ \A i \in 1 .. m - 1 : Front(us)[i] \in U[i]
  BY <1>1, <1>2
<1>4. ASSUME NEW e \in Entry, e \in R[m]
      PROVE  Stacked(Front(us), Append(rs, e), U, R, m - 1, n) /\ Append(rs, e) \in Seq(Entry)
  <2>1. PICK w : w = Append(rs, e)
    OBVIOUS
  <2>2. Len(rs) = n - m /\ \A j \in 1 .. n - m : rs[j] \in R[n + 1 - j]
    BY DEF Stacked
  <2>3. /\ Len(w) = n - m + 1 /\ w[n - m + 1] = e /\ w \in Seq(Entry)
        /\ \A j \in 1 .. n - m : w[j] = rs[j]
    BY <2>1, <2>2, AppendProperties
  <2>4. \A j \in 1 .. n - (m - 1) : w[j] \in R[n + 1 - j]
    <3> SUFFICES ASSUME NEW j \in 1 .. n - (m - 1) PROVE w[j] \in R[n + 1 - j]
      OBVIOUS
    <3>1. CASE j = n - m + 1
      <4>1. n + 1 - j = m
        BY <1>3, <3>1
      <4> QED
        BY <1>4, <2>3, <3>1, <4>1
    <3>2. CASE j # n - m + 1
      BY <1>3, <2>2, <2>3, <3>2
    <3> QED
      BY <3>1, <3>2
  <2>5. Len(w) = n - (m - 1)
    BY <1>3, <2>3
  <2> QED
    BY <1>3, <2>1, <2>3, <2>4, <2>5 DEF Stacked
<1> QED
  BY <1>1, <1>3, <1>4

LEMMA StackedRedo ==
  ASSUME NEW us \in Seq(Entry), NEW rs \in Seq(Entry), rs # <<>>,
         NEW U, NEW R, NEW n \in Nat, NEW m \in 0 .. n, Stacked(us, rs, U, R, m, n)
  PROVE  /\ m + 1 \in 1 .. n /\ Last(rs) \in R[m + 1] /\ Last(rs) \in Entry
         /\ \A e \in Entry : e \in U[m + 1] =>
              /\ Stacked(Append(us, e), Front(rs), U, R, m + 1, n)
              /\ Append(us, e) \in Seq(Entry) /\ Front(rs) \in Seq(Entry)
<1>1. /\ Len(rs) \in Nat \ {0} /\ Last(rs) = rs[Len(rs)] /\ Len(Front(rs)) = Len(rs) - 1
      /\ Last(rs) \in Entry /\ Front(rs) \in Seq(Entry)
      /\ \A j \in 1 .. Len(rs) - 1 : Front(rs)[j] = rs[j]
  BY EndOfSeq
<1>2. /\ Len(rs) = n - m /\ \A j \in 1 .. n - m : rs[j] \in R[n + 1 - j]
      /\ Len(us) = m /\ \A i \in 1 .. m : us[i] \in U[i]
  BY DEF Stacked
<1>3. n + 1 - (n - m) = m + 1 /\ n - m \in 1 .. n - m /\ m + 1 \in 1 .. n
  BY <1>1, <1>2
<1>4. Last(rs) \in R[m + 1]
  <2>1. Last(rs) = rs[n - m] /\ rs[n - m] \in R[n + 1 - (n - m)]
    BY <1>1, <1>2, <1>3
  <2> QED
    BY <1>3, <2>1
<1>5. Len(Front(rs)) = n - (m + 1) /\ \A j \in 1 .. n - (m + 1) : Front(rs)[j] \in R[n + 1 - j]
  BY <1>1, <1>2
<1>6. ASSUME NEW e \in Entry, e \in U[m + 1]
      PROVE  Stacked(Append(us, e), Front(rs), U, R, m + 1, n) /\ Append(us, e) \in Seq(Entry)
  <2>1. PICK w : w = Append(us, e)
    OBVIOUS
  <2>2. Len(w) = m + 1 /\ w[m + 1] = e /\ (\A i \in 1 .. m : w[i] = us[i]) /\ w \in Seq(Entry)
    BY <1>2, <2>1, AppendProperties
  <2>3. \A i \in 1 .. m + 1 : w[i] \in U[i]
    BY <1>2, <1>6, <2>2
  <2> QED
    BY <1>5, <2>1, <2>2, <2>3 DEF Stacked
<1> QED
  BY <1>1, <1>3, <1>4, <1>6

LEMMA StackedPush ==
  ASSUME NEW us \in Seq(Entry), NEW rs, NEW U, NEW R, NEW n \in Nat, NEW m \in 0 .. n,
         Stacked(us, rs, U, R, m, n),
         NEW V, \A i \in 1 .. m : U[i] \subseteq V[i], NEW e \in Entry, e \in V[m + 1], NEW Q
  PROVE  /\ Stacked(Append(us, e), <<>>, V, Q, m + 1, m + 1)
         /\ Append(us, e) \in Seq(Entry) /\ <<>> \in Seq(Entry)
<1>1. Len(us) = m /\ \A i \in 1 .. m : us[i] \in U[i]
  BY DEF Stacked
<1>2. PICK w : w = Append(us, e)
  OBVIOUS
<1>3. Len(w) = m + 1 /\ w[m + 1] = e /\ (\A i \in 1 .. m : w[i] = us[i]) /\ w \in Seq(Entry)
  BY <1>1, <1>2, AppendProperties
<1>4. \A i \in 1 .. m + 1 : w[i] \in V[i]
  BY <1>1, <1>3
<1>5. Len(<<>>) = m + 1 - (m + 1) /\ 1 .. m + 1 - (m + 1) = {}
  BY EmptySeq
<1> QED
  BY <1>2, <1>3, <1>4, <1>5, EmptySeq DEF Stacked

-----------------------------------------------------------------------------
(* The past of keys and values.                                            *)

Base ==
  /\ Rest /\ ~refreshing
  /\ data \in [reg -> Data \union {NoValue}] /\ overwrote \in BOOLEAN
  /\ undoList \in Seq(Entry) /\ redoList \in Seq(Entry)

(* A value command is about a key there is, and moves none.                *)
StepBoth(c, K, i, M, L) ==
  \/ c \in ValueCommand /\ c.path \in DOMAIN M /\ c.path # <<>> /\ L = M
  \/ StepAt(c, K, i, M, L)

WorldBoth(M, F, K, i) ==
  /\ World(M) /\ Plain(M, K) /\ BornBefore(M, i)
  /\ (\A j \in 1 .. i : F[j].op # "rename") => TrueNames(M)

PastBoth(N, F, K, n) ==
  /\ n \in Nat
  /\ DOMAIN N[0] = InitialKeys
  /\ \A i \in 0 .. n : WorldBoth(N[i], F, K, i)
  /\ \A i \in 1 .. n : StepBoth(F[i], K, i, N[i - 1], N[i])

(* What a key command makes of the values A when the keys are S after it.  *)
DataTo(c, A, S) ==
  IF c.op = "rename" THEN [x \in S |-> A[Rebase(Target(c), c.path, x)]]
  ELSE [x \in S |-> IF x \in DOMAIN A THEN A[x] ELSE NoValue]

DataStep(c, L, A, B) ==
  IF IsValueCommand(c)
    THEN (A[c.path] = NoValue <=> c.op = "new") /\ B = [A EXCEPT ![c.path] = c.value]
    ELSE B = DataTo(c, A, DOMAIN L)

DataPast(N, F, D, n) ==
  /\ D[0] = InitialData
  /\ \A i \in 0 .. n : D[i] \in [DOMAIN N[i] -> Data \union {NoValue}]
  /\ \A i \in 1 .. n : DataStep(F[i], N[i], D[i - 1], D[i])

(* A key command and its inverse cancel.                                   *)
LEMMA DataBack ==
  ASSUME NEW c, NEW K, NEW i, NEW M, NEW L, StepAt(c, K, i, M, L), World(M),
         NEW V, NEW A \in [DOMAIN M -> V], NEW B, B = DataTo(c, A, DOMAIN L), NoValue \in V
  PROVE  B \in [DOMAIN L -> V] /\ A = DataTo(Done(c), B, DOMAIN M)
<1>1. c \in Command
  BY DEF StepAt
<1>2. CASE c.op = "create"
  <2>1. DOMAIN M \subseteq DOMAIN L /\ Done(c) = c
    BY <1>1, <1>2, TargetIs DEF StepAt, Adds
  <2>2. B = [x \in DOMAIN L |-> IF x \in DOMAIN M THEN A[x] ELSE NoValue]
    BY <1>2 DEF DataTo
  <2>3. B \in [DOMAIN L -> V] /\ \A x \in DOMAIN M : B[x] = A[x]
    BY <2>1, <2>2
  <2>4. DataTo(c, B, DOMAIN M) = [x \in DOMAIN M |-> IF x \in DOMAIN B THEN B[x] ELSE NoValue]
    BY <1>2 DEF DataTo
  <2> QED
    BY <2>1, <2>3, <2>4
<1>3. CASE c.op = "rename"
  <2>1. PICK p, q : p = c.path /\ q = Target(c)
    OBVIOUS
  <2>2. Moves(p, q, M, L) /\ p # <<>>
    BY <1>3, <2>1 DEF StepAt, Moves, Sibling
  <2>3. PICK S : S = DOMAIN M
    OBVIOUS
  <2>4. /\ Sibling(p, q) /\ S \in SUBSET Path /\ ClosedSet(S) /\ p \in S /\ q \notin S
        /\ DOMAIN L = Moved(p, q, S)
    BY <2>2, <2>3 DEF Moves, World
  <2>5. /\ \A y \in S : Rebase(q, p, Rebase(p, q, y)) = y /\ Rebase(p, q, y) \in DOMAIN L
        /\ \A z \in DOMAIN L : Rebase(q, p, z) \in S
    BY <2>4, MovedSet DEF Moved
  <2>6. B = [x \in DOMAIN L |-> A[Rebase(q, p, x)]]
    BY <1>3, <2>1 DEF DataTo
  <2>7. B \in [DOMAIN L -> V] /\ \A y \in S : B[Rebase(p, q, y)] = A[y]
    BY <2>3, <2>5, <2>6
  <2>8. Done(c).op = "rename" /\ Done(c).path = q /\ Target(Done(c)) = p
    BY <1>1, <1>3, <2>1, <2>2, DoneRename
  <2>9. DataTo(Done(c), B, S) = [x \in S |-> B[Rebase(p, q, x)]]
    BY <2>8 DEF DataTo
  <2> QED
    BY <2>3, <2>7, <2>9
<1> QED
  BY <1>1, <1>2, <1>3, TargetIs

(* What DataAfter says, in terms of what was reached.                      *)
LEMMA DataAfterIs ==
  ASSUME data \in [reg -> Data \union {NoValue}], NEW c \in Command, DataAfter(c)
  PROVE  /\ UNCHANGED overwrote
         /\ reg' = reg => data' = data
         /\ reg' # reg \/ c.op = "create" => data' = DataTo(c, data, reg')
<1>1. /\ UNCHANGED overwrote /\ DOMAIN data = reg
      /\ c.op = "rename" /\ reg' # reg => data' = Renaming(c.path, Target(c))
      /\ ~(c.op = "rename" /\ reg' # reg) => KeepData
  BY DEF DataAfter, Target
<1>2. ASSUME reg' = reg PROVE data' = data
  <2>1. data' = [x \in reg |-> IF x \in reg THEN data[x] ELSE NoValue]
    BY <1>1, <1>2 DEF KeepData
  <2> QED
    BY <2>1
<1>3. ASSUME c.op = "rename", reg' # reg PROVE data' = DataTo(c, data, reg')
  BY <1>1, <1>3 DEF DataTo, Renaming
<1>4. ASSUME c.op = "create" PROVE data' = DataTo(c, data, reg')
  BY <1>1, <1>4 DEF DataTo, KeepData
<1> QED
  BY <1>1, <1>2, <1>3, <1>4, TargetIs

(* The registry after a key command, whether the program goes on or not.   *)
LEMMA RenamedKeys ==
  ASSUME NEW r, NEW u, NEW path \in Path, NEW name \in Name, NEW q, q = Child(Front(path), name),
         NEW o \in RenameKey(r, u, path, name), o.reg # r
  PROVE  path # <<>> /\ path \in r /\ q \notin r /\ o.reg = Moved(path, q, r)
<1> USE DEF Child
<1> DEFINE moved   == {Rebase(path, q, x) : x \in r}
           handles == [u EXCEPT !.tree = MoveHandles(u.tree, path, q)]
           renamed == IF path \notin DOMAIN u.tree THEN handles
                      ELSE IF q \in DOMAIN u.tree THEN Stop(handles, "torn")
                      ELSE MoveNode(handles, path, q)
<1>1. CASE path = <<>>
  <2>1. o = Outcome(r, Stop(u, "noRoot"), FALSE)
    BY <1>1 DEF RenameKey
  <2> QED
    BY <2>1 DEF Outcome
<1>2. CASE path # <<>>
  <2>1. \/ o = Outcome(r, u, FALSE)
        \/ path \in r /\ q \notin r /\ o = Outcome(moved, renamed, renamed.status = "running")
    BY <1>2 DEF RenameKey
  <2> HIDE DEF moved, renamed
  <2>2. path \in r /\ q \notin r /\ o = Outcome(moved, renamed, renamed.status = "running")
    BY <2>1 DEF Outcome
  <2>3. o.reg = moved
    BY <2>2 DEF Outcome
  <2> QED
    BY <1>2, <2>2, <2>3 DEF moved, Moved
<1> QED
  BY <1>1, <1>2

LEMMA KeyCommandBase ==
  ASSUME Base, AtRest, ClosedSet(reg), NEW c \in Command, NEW outcomes,
         outcomes \in {Execute(reg, ui, c), UndoCommand(reg, ui, c)},
         NEW o, Ends(outcomes, o), DataAfter(c)
  PROVE  /\ Rest' /\ data' \in [reg' -> Data \union {NoValue}] /\ UNCHANGED overwrote
         /\ o.ok => Done(c) \in Command
<1>0. /\ reg \in SUBSET Path /\ Sound(ui) /\ RowsLive(ui) /\ ui.status = "running"
      /\ data \in [reg -> Data \union {NoValue}] /\ c.path \in Path /\ c.name \in Name
  BY RestFacts, TargetIs DEF Base
<1>1. GoodOutcome(ui, c.path, o)
  BY <1>0, CommandGood DEF Ends
<1>2. /\ o.reg \in SUBSET Path /\ Sound(o.ui) /\ RowsLive(o.ui) /\ reg' = o.reg
      /\ o.ok => Done(c) \in Command
  BY <1>0, <1>1, DoneType DEF GoodOutcome, Ends
<1>3. PICK u \in {o.ui, UpdateIfSame(o.reg, o.ui, o.ui.sel)} : ui' = UpdateUI(allowModify, u)
  BY DEF Ends
<1>4. Sound(u) /\ RowsLive(u)
  BY <1>2, <1>3, UpdateIfSameSound
<1>5. Rest'
  BY <1>2, <1>3, <1>4, UpdateUISound DEF Rest
<1>6. /\ UNCHANGED overwrote
      /\ reg' = reg => data' = data
      /\ reg' # reg \/ c.op = "create" => data' = DataTo(c, data, reg')
  BY <1>0, DataAfterIs
<1>7. CASE c.op = "create"
  <2>1. data' = [x \in reg' |-> IF x \in DOMAIN data THEN data[x] ELSE NoValue]
    BY <1>6, <1>7 DEF DataTo
  <2>2. data' \in [reg' -> Data \union {NoValue}]
    BY <1>0, <2>1
  <2> QED
    BY <1>2, <1>5, <1>6, <2>2
<1>8. CASE c.op = "rename" /\ reg' # reg
  <2>1. PICK p, q : p = c.path /\ q = Target(c)
    OBVIOUS
  <2>2. q = Child(Front(p), c.name) /\ q \in Path /\ p \in Path
    <3>1. p \in Path /\ c.name \in Name /\ q = Child(Front(p), c.name)
      BY <1>8, <2>1, TargetIs
    <3>2. Front(p) \in Path
      BY <3>1, FrontPath
    <3> QED
      BY <3>1, <3>2, ChildFacts
  <2>3. o \in RenameKey(reg, ui, p, c.name)
    BY <1>8, <2>1 DEF Ends, Execute, UndoCommand
  <2>4. p # <<>> /\ p \in reg /\ q \notin reg /\ reg' = Moved(p, q, reg)
    BY <1>0, <1>2, <1>8, <2>1, <2>2, <2>3, RenamedKeys
  <2>5. Sibling(p, q)
    BY <1>0, <2>2, <2>4, FrontPath, ChildFacts DEF Sibling
  <2>6. \A z \in reg' : Rebase(q, p, z) \in reg
    BY <1>0, <2>4, <2>5, MovedSet
  <2>7. data' = [x \in reg' |-> data[Rebase(q, p, x)]]
    BY <1>6, <1>8, <2>1 DEF DataTo
  <2>8. data' \in [reg' -> Data \union {NoValue}]
    BY <1>0, <2>6, <2>7
  <2> QED
    BY <1>2, <1>5, <1>6, <2>8
<1>9. CASE reg' = reg
  BY <1>0, <1>2, <1>5, <1>6, <1>9
<1> QED
  BY <1>7, <1>8, <1>9, TargetIs

-----------------------------------------------------------------------------
(* The invariant.  While no value has been written over, the past of the   *)
(* data leads to the data that are there.                                  *)

Stands(N, F, K, D, m, n) ==
  /\ PastBoth(N, F, K, n) /\ m \in 0 .. n
  /\ Stacked(undoList, redoList, Undoables(F, D, n, ~overwrote), Redoables(F, n, ~overwrote), m, n)
  /\ Fits(reg, ui.tree, N[m], K) /\ Shows(reg, ui)
  /\ ~overwrote => DataPast(N, F, D, n) /\ data = D[m]

VInv == Base /\ (Running => \E N, F, K, D, m, n : Stands(N, F, K, D, m, n))

LEMMA StandsGood ==
  ASSUME NEW N, NEW F, NEW K, NEW D, NEW m, NEW n, Stands(N, F, K, D, m, n)
  PROVE  /\ n \in Nat /\ m \in 0 .. n /\ m \in Nat /\ PastBoth(N, F, K, n)
         /\ WorldBoth(N[m], F, K, m) /\ Good(reg, ui, N[m], K)
         /\ reg = DOMAIN N[m] /\ ClosedSet(reg)
<1>1. n \in Nat /\ m \in 0 .. n /\ PastBoth(N, F, K, n) /\ WorldBoth(N[m], F, K, m)
  BY DEF Stands, PastBoth
<1>2. Fits(reg, ui.tree, N[m], K) /\ Shows(reg, ui) /\ World(N[m]) /\ Plain(N[m], K)
  BY <1>1 DEF Stands, WorldBoth
<1>3. reg = DOMAIN N[m] /\ ClosedSet(DOMAIN N[m])
  BY <1>2 DEF Fits, World
<1> QED
  BY <1>1, <1>2, <1>3 DEF Good

LEMMA EntryAt ==
  ASSUME NEW N, NEW F, NEW K, NEW n, PastBoth(N, F, K, n), NEW i \in 1 .. n
  PROVE  /\ n \in Nat /\ i - 1 \in 0 .. n /\ i \in 0 .. n
         /\ World(N[i]) /\ World(N[i - 1]) /\ Plain(N[i - 1], K)
         /\ F[i] \in Entry
         /\ IsValueCommand(F[i]) => /\ F[i] \in ValueCommand /\ N[i] = N[i - 1]
                                    /\ F[i].path \in DOMAIN N[i] /\ F[i].path # <<>>
         /\ ~IsValueCommand(F[i]) =>
              /\ F[i] \in Command /\ Done(F[i]) \in Command /\ Done(Done(F[i])) = F[i]
              /\ StepAt(F[i], K, i, N[i - 1], N[i])
<1>1. n \in Nat /\ i - 1 \in 0 .. n /\ i \in 0 .. n
  BY DEF PastBoth
<1>2. WorldBoth(N[i], F, K, i) /\ WorldBoth(N[i - 1], F, K, i - 1)
      /\ StepBoth(F[i], K, i, N[i - 1], N[i])
  BY <1>1 DEF PastBoth
<1>3. World(N[i]) /\ World(N[i - 1]) /\ Plain(N[i - 1], K)
  BY <1>2 DEF WorldBoth
<1>4. CASE F[i] \in ValueCommand /\ F[i].path \in DOMAIN N[i - 1] /\ F[i].path # <<>> /\ N[i] = N[i - 1]
  <2>1. F[i] \in Entry
    BY <1>4 DEF Entry
  <2> QED
    BY <1>1, <1>3, <1>4, <2>1, EntryIs
<1>5. CASE StepAt(F[i], K, i, N[i - 1], N[i])
  <2>1. F[i] \in Command /\ F[i] \in Entry
    BY <1>5 DEF StepAt, Entry
  <2>2. F[i].op = "rename" => F[i].path # <<>>
    BY <1>5 DEF StepAt, Moves, Sibling
  <2>3. Done(F[i]) \in Command /\ Done(Done(F[i])) = F[i]
    BY <2>1, <2>2, TargetIs, DoneRename
  <2> QED
    BY <1>1, <1>3, <1>5, <2>1, <2>3, EntryIs
<1> QED
  BY <1>2, <1>4, <1>5 DEF StepBoth

LEMMA InitVInv == InitBoth => VInv
<1> SUFFICES ASSUME InitBoth PROVE VInv
  OBVIOUS
<1>1. Init /\ data = InitialData /\ overwrote = FALSE
  BY DEF InitBoth
<1> DEFINE M == [y \in InitialKeys |-> [full |-> y, born |-> 0]]
           N == [i \in {0} |-> M]
           D == [i \in {0} |-> InitialData]
           F == [i \in {} |-> <<>>]
<1>2. World(M) /\ Plain(M, {}) /\ BornBefore(M, 0) /\ TrueNames(M)
  <2>1. World(M)
    BY InitialKeysClosed, KeysAssumption DEF World
  <2>2. \A y \in InitialKeys : y # <<>> => y = Child(Front(y), Last(y)) /\ Front(y) \in InitialKeys
    BY KeysAssumption, ChildOfFront
  <2>3. Plain(M, {})
    BY <2>2 DEF Plain
  <2> QED
    BY <2>1, <2>3 DEF BornBefore, TrueNames
<1>3. PastBoth(N, F, {}, 0)
  BY <1>2 DEF PastBoth, WorldBoth
<1>4. Fits(reg, ui.tree, M, {})
  <2> DEFINE o == [y \in InitialKeys |-> y]
  <2>1. o[<<>>] = <<>> /\ \A p \in Path, x \in Name :
               Append(p, x) \in InitialKeys => o[Append(p, x)] = Append(o[p], x)
    <3>1. ASSUME NEW p \in Path, NEW x \in Name, Append(p, x) \in InitialKeys
          PROVE  p \in InitialKeys
      BY <3>1, ChildPath, KeysAssumption
    <3> QED
      BY <3>1, KeysAssumption
  <2> HIDE DEF o
  <2>2. Named(InitialKeys, o, InitialTree) /\ AtHome(InitialKeys, InitialTree)
        /\ Complete(InitialKeys, InitialTree)
    BY <2>1, InitialTreeHome
  <2>3. \A y \in DOMAIN InitialTree : InitialTree[y].full = y /\ y \in InitialKeys
    BY <2>2 DEF Named, AtHome, o
  <2> QED
    BY <1>1, <2>2, <2>3 DEF Fits, Init
<1>5. Shows(reg, ui)
  BY <1>1, InitialTreeHome DEF Shows, Init
<1>6. N[0] = M /\ D[0] = InitialData
  OBVIOUS
<1>7. InitialData \in [DOMAIN M -> Data \union {NoValue}]
  BY DataAssumption
<1>8. reg = InitialKeys /\ Rest /\ ~refreshing /\ undoList = <<>> /\ redoList = <<>>
  <2>1. IInv /\ AtRest
    BY <1>1, InitInv DEF Init, AtRest, Running
  <2> QED
    BY <1>1, <2>1, RestInv DEF Init, AtRest
<1> HIDE DEF M, N, F, D
<1>9. Base
  BY <1>1, <1>7, <1>8, EmptySeq, DataAssumption DEF Base
<1>10. Stacked(undoList, redoList, Undoables(F, D, 0, ~overwrote), Redoables(F, 0, ~overwrote), 0, 0)
  BY <1>8, EmptySeq DEF Stacked
<1>11. DataPast(N, F, D, 0)
  BY <1>6, <1>7 DEF DataPast
<1>12. Stands(N, F, {}, D, 0, 0)
  BY <1>1, <1>3, <1>4, <1>5, <1>6, <1>10, <1>11 DEF Stands
<1> QED
  BY <1>9, <1>12 DEF VInv

(* A step after which the stacks and the data are the same.                *)
LEMMA StandsAgain ==
  ASSUME NEW N, NEW F, NEW K, NEW D, NEW m, NEW n, Stands(N, F, K, D, m, n),
         UNCHANGED <<undoList, redoList, data, overwrote>>,
         Fits(reg', ui'.tree, N[m], K), Shows(reg', ui')
  PROVE  Stands(N, F, K, D, m, n)'
<1>1. PastBoth(N, F, K, n) /\ m \in 0 .. n /\ (~overwrote' => DataPast(N, F, D, n) /\ data' = D[m])
  BY DEF Stands
<1>2. Stacked(undoList', redoList', Undoables(F, D, n, ~overwrote'), Redoables(F, n, ~overwrote'), m, n)
  BY DEF Stands
<1> QED
  BY <1>1, <1>2 DEF Stands

LEMMA StandsLooking ==
  ASSUME NEW N, NEW F, NEW K, NEW D, NEW m, NEW n, Stands(N, F, K, D, m, n),
         UNCHANGED <<reg, undoList, redoList, data, overwrote>>, Keeps(reg, ui, ui')
  PROVE  Stands(N, F, K, D, m, n)'
<1>1. Good(reg, ui, N[m], K)
  BY StandsGood
<1>2. Fits(reg, ui'.tree, N[m], K) /\ Shows(reg, ui')
  BY <1>1, FitsGrow DEF Good, Keeps, Fits, Trees
<1> QED
  BY <1>2, StandsAgain

LEMMA LookVInv ==
  ASSUME VInv, Look, UNCHANGED <<data, overwrote>>
  PROVE  VInv'
<1>1. Rest /\ Rest' /\ AtRest /\ Keeps(reg, ui, ui')
      /\ UNCHANGED <<reg, undoList, redoList, refreshing>>
  BY LookRest, LookKeeps DEF VInv, Base
<1>2. Base'
  BY <1>1 DEF VInv, Base
<1>3. PICK N, F, K, D, m, n : Stands(N, F, K, D, m, n)
  BY <1>1 DEF VInv, AtRest
<1>4. Stands(N, F, K, D, m, n)'
  BY <1>1, <1>3, StandsLooking
<1> QED
  BY <1>2, <1>4 DEF VInv
-----------------------------------------------------------------------------
(* What a value command does.                                              *)

ValueFailed(o) == o.ok = FALSE /\ o.data = data /\ o.ui \in {ui, Stop(ui, "noRoot")}

(* The value v is written at the key, and the command holds w afterwards.  *)
ValueWritten(c, o, v, w) ==
  /\ o.ok = TRUE /\ c.path # <<>> /\ c.path \in reg
  /\ o.ui \in {ui, UpdateIfSame(reg, ui, NoNode)}
  /\ o.cmd \in ValueCommand /\ Alike(o.cmd, c) /\ o.cmd.value = w
  /\ o.data = [data EXCEPT ![c.path] = v]

LEMMA ValueCases ==
  ASSUME data \in [reg -> Data \union {NoValue}], NEW c \in ValueCommand, NEW d, d = data[c.path]
  PROVE  /\ \A o \in ExecuteValue(c) :
              \/ ValueFailed(o)
              \/ c.op = "new" /\ ValueWritten(c, o, c.value, c.value)
              \/ c.op = "change" /\ d # NoValue /\ ValueWritten(c, o, c.value, d)
         /\ \A o \in UndoValue(c) :
              \/ ValueFailed(o)
              \/ c.op = "new" /\ d # NoValue /\ ValueWritten(c, o, NoValue, c.value)
              \/ c.op = "change" /\ d # NoValue /\ ValueWritten(c, o, c.value, d)
<1>0. c.op \in {"new", "change"} /\ c.path \in Path /\ c.value \in Data /\ Alike(c, c)
      /\ (c.op = "new" <=> c.op # "change")
  BY DEF ValueCommand, Alike
<1>1. \A o \in Fails(c) : ValueFailed(o)
  <2>1. ValueFailed(Result(data, c, ui, FALSE))
    BY DEF ValueFailed, Result
  <2> QED
    BY <2>1 DEF Fails
<1>2. CASE c.path = <<>>
  <2>1. ValueFailed(Result(data, c, Stop(ui, "noRoot"), FALSE))
    BY DEF ValueFailed, Result
  <2> QED
    BY <1>2, <2>1 DEF ExecuteValue, UndoValue, AtKey
<1>3. CASE c.path # <<>>
  <2>1. ASSUME NEW o \in CreateValue(c), ~ValueFailed(o) PROVE ValueWritten(c, o, c.value, c.value)
    <3>1. /\ c.path \in reg
          /\ o = Result([data EXCEPT ![c.path] = c.value], c, UpdateIfSame(reg, ui, NoNode), TRUE)
      BY <1>1, <2>1 DEF CreateValue
    <3> QED
      BY <1>0, <1>3, <3>1 DEF ValueWritten, Result
  <2>2. ASSUME NEW o \in DeleteValue(c), ~ValueFailed(o)
        PROVE  d # NoValue /\ ValueWritten(c, o, NoValue, c.value)
    <3>1. /\ c.path \in reg /\ d # NoValue
          /\ o = Result([data EXCEPT ![c.path] = NoValue], c, UpdateIfSame(reg, ui, NoNode), TRUE)
      BY <1>1, <2>2 DEF DeleteValue
    <3> QED
      BY <1>0, <1>3, <3>1 DEF ValueWritten, Result
  <2>3. ASSUME NEW o \in ChangeValue(c), ~ValueFailed(o)
        PROVE  d # NoValue /\ ValueWritten(c, o, c.value, d)
    <3>1. PICK e : e = [c EXCEPT !.value = d]
      OBVIOUS
    <3>2. /\ c.path \in reg /\ d # NoValue
          /\ o = Result([data EXCEPT ![c.path] = c.value], e, ui, TRUE)
      BY <1>1, <2>3, <3>1 DEF ChangeValue
    <3>3. d \in Data
      BY <3>2
    <3>4. e \in ValueCommand /\ Alike(e, c) /\ e.value = d
      BY <3>1, <3>3 DEF ValueCommand, Alike
    <3> QED
      BY <1>3, <3>2, <3>4 DEF ValueWritten, Result
  <2>4. /\ ExecuteValue(c) = IF c.op = "new" THEN CreateValue(c) ELSE ChangeValue(c)
        /\ UndoValue(c) = IF c.op = "new" THEN DeleteValue(c) ELSE ChangeValue(c)
    BY <1>3 DEF ExecuteValue, UndoValue, AtKey
  <2>5. CASE c.op = "new"
    BY <2>1, <2>2, <2>4, <2>5
  <2>6. CASE c.op = "change"
    BY <1>0, <2>3, <2>4, <2>6
  <2> QED
    BY <1>0, <2>5, <2>6
<1> QED
  BY <1>2, <1>3

(* The view may be updated, and no key moves.                              *)
LEMMA ValueUI ==
  ASSUME Rest, AtRest, NEW o, o.ui \in {ui, UpdateIfSame(reg, ui, NoNode), Stop(ui, "noRoot")},
         NEW u, u \in {o.ui, UpdateIfSame(reg, o.ui, o.ui.sel)},
         ui' = UpdateUI(allowModify, u), UNCHANGED reg
  PROVE  Rest' /\ Keeps(reg, ui, ui')
<1>1. /\ IsUI(ui) /\ Sound(ui) /\ RowsLive(ui) /\ reg \in SUBSET Path
  BY RestFacts
<1>2. "noRoot" \in Status \ {"running", "dangling"}
  BY DEF Status
<1>3. ASSUME NEW v, Sound(v), RowsLive(v), NEW p
      PROVE  /\ Sound(UpdateIfSame(reg, v, p)) /\ RowsLive(UpdateIfSame(reg, v, p))
             /\ Keeps(reg, v, UpdateIfSame(reg, v, p))
  BY <1>3, UpdateIfSameSound, UpdateIfSameGrows DEF Keeps
<1>4. Sound(o.ui) /\ RowsLive(o.ui) /\ Keeps(reg, ui, o.ui)
  <2>1. CASE o.ui = ui
    BY <1>1, <2>1, GrowsReflexive DEF Keeps
  <2>2. CASE o.ui = UpdateIfSame(reg, ui, NoNode)
    BY <1>1, <1>3, <2>2
  <2>3. CASE o.ui = Stop(ui, "noRoot")
    BY <1>1, <1>2, <2>3, StopSound, StopKeeps DEF Keeps
  <2> QED
    BY <2>1, <2>2, <2>3
<1>5. Sound(u) /\ RowsLive(u) /\ Keeps(reg, ui, u)
  <2>1. Keeps(reg, o.ui, UpdateIfSame(reg, o.ui, o.ui.sel))
    BY <1>3, <1>4
  <2> QED
    BY <1>3, <1>4, <2>1, KeepsTransitive
<1>6. Sound(ui') /\ RowsLive(ui') /\ Keeps(reg, u, ui')
  BY <1>5, UpdateUISound, UpdateUIKeeps
<1> QED
  BY <1>1, <1>5, <1>6, KeepsTransitive DEF Rest
-----------------------------------------------------------------------------
(* A new command makes a new world, and a new past leads to it.            *)

NewWorldBoth(M, K, m, c, L, J) ==
  /\ K \subseteq J /\ c \in Entry /\ StepBoth(c, J, m + 1, M, L) /\ Plain(M, J)
  /\ World(L) /\ Plain(L, J) /\ BornBefore(L, m + 1)
  /\ c.op # "rename" /\ TrueNames(M) => TrueNames(L)

LEMMA PlainMore ==
  ASSUME NEW M, NEW K, NEW J, K \subseteq J, Plain(M, K)
  PROVE  Plain(M, J)
  BY DEF Plain

LEMMA StepMore ==
  ASSUME NEW c, NEW K, NEW J, K \subseteq J, NEW i, NEW M, NEW L, StepBoth(c, K, i, M, L)
  PROVE  StepBoth(c, J, i, M, L)
<1>1. StepAt(c, K, i, M, L) => StepAt(c, J, i, M, L)
  BY DEF StepAt
<1> QED
  BY <1>1 DEF StepBoth

LEMMA UndoableWeaker ==
  ASSUME NEW f, NEW A, NEW B, NEW x \in BOOLEAN, NEW y \in BOOLEAN, y => x /\ A = B
  PROVE  Undoable(f, A, x) \subseteq Undoable(f, B, y)
  BY DEF Undoable

LEMMA KeyMakesWorld ==
  ASSUME NEW r, NEW u, NEW M, NEW K, NEW m, NEW c \in Command, NEW L, NEW J,
         NewWorld(r, u, M, K, m, c, L, J)
  PROVE  NewWorldBoth(M, K, m, c, L, J) /\ StepAt(c, J, m + 1, M, L) /\ Good(r, u, M, J) /\ World(L)
<1>1. c \in Entry /\ (c.op # "rename" => c.op = "create")
  BY TargetIs DEF Entry
<1>2. Plain(M, J) /\ StepBoth(c, J, m + 1, M, L)
  BY DEF NewWorld, Good, StepBoth
<1> QED
  BY <1>1, <1>2 DEF NewWorld, NewWorldBoth

LEMMA ValueMakesWorld ==
  ASSUME NEW M, NEW K, NEW m \in Nat, World(M), Plain(M, K), BornBefore(M, m),
         NEW c \in ValueCommand, c.path \in DOMAIN M, c.path # <<>>
  PROVE  NewWorldBoth(M, K, m, c, M, K)
<1>1. c \in Entry /\ StepBoth(c, K, m + 1, M, M)
  BY DEF Entry, StepBoth
<1>2. BornBefore(M, m + 1)
  BY DEF BornBefore
<1> QED
  BY <1>1, <1>2 DEF NewWorldBoth

(* The past up to m, and the world and the data that c makes.              *)
ExtendsBoth(O, G, N, F, J, m, c, L) ==
  /\ PastBoth(O, G, J, m + 1) /\ O[m + 1] = L /\ \A i \in 0 .. m : O[i] = N[i]
  /\ G[m + 1] = c /\ \A i \in 1 .. m : G[i] = F[i]

LEMMA PastMoreBoth ==
  ASSUME NEW N, NEW F, NEW K, NEW n, PastBoth(N, F, K, n), NEW m \in 0 .. n,
         NEW c, NEW L, NEW J, NEW M, M = N[m], NewWorldBoth(M, K, m, c, L, J)
  PROVE  \E O, G : ExtendsBoth(O, G, N, F, J, m, c, L)
<1> DEFINE O == [i \in 0 .. m + 1 |-> IF i = m + 1 THEN L ELSE N[i]]
           G == [i \in 1 .. m + 1 |-> IF i = m + 1 THEN c ELSE F[i]]
<1>1. /\ n \in Nat /\ m \in Nat /\ m <= n /\ DOMAIN N[0] = InitialKeys
      /\ \A i \in 0 .. n : WorldBoth(N[i], F, K, i)
      /\ \A i \in 1 .. n : StepBoth(F[i], K, i, N[i - 1], N[i])
  BY DEF PastBoth
<1>2. /\ \A i \in 0 .. m : O[i] = N[i] /\ i \in 0 .. n
      /\ \A i \in 1 .. m : G[i] = F[i] /\ i \in 1 .. n
      /\ O[m + 1] = L /\ G[m + 1] = c
  BY <1>1
<1> HIDE DEF O, G
<1>3. K \subseteq J
  BY DEF NewWorldBoth
<1>4. ASSUME NEW i \in 0 .. m PROVE WorldBoth(O[i], G, J, i)
  <2>1. WorldBoth(N[i], F, K, i) /\ O[i] = N[i]
    BY <1>1, <1>2
  <2>2. (\A j \in 1 .. i : G[j].op # "rename") => \A j \in 1 .. i : F[j].op # "rename"
    BY <1>1, <1>2
  <2>3. Plain(N[i], J)
    BY <1>3, <2>1, PlainMore DEF WorldBoth
  <2> QED
    BY <2>1, <2>2, <2>3 DEF WorldBoth
<1>5. WorldBoth(L, G, J, m + 1)
  <2>1. ASSUME \A j \in 1 .. m + 1 : G[j].op # "rename" PROVE TrueNames(L)
    <3>1. c.op # "rename" /\ \A j \in 1 .. m : F[j].op # "rename"
      BY <1>1, <1>2, <2>1
    <3>2. TrueNames(N[m])
      BY <1>1, <3>1 DEF WorldBoth
    <3> QED
      BY <3>1, <3>2 DEF NewWorldBoth
  <2> QED
    BY <2>1 DEF WorldBoth, NewWorldBoth
<1>6. ASSUME NEW i \in 1 .. m PROVE StepBoth(G[i], J, i, O[i - 1], O[i])
  <2>1. StepBoth(F[i], K, i, N[i - 1], N[i]) /\ G[i] = F[i] /\ O[i] = N[i] /\ O[i - 1] = N[i - 1]
    BY <1>1, <1>2
  <2> QED
    BY <1>3, <2>1, StepMore
<1>7. StepBoth(G[m + 1], J, m + 1, O[m + 1 - 1], O[m + 1])
  BY <1>1, <1>2 DEF NewWorldBoth
<1>8. PastBoth(O, G, J, m + 1)
  <2>1. \A i \in 0 .. m + 1 : WorldBoth(O[i], G, J, i)
    BY <1>1, <1>2, <1>4, <1>5
  <2>2. \A i \in 1 .. m + 1 : StepBoth(G[i], J, i, O[i - 1], O[i])
    BY <1>1, <1>6, <1>7
  <2>3. DOMAIN O[0] = InitialKeys
    BY <1>1, <1>2
  <2> QED
    BY <1>1, <2>1, <2>2, <2>3 DEF PastBoth
<1> QED
  BY <1>2, <1>8 DEF ExtendsBoth

LEMMA DataMore ==
  ASSUME NEW N, NEW F, NEW D, NEW n \in Nat, DataPast(N, F, D, n), NEW m \in 0 .. n,
         NEW O, NEW G, NEW J, NEW c, NEW L, ExtendsBoth(O, G, N, F, J, m, c, L),
         NEW C, NEW B, C[m + 1] = B, \A i \in 0 .. m : C[i] = D[i],
         DataStep(c, L, D[m], B), B \in [DOMAIN L -> Data \union {NoValue}]
  PROVE  DataPast(O, G, C, m + 1)
<1>1. /\ O[m + 1] = L /\ \A i \in 0 .. m : O[i] = N[i]
      /\ G[m + 1] = c /\ \A i \in 1 .. m : G[i] = F[i]
  BY DEF ExtendsBoth
<1>2. /\ D[0] = InitialData /\ m \in Nat
      /\ \A i \in 0 .. n : D[i] \in [DOMAIN N[i] -> Data \union {NoValue}]
      /\ \A i \in 1 .. n : DataStep(F[i], N[i], D[i - 1], D[i])
  BY DEF DataPast
<1>3. \A i \in 0 .. m : C[i] \in [DOMAIN O[i] -> Data \union {NoValue}]
  BY <1>1, <1>2
<1>4. \A i \in 1 .. m : DataStep(G[i], O[i], C[i - 1], C[i])
  <2> SUFFICES ASSUME NEW i \in 1 .. m PROVE DataStep(G[i], O[i], C[i - 1], C[i])
    OBVIOUS
  <2>1. i \in 1 .. n /\ i \in 0 .. m /\ i - 1 \in 0 .. m
    BY <1>2
  <2>2. C[i] = D[i] /\ C[i - 1] = D[i - 1] /\ G[i] = F[i] /\ O[i] = N[i]
    BY <1>1, <2>1
  <2> QED
    BY <1>2, <2>1, <2>2
<1>5. DataStep(G[m + 1], O[m + 1], C[m + 1 - 1], C[m + 1])
  <2>1. m + 1 - 1 = m /\ m \in 0 .. m
    BY <1>2
  <2> QED
    BY <1>1, <2>1
<1>6. \A i \in 0 .. m + 1 : i \in 0 .. m \/ i = m + 1
  BY <1>2
<1>7. \A i \in 1 .. m + 1 : i \in 1 .. m \/ i = m + 1
  BY <1>2
<1>8. C[0] = InitialData
  BY <1>2
<1>9. \A i \in 0 .. m + 1 : C[i] \in [DOMAIN O[i] -> Data \union {NoValue}]
  BY <1>1, <1>3, <1>6
<1>10. \A i \in 1 .. m + 1 : DataStep(G[i], O[i], C[i - 1], C[i])
  BY <1>4, <1>5, <1>7
<1> QED
  BY <1>8, <1>9, <1>10 DEF DataPast

LEMMA PushStands ==
  ASSUME Base, NEW N, NEW F, NEW K, NEW D, NEW m, NEW n, Stands(N, F, K, D, m, n),
         NEW c, NEW L, NEW J, NewWorldBoth(N[m], K, m, c, L, J),
         NEW e \in Entry, e \in Undoable(c, data, ~overwrote'),
         overwrote' \in BOOLEAN, overwrote => overwrote',
         undoList' = Append(undoList, e), redoList' = <<>>,
         Fits(reg', ui'.tree, L, J), Shows(reg', ui'),
         ~overwrote' => DataStep(c, L, data, data') /\ data' \in [DOMAIN L -> Data \union {NoValue}]
  PROVE  /\ undoList' \in Seq(Entry) /\ redoList' \in Seq(Entry)
         /\ \E O, G, C : Stands(O, G, J, C, m + 1, m + 1)'
<1>1. /\ n \in Nat /\ m \in 0 .. n /\ m \in Nat /\ PastBoth(N, F, K, n)
      /\ Stacked(undoList, redoList, Undoables(F, D, n, ~overwrote), Redoables(F, n, ~overwrote), m, n)
      /\ ~overwrote => DataPast(N, F, D, n) /\ data = D[m]
      /\ overwrote \in BOOLEAN /\ undoList \in Seq(Entry) /\ redoList \in Seq(Entry)
  BY StandsGood DEF Stands, Base
<1>2. PICK M : M = N[m]
  OBVIOUS
<1>3. PICK O, G : ExtendsBoth(O, G, N, F, J, m, c, L)
  <2>1. NewWorldBoth(M, K, m, c, L, J)
    BY <1>2
  <2> QED
    BY <1>1, <1>2, <2>1, PastMoreBoth
<1>4. PICK B : B = data'
  OBVIOUS
<1>5. PICK C : C[m + 1] = B /\ \A i \in 0 .. m : C[i] = D[i]
  <2>1. PICK C : C = [i \in 0 .. m + 1 |-> IF i = m + 1 THEN B ELSE D[i]]
    OBVIOUS
  <2>2. \A i \in 0 .. m : i \in 0 .. m + 1 /\ i # m + 1 /\ m + 1 \in 0 .. m + 1
    BY <1>1
  <2>3. m + 1 \in 0 .. m + 1
    BY <1>1
  <2>4. C[m + 1] = B /\ \A i \in 0 .. m : C[i] = D[i]
    BY <2>1, <2>2, <2>3
  <2> QED
    BY <2>4
<1> DEFINE x == ~overwrote
           y == ~overwrote'
<1>6. x \in BOOLEAN /\ y \in BOOLEAN /\ (y => x)
  BY <1>1
<1>7. y => DataPast(O, G, C, m + 1) /\ data' = C[m + 1]
  BY <1>1, <1>3, <1>4, <1>5, <1>6, DataMore
<1> DEFINE U == Undoables(F, D, n, x)
           V == Undoables(G, C, m + 1, y)
<1>8. e \in V[m + 1]
  <2>1. m \in 0 .. m /\ m + 1 - 1 = m /\ m + 1 \in 1 .. m + 1
    BY <1>1
  <2>2. V[m + 1] = Undoable(c, C[m], y)
    BY <1>3, <2>1 DEF Undoables, ExtendsBoth
  <2>3. y => data = C[m]
    BY <1>1, <1>5, <1>6, <2>1
  <2>4. Undoable(c, data, y) \subseteq Undoable(c, C[m], y)
    BY <2>3, UndoableWeaker
  <2> QED
    BY <1>6, <2>2, <2>4
<1>9. \A i \in 1 .. m : U[i] \subseteq V[i]
  <2> SUFFICES ASSUME NEW i \in 1 .. m PROVE U[i] \subseteq V[i]
    OBVIOUS
  <2>1. i \in 1 .. n /\ i \in 1 .. m + 1 /\ i - 1 \in 0 .. m
    BY <1>1
  <2>2. C[i - 1] = D[i - 1] /\ G[i] = F[i]
    BY <1>3, <1>5, <2>1 DEF ExtendsBoth
  <2> HIDE DEF x, y
  <2>3. U[i] = Undoable(F[i], D[i - 1], x) /\ V[i] = Undoable(F[i], D[i - 1], y)
    BY <2>1, <2>2 DEF Undoables
  <2>4. Undoable(F[i], D[i - 1], x) \subseteq Undoable(F[i], D[i - 1], y)
    BY <1>6, UndoableWeaker
  <2> HIDE DEF U, V
  <2> QED
    BY <2>3, <2>4
<1>10. Stacked(undoList, redoList, U, Redoables(F, n, x), m, n)
  BY <1>1
<1> HIDE DEF U, V, x, y
<1>11. /\ Stacked(undoList', redoList', V, Redoables(G, m + 1, y), m + 1, m + 1)
       /\ undoList' \in Seq(Entry) /\ redoList' \in Seq(Entry)
  BY <1>1, <1>8, <1>9, <1>10, StackedPush
<1>12. PastBoth(O, G, J, m + 1) /\ O[m + 1] = L /\ m + 1 \in 0 .. m + 1
  BY <1>1, <1>3 DEF ExtendsBoth
<1>13. Stands(O, G, J, C, m + 1, m + 1)'
  BY <1>7, <1>11, <1>12 DEF Stands, V, y
<1> QED
  BY <1>11, <1>13
LEMMA RenameMovesKeys ==
  ASSUME NEW c, NEW K, NEW i, NEW M, NEW L, StepAt(c, K, i, M, L), World(M)
  PROVE  c.op = "create" \/ DOMAIN L # DOMAIN M
<1>1. CASE c.op = "rename"
  <2>1. Sibling(c.path, Target(c)) /\ DOMAIN M \in SUBSET Path /\ ClosedSet(DOMAIN M)
        /\ c.path \in DOMAIN M /\ Target(c) \notin DOMAIN M
        /\ DOMAIN L = Moved(c.path, Target(c), DOMAIN M)
    BY <1>1 DEF StepAt, Moves, World
  <2>2. c.path \notin Moved(c.path, Target(c), DOMAIN M)
    BY <2>1, MovedSet
  <2> QED
    BY <2>1, <2>2
<1> QED
  BY <1>1, TargetIs DEF StepAt

LEMMA StandsStill ==
  ASSUME NEW N, NEW F, NEW K, NEW D, NEW m, NEW n, Stands(N, F, K, D, m, n),
         UNCHANGED reg, Keeps(reg, ui, ui')
  PROVE  Fits(reg', ui'.tree, N[m], K) /\ Shows(reg', ui')
<1>1. Good(reg, ui, N[m], K)
  BY StandsGood
<1> QED
  BY <1>1, FitsGrow DEF Good, Keeps, Fits, Trees

LEMMA PushKey ==
  ASSUME VInv, AtRest, NEW c \in Command, AddCommand(c), DataAfter(c),
         c.path = ui.cur, c.name # DeletedKey
  PROVE  VInv'
<1>1. PICK N, F, K, D, m, n : Stands(N, F, K, D, m, n)
  BY DEF VInv, AtRest
<1>2. PICK o : Ends(Execute(reg, ui, c), o) /\ Recorded(o, Append(undoList, Done(c)), <<>>)
  BY StepEnds
<1>3. Base /\ Rest /\ ~refreshing'
  BY StepEnds DEF VInv, Base
<1>4. /\ n \in Nat /\ m \in 0 .. n /\ m \in Nat /\ WorldBoth(N[m], F, K, m) /\ Good(reg, ui, N[m], K)
      /\ reg = DOMAIN N[m] /\ ClosedSet(reg)
  BY <1>1, StandsGood
<1>5. /\ Rest' /\ data' \in [reg' -> Data \union {NoValue}] /\ UNCHANGED overwrote
      /\ o.ok => Done(c) \in Command
  BY <1>2, <1>3, <1>4, KeyCommandBase
<1>6. ~IsValueCommand(c)
  BY EntryIs DEF Entry
<1>7. o.ok => Done(c) \in Entry
  BY <1>5 DEF Entry
<1>8. Base'
  <2>1. CASE o.ok
    <3>1. undoList' = Append(undoList, Done(c)) /\ redoList' = <<>>
      BY <1>2, <2>1 DEF Recorded
    <3>2. undoList' \in Seq(Entry) /\ redoList' \in Seq(Entry)
      BY <1>3, <1>7, <2>1, <3>1, EmptySeq, AppendProperties DEF Base
    <3> QED
      BY <1>3, <1>5, <3>2 DEF Base
  <2>2. CASE ~o.ok
    BY <1>2, <1>3, <1>5, <2>2 DEF Recorded, lists, Base
  <2> QED
    BY <2>1, <2>2
<1>9. ASSUME Running' PROVE \E O, G, J, C, k, l : Stands(O, G, J, C, k, l)'
  <2>1. CASE Refused(reg, ui, o)
    <3>1. Fits(reg', ui'.tree, N[m], K) /\ Shows(reg', ui')
      BY <1>2, <1>3, <1>4, <1>9, <2>1, EndsInWorld
    <3>2. UNCHANGED <<undoList, redoList, overwrote>> /\ reg' = reg
      BY <1>2, <1>5, <2>1 DEF Refused, Recorded, lists, Ends
    <3>3. data' = data
      BY <1>3, <3>2, DataAfterIs DEF Base
    <3> QED
      BY <1>1, <3>1, <3>2, <3>3, StandsAgain
  <2>2. CASE ~Refused(reg, ui, o)
    <3>1. /\ ~Stopped(o) /\ o.ok = TRUE
          /\ \A L, J : Good(o.reg, o.ui, L, J) => Fits(reg', ui'.tree, L, J) /\ Shows(reg', ui')
      BY <1>2, <1>3, <1>4, <1>9, <2>2, EndsInWorld
    <3>2. /\ reg \in SUBSET Path /\ Sound(ui) /\ ui.status = "running" /\ BornBefore(N[m], m)
          /\ o \in Execute(reg, ui, c) /\ reg' = o.reg /\ World(N[m])
      BY <1>2, <1>3, <1>4, RestFacts DEF Ends, WorldBoth
    <3>3. PICK L, J : NewWorld(reg, ui, N[m], K, m, c, L, J)
      BY <1>4, <2>2, <3>1, <3>2, TargetIs, CreateMakesWorld, RenameMakesWorld
    <3>4. /\ NewWorldBoth(N[m], K, m, c, L, J) /\ StepAt(c, J, m + 1, N[m], L)
          /\ Good(reg, ui, N[m], J) /\ World(L)
      BY <3>3, KeyMakesWorld
    <3>5. Good(o.reg, o.ui, L, J)
      BY <2>2, <3>1, <3>2, <3>4, ExecuteFits
    <3>6. Fits(reg', ui'.tree, L, J) /\ Shows(reg', ui') /\ reg' = DOMAIN L
      BY <3>1, <3>2, <3>5 DEF Good, Fits
    <3>7. data' = DataTo(c, data, DOMAIN L)
      <4>1. reg' # reg \/ c.op = "create"
        BY <1>4, <3>2, <3>4, <3>6, RenameMovesKeys
      <4> QED
        BY <1>3, <3>6, <4>1, DataAfterIs DEF Base
    <3>8. DataStep(c, L, data, data') /\ data' \in [DOMAIN L -> Data \union {NoValue}]
      BY <1>5, <1>6, <3>6, <3>7 DEF DataStep
    <3>9. Done(c) \in Undoable(c, data, ~overwrote') /\ Done(c) \in Entry
      BY <1>6, <1>7, <3>1 DEF Undoable
    <3>10. undoList' = Append(undoList, Done(c)) /\ redoList' = <<>>
      BY <1>2, <3>1 DEF Recorded
    <3>11. overwrote' \in BOOLEAN /\ (overwrote => overwrote')
      BY <1>3, <1>5 DEF Base
    <3> QED
      BY <1>1, <1>3, <3>4, <3>6, <3>8, <3>9, <3>10, <3>11, PushStands
  <2> QED
    BY <2>1, <2>2
<1> QED
  BY <1>8, <1>9 DEF VInv

LEMMA PushValue ==
  ASSUME VInv, AtRest, NEW c \in ValueCommand, AddValueCommand(c)
  PROVE  VInv'
<1>1. PICK N, F, K, D, m, n : Stands(N, F, K, D, m, n)
  BY DEF VInv, AtRest
<1>2. Base /\ Rest /\ data \in [reg -> Data \union {NoValue}] /\ overwrote \in BOOLEAN
  BY DEF VInv, Base
<1>3. PICK o \in ExecuteValue(c) :
        /\ data' = o.data /\ ui' = UpdateUI(allowModify, o.ui)
        /\ overwrote' = (overwrote \/ (o.ok /\ c.op = "new" /\ data[c.path] # NoValue))
        /\ IF o.ok THEN undoList' = Append(undoList, o.cmd) /\ redoList' = <<>>
                   ELSE UNCHANGED lists
  BY DEF AddValueCommand
<1>4. UNCHANGED reg /\ ~refreshing'
  BY <1>2 DEF AddValueCommand, refresh, Base
<1>5. /\ n \in Nat /\ m \in 0 .. n /\ m \in Nat /\ WorldBoth(N[m], F, K, m)
      /\ reg = DOMAIN N[m]
  BY <1>1, StandsGood
<1>6. PICK d : d = data[c.path]
  OBVIOUS
<1>7. \/ ValueFailed(o)
      \/ c.op = "new" /\ ValueWritten(c, o, c.value, c.value)
      \/ c.op = "change" /\ d # NoValue /\ ValueWritten(c, o, c.value, d)
  BY <1>2, <1>3, <1>6, ValueCases
<1>8. Rest' /\ Keeps(reg, ui, ui')
  <2>1. o.ui \in {ui, UpdateIfSame(reg, ui, NoNode), Stop(ui, "noRoot")}
    BY <1>7 DEF ValueFailed, ValueWritten
  <2> QED
    BY <1>2, <1>3, <1>4, <2>1, ValueUI
<1>9. CASE ValueFailed(o)
  <2>1. UNCHANGED <<reg, undoList, redoList, data, overwrote>>
    BY <1>2, <1>3, <1>4, <1>9 DEF ValueFailed, lists
  <2>2. Stands(N, F, K, D, m, n)'
    BY <1>1, <1>8, <2>1, StandsLooking
  <2>3. Base'
    BY <1>2, <1>4, <1>8, <2>1 DEF Base
  <2> QED
    BY <2>2, <2>3 DEF VInv
<1>10. ASSUME NEW w, w = OldValue(c, data), ValueWritten(c, o, c.value, w),
              c.op = "new" \/ (c.op = "change" /\ d # NoValue)
       PROVE  VInv'
  <2>1. /\ o.ok = TRUE /\ c.path # <<>> /\ c.path \in reg
        /\ o.cmd \in ValueCommand /\ Alike(o.cmd, c) /\ o.cmd.value = w
        /\ data' = [data EXCEPT ![c.path] = c.value]
    BY <1>3, <1>10 DEF ValueWritten
  <2>2. c.value \in Data /\ IsValueCommand(c) /\ o.cmd \in Entry
    BY <2>1, EntryIs DEF Entry
  <2>3. data' \in [DOMAIN N[m] -> Data \union {NoValue}]
    BY <1>2, <1>5, <2>1, <2>2
  <2>4. NewWorldBoth(N[m], K, m, c, N[m], K)
    BY <1>5, <2>1, ValueMakesWorld DEF WorldBoth
  <2>5. Fits(reg', ui'.tree, N[m], K) /\ Shows(reg', ui')
    BY <1>1, <1>4, <1>8, StandsStill
  <2>6. o.cmd \in Undoable(c, data, ~overwrote')
    BY <1>10, <2>1, <2>2 DEF Undoable
  <2>7. undoList' = Append(undoList, o.cmd) /\ redoList' = <<>>
    BY <1>3, <2>1
  <2>8. overwrote' \in BOOLEAN /\ (overwrote => overwrote') /\ (~overwrote' => c.op # "new" \/ d = NoValue)
    BY <1>2, <1>3, <1>6, <2>1
  <2>9. ~overwrote' => DataStep(c, N[m], data, data')
    BY <1>6, <1>10, <2>1, <2>2, <2>8 DEF DataStep
  <2>10. /\ undoList' \in Seq(Entry) /\ redoList' \in Seq(Entry)
         /\ \E O, G, C : Stands(O, G, K, C, m + 1, m + 1)'
    BY <1>1, <1>2, <2>2, <2>3, <2>4, <2>5, <2>6, <2>7, <2>8, <2>9, PushStands
  <2>11. Base'
    BY <1>4, <1>5, <1>8, <2>3, <2>8, <2>10 DEF Base
  <2> QED
    BY <2>10, <2>11 DEF VInv
<1> QED
  BY <1>6, <1>7, <1>9, <1>10 DEF OldValue
-----------------------------------------------------------------------------
(* Taking back and doing again.                                            *)

(* What the stacks say of the command on top.                              *)
LEMMA TopOfUndo ==
  ASSUME Base, undoList # <<>>,
         NEW N, NEW F, NEW K, NEW D, NEW m, NEW n, Stands(N, F, K, D, m, n)
  PROVE  /\ m \in 1 .. n /\ m - 1 \in 0 .. n
         /\ Last(undoList) \in Undoable(F[m], D[m - 1], ~overwrote)
         /\ \A e \in Redoable(F[m], ~overwrote) :
              /\ Stacked(Front(undoList), Append(redoList, e), Undoables(F, D, n, ~overwrote),
                         Redoables(F, n, ~overwrote), m - 1, n)
              /\ Front(undoList) \in Seq(Entry) /\ Append(redoList, e) \in Seq(Entry)
<1> DEFINE U == Undoables(F, D, n, ~overwrote)
           R == Redoables(F, n, ~overwrote)
<1>1. undoList \in Seq(Entry) /\ redoList \in Seq(Entry) /\ n \in Nat /\ m \in 0 .. n
      /\ Stacked(undoList, redoList, U, R, m, n)
  BY StandsGood DEF Stands, Base
<1>2. \A i \in 1 .. n : /\ U[i] = Undoable(F[i], D[i - 1], ~overwrote)
                        /\ R[i] = Redoable(F[i], ~overwrote)
  BY DEF Undoables, Redoables
<1>3. \A e : e \in Redoable(F[m], ~overwrote) => e \in Entry
  BY DEF Redoable
<1> HIDE DEF U, R
<1>4. /\ m \in 1 .. n /\ Last(undoList) \in U[m]
      /\ \A e \in Entry : e \in R[m] => /\ Stacked(Front(undoList), Append(redoList, e), U, R, m - 1, n)
                                        /\ Front(undoList) \in Seq(Entry)
                                        /\ Append(redoList, e) \in Seq(Entry)
  BY <1>1, StackedUndo
<1>5. m - 1 \in 0 .. n
  BY <1>1, <1>4
<1>6. /\ Last(undoList) \in Undoable(F[m], D[m - 1], ~overwrote)
      /\ \A e \in Redoable(F[m], ~overwrote) :
              /\ Stacked(Front(undoList), Append(redoList, e), U, R, m - 1, n)
              /\ Front(undoList) \in Seq(Entry) /\ Append(redoList, e) \in Seq(Entry)
  BY <1>2, <1>3, <1>4
<1> QED
  BY <1>4, <1>5, <1>6 DEF U, R

LEMMA TopOfRedo ==
  ASSUME Base, redoList # <<>>,
         NEW N, NEW F, NEW K, NEW D, NEW m, NEW n, Stands(N, F, K, D, m, n)
  PROVE  /\ m + 1 \in 1 .. n /\ m + 1 \in 0 .. n /\ m + 1 - 1 = m
         /\ Last(redoList) \in Redoable(F[m + 1], ~overwrote)
         /\ \A e \in Undoable(F[m + 1], D[m], ~overwrote) :
              /\ Stacked(Append(undoList, e), Front(redoList), Undoables(F, D, n, ~overwrote),
                         Redoables(F, n, ~overwrote), m + 1, n)
              /\ Append(undoList, e) \in Seq(Entry) /\ Front(redoList) \in Seq(Entry)
<1> DEFINE U == Undoables(F, D, n, ~overwrote)
           R == Redoables(F, n, ~overwrote)
<1>1. undoList \in Seq(Entry) /\ redoList \in Seq(Entry) /\ n \in Nat /\ m \in 0 .. n
      /\ Stacked(undoList, redoList, U, R, m, n)
  BY StandsGood DEF Stands, Base
<1>2. \A i \in 1 .. n : /\ U[i] = Undoable(F[i], D[i - 1], ~overwrote)
                        /\ R[i] = Redoable(F[i], ~overwrote)
  BY DEF Undoables, Redoables
<1>3. \A e : e \in Undoable(F[m + 1], D[m], ~overwrote) => e \in Entry
  BY DEF Undoable
<1> HIDE DEF U, R
<1>4. /\ m + 1 \in 1 .. n /\ Last(redoList) \in R[m + 1]
      /\ \A e \in Entry : e \in U[m + 1] =>
              /\ Stacked(Append(undoList, e), Front(redoList), U, R, m + 1, n)
              /\ Append(undoList, e) \in Seq(Entry) /\ Front(redoList) \in Seq(Entry)
  BY <1>1, StackedRedo
<1>5. m + 1 \in 0 .. n /\ m + 1 - 1 = m
  BY <1>1, <1>4
<1>6. /\ Last(redoList) \in Redoable(F[m + 1], ~overwrote)
      /\ \A e \in Undoable(F[m + 1], D[m], ~overwrote) :
              /\ Stacked(Append(undoList, e), Front(redoList), U, R, m + 1, n)
              /\ Append(undoList, e) \in Seq(Entry) /\ Front(redoList) \in Seq(Entry)
  <2>1. U[m + 1] = Undoable(F[m + 1], D[m], ~overwrote) /\ R[m + 1] = Redoable(F[m + 1], ~overwrote)
    <3>1. PICK j \in 1 .. n : j = m + 1 /\ j - 1 = m
      BY <1>1, <1>4
    <3>2. U[j] = Undoable(F[j], D[j - 1], ~overwrote) /\ R[j] = Redoable(F[j], ~overwrote)
      BY <1>2
    <3> QED
      BY <3>1, <3>2
  <2> QED
    BY <1>3, <1>4, <2>1
<1> QED
  BY <1>4, <1>5, <1>6 DEF U, R

(* After a step that moved in the history, from m to k.                    *)
LEMMA StandsMoved ==
  ASSUME NEW N, NEW F, NEW K, NEW D, NEW m, NEW n, Stands(N, F, K, D, m, n), NEW k \in 0 .. n,
         UNCHANGED overwrote,
         Stacked(undoList', redoList', Undoables(F, D, n, ~overwrote), Redoables(F, n, ~overwrote), k, n),
         Fits(reg', ui'.tree, N[k], K), Shows(reg', ui'), ~overwrote => data' = D[k]
  PROVE  Stands(N, F, K, D, k, n)'
<1>1. PastBoth(N, F, K, n) /\ (~overwrote' => DataPast(N, F, D, n) /\ data' = D[k])
  BY DEF Stands
<1>2. Stacked(undoList', redoList', Undoables(F, D, n, ~overwrote'), Redoables(F, n, ~overwrote'), k, n)
  OBVIOUS
<1> QED
  BY <1>1, <1>2 DEF Stands

(* The values one command apart.                                           *)
LEMMA DataAt ==
  ASSUME NEW N, NEW F, NEW K, NEW D, NEW m, NEW n, Stands(N, F, K, D, m, n), ~overwrote,
         NEW i \in 1 .. n
  PROVE  /\ data = D[m] /\ DataStep(F[i], N[i], D[i - 1], D[i])
         /\ D[i - 1] \in [DOMAIN N[i - 1] -> Data \union {NoValue}]
         /\ D[i] \in [DOMAIN N[i] -> Data \union {NoValue}]
<1>1. i \in 0 .. n /\ i - 1 \in 0 .. n
  BY StandsGood
<1> QED
  BY <1>1 DEF Stands, DataPast

LEMMA UndoKey ==
  ASSUME VInv, AtRest, undoList # <<>>, ~IsValueCommand(Last(undoList)),
         OnEditUndo, DataAfter(Last(undoList))
  PROVE  VInv'
<1>1. PICK N, F, K, D, m, n : Stands(N, F, K, D, m, n)
  BY DEF VInv, AtRest
<1>2. PICK c : c = Last(undoList)
  OBVIOUS
<1>3. /\ n \in Nat /\ PastBoth(N, F, K, n) /\ Good(reg, ui, N[m], K)
      /\ reg = DOMAIN N[m] /\ ClosedSet(reg)
  BY <1>1, StandsGood
<1>4. Base /\ Rest /\ ~refreshing'
  BY StepEnds DEF VInv, Base, OnEditUndo
<1>5. /\ m \in 1 .. n /\ m - 1 \in 0 .. n
      /\ c \in Undoable(F[m], D[m - 1], ~overwrote)
      /\ \A e \in Redoable(F[m], ~overwrote) :
              /\ Stacked(Front(undoList), Append(redoList, e), Undoables(F, D, n, ~overwrote),
                         Redoables(F, n, ~overwrote), m - 1, n)
              /\ Front(undoList) \in Seq(Entry) /\ Append(redoList, e) \in Seq(Entry)
  BY <1>1, <1>2, <1>4, TopOfUndo
<1>6. ~IsValueCommand(F[m]) /\ c = Done(F[m])
  <2>1. \A e \in ValueCommand : IsValueCommand(e)
    BY DEF ValueCommand, IsValueCommand
  <2> QED
    BY <1>2, <1>5, <2>1 DEF Undoable, Alike
<1>7. /\ World(N[m]) /\ World(N[m - 1]) /\ Plain(N[m - 1], K)
      /\ F[m] \in Command /\ c \in Command /\ Done(c) = F[m] /\ F[m] \in Entry
      /\ StepAt(F[m], K, m, N[m - 1], N[m])
  BY <1>3, <1>5, <1>6, EntryAt
<1>8. PICK o : /\ Ends(UndoCommand(reg, ui, c), o)
               /\ Recorded(o, Front(undoList), Append(redoList, F[m]))
  BY <1>2, <1>7, StepEnds DEF OnEditUndo
<1>9. F[m] \in Redoable(F[m], ~overwrote)
  BY <1>6, <1>7 DEF Redoable
<1>10. /\ Rest' /\ data' \in [reg' -> Data \union {NoValue}] /\ UNCHANGED overwrote
  BY <1>2, <1>3, <1>4, <1>7, <1>8, KeyCommandBase
<1>11. Base'
  <2>1. undoList' \in Seq(Entry) /\ redoList' \in Seq(Entry)
    BY <1>4, <1>5, <1>8, <1>9 DEF Recorded, lists, Base
  <2> QED
    BY <1>4, <1>10, <2>1 DEF Base
<1>12. ASSUME Running' PROVE \E k : Stands(N, F, K, D, k, n)'
  <2>1. CASE Refused(reg, ui, o)
    <3>1. Fits(reg', ui'.tree, N[m], K) /\ Shows(reg', ui')
      BY <1>3, <1>4, <1>7, <1>8, <1>12, <2>1, EndsInWorld
    <3>2. UNCHANGED <<undoList, redoList, overwrote>> /\ reg' = reg
      BY <1>8, <1>10, <2>1 DEF Refused, Recorded, lists, Ends
    <3>3. data' = data
      BY <1>2, <1>4, <1>7, <3>2, DataAfterIs DEF Base
    <3>4. Stands(N, F, K, D, m, n)'
      BY <1>1, <3>1, <3>2, <3>3, StandsAgain
    <3> QED
      BY <3>4
  <2>2. CASE ~Refused(reg, ui, o)
    <3>1. /\ ~Stopped(o) /\ o.ok = TRUE
          /\ \A L, J : Good(o.reg, o.ui, L, J) => Fits(reg', ui'.tree, L, J) /\ Shows(reg', ui')
      BY <1>3, <1>4, <1>7, <1>8, <1>12, <2>2, EndsInWorld
    <3>2. /\ reg \in SUBSET Path /\ Sound(ui) /\ ui.status = "running"
          /\ o \in UndoCommand(reg, ui, Done(F[m])) /\ reg' = o.reg
      BY <1>4, <1>6, <1>8, RestFacts DEF Ends
    <3>3. Good(o.reg, o.ui, N[m - 1], K)
      BY <1>3, <1>7, <2>2, <3>1, <3>2, UndoFits
    <3>4. Fits(reg', ui'.tree, N[m - 1], K) /\ Shows(reg', ui') /\ reg' = DOMAIN N[m - 1]
      BY <3>1, <3>2, <3>3 DEF Good, Fits
    <3>5. Stacked(undoList', redoList', Undoables(F, D, n, ~overwrote), Redoables(F, n, ~overwrote), m - 1, n)
      BY <1>5, <1>8, <1>9, <3>1 DEF Recorded
    <3>6. ASSUME ~overwrote PROVE data' = D[m - 1]
      <4>1. /\ data = D[m] /\ DataStep(F[m], N[m], D[m - 1], D[m])
            /\ D[m - 1] \in [DOMAIN N[m - 1] -> Data \union {NoValue}]
        BY <1>1, <1>5, <3>6, DataAt
      <4>2. D[m] = DataTo(F[m], D[m - 1], DOMAIN N[m])
        BY <1>6, <4>1 DEF DataStep
      <4>3. D[m - 1] = DataTo(c, data, DOMAIN N[m - 1])
        <5>1. PICK V : V = Data \union {NoValue}
          OBVIOUS
        <5>2. D[m - 1] \in [DOMAIN N[m - 1] -> V] /\ NoValue \in V
          BY <4>1, <5>1
        <5>3. D[m - 1] = DataTo(Done(F[m]), D[m], DOMAIN N[m - 1])
          BY <1>7, <4>2, <5>2, DataBack
        <5> QED
          BY <1>6, <4>1, <5>3
      <4>4. reg' # reg \/ c.op = "create"
        BY <1>3, <1>6, <1>7, <3>4, RenameMovesKeys, TargetIs
      <4> QED
        BY <1>2, <1>4, <1>7, <3>4, <4>3, <4>4, DataAfterIs DEF Base
    <3>7. Stands(N, F, K, D, m - 1, n)'
      BY <1>1, <1>5, <1>10, <3>4, <3>5, <3>6, StandsMoved
    <3> QED
      BY <3>7
  <2> QED
    BY <2>1, <2>2
<1> QED
  BY <1>11, <1>12 DEF VInv

LEMMA RedoKey ==
  ASSUME VInv, AtRest, redoList # <<>>, ~IsValueCommand(Last(redoList)),
         OnEditRedo, DataAfter(Last(redoList))
  PROVE  VInv'
<1>1. PICK N, F, K, D, m, n : Stands(N, F, K, D, m, n)
  BY DEF VInv, AtRest
<1>2. PICK c : c = Last(redoList)
  OBVIOUS
<1>3. /\ n \in Nat /\ m \in Nat /\ PastBoth(N, F, K, n) /\ Good(reg, ui, N[m], K)
      /\ reg = DOMAIN N[m] /\ ClosedSet(reg)
  BY <1>1, StandsGood
<1>4. Base /\ Rest /\ ~refreshing'
  BY StepEnds DEF VInv, Base, OnEditRedo
<1>5. /\ m + 1 \in 1 .. n /\ m + 1 \in 0 .. n /\ m + 1 - 1 = m
      /\ c \in Redoable(F[m + 1], ~overwrote)
      /\ \A e \in Undoable(F[m + 1], D[m], ~overwrote) :
              /\ Stacked(Append(undoList, e), Front(redoList), Undoables(F, D, n, ~overwrote),
                         Redoables(F, n, ~overwrote), m + 1, n)
              /\ Append(undoList, e) \in Seq(Entry) /\ Front(redoList) \in Seq(Entry)
  BY <1>1, <1>2, <1>4, TopOfRedo
<1>6. ~IsValueCommand(F[m + 1]) /\ c = F[m + 1]
  <2>1. \A e \in ValueCommand : IsValueCommand(e)
    BY DEF ValueCommand, IsValueCommand
  <2> QED
    BY <1>2, <1>5, <2>1 DEF Redoable, Alike
<1>7. /\ World(N[m + 1]) /\ World(N[m])
      /\ c \in Command /\ Done(c) \in Command /\ Done(c) \in Entry
      /\ StepAt(c, K, m + 1, N[m], N[m + 1])
  <2>1. PICK j \in 1 .. n : j = m + 1 /\ j - 1 = m
    BY <1>3, <1>5
  <2>2. c = F[j] /\ ~IsValueCommand(F[j])
    BY <1>6, <2>1
  <2>3. /\ World(N[j]) /\ World(N[j - 1]) /\ F[j] \in Command /\ Done(F[j]) \in Command
        /\ StepAt(F[j], K, j, N[j - 1], N[j])
    BY <1>3, <2>2, EntryAt
  <2> QED
    BY <2>1, <2>2, <2>3 DEF Entry
<1>8. PICK o : /\ Ends(Execute(reg, ui, c), o)
               /\ Recorded(o, Append(undoList, Done(c)), Front(redoList))
  BY <1>2, StepEnds DEF OnEditRedo
<1>9. Done(c) \in Undoable(F[m + 1], D[m], ~overwrote)
  BY <1>6, <1>7 DEF Undoable
<1>10. /\ Rest' /\ data' \in [reg' -> Data \union {NoValue}] /\ UNCHANGED overwrote
  BY <1>2, <1>3, <1>4, <1>7, <1>8, KeyCommandBase
<1>11. Base'
  <2>1. undoList' \in Seq(Entry) /\ redoList' \in Seq(Entry)
    BY <1>4, <1>5, <1>8, <1>9 DEF Recorded, lists, Base
  <2> QED
    BY <1>4, <1>10, <2>1 DEF Base
<1>12. ASSUME Running' PROVE \E k : Stands(N, F, K, D, k, n)'
  <2>1. CASE Refused(reg, ui, o)
    <3>1. Fits(reg', ui'.tree, N[m], K) /\ Shows(reg', ui')
      BY <1>3, <1>4, <1>7, <1>8, <1>12, <2>1, EndsInWorld
    <3>2. UNCHANGED <<undoList, redoList, overwrote>> /\ reg' = reg
      BY <1>8, <1>10, <2>1 DEF Refused, Recorded, lists, Ends
    <3>3. data' = data
      BY <1>2, <1>4, <1>7, <3>2, DataAfterIs DEF Base
    <3>4. Stands(N, F, K, D, m, n)'
      BY <1>1, <3>1, <3>2, <3>3, StandsAgain
    <3> QED
      BY <3>4
  <2>2. CASE ~Refused(reg, ui, o)
    <3>1. /\ ~Stopped(o) /\ o.ok = TRUE
          /\ \A L, J : Good(o.reg, o.ui, L, J) => Fits(reg', ui'.tree, L, J) /\ Shows(reg', ui')
      BY <1>3, <1>4, <1>7, <1>8, <1>12, <2>2, EndsInWorld
    <3>2. /\ reg \in SUBSET Path /\ Sound(ui) /\ ui.status = "running"
          /\ o \in Execute(reg, ui, c) /\ reg' = o.reg
      BY <1>4, <1>8, RestFacts DEF Ends
    <3>3. Good(o.reg, o.ui, N[m + 1], K)
      BY <1>3, <1>7, <2>2, <3>1, <3>2, ExecuteFits
    <3>4. Fits(reg', ui'.tree, N[m + 1], K) /\ Shows(reg', ui') /\ reg' = DOMAIN N[m + 1]
      BY <3>1, <3>2, <3>3 DEF Good, Fits
    <3>5. Stacked(undoList', redoList', Undoables(F, D, n, ~overwrote), Redoables(F, n, ~overwrote), m + 1, n)
      BY <1>5, <1>8, <1>9, <3>1 DEF Recorded
    <3>6. ASSUME ~overwrote PROVE data' = D[m + 1]
      <4>1. PICK j \in 1 .. n : j = m + 1 /\ j - 1 = m
        BY <1>3, <1>5
      <4>2. data = D[m] /\ DataStep(F[j], N[j], D[j - 1], D[j])
        BY <1>1, <3>6, DataAt
      <4>3. D[m + 1] = DataTo(c, data, DOMAIN N[m + 1])
        BY <1>6, <4>1, <4>2 DEF DataStep
      <4>4. reg' # reg \/ c.op = "create"
        BY <1>3, <1>7, <3>4, RenameMovesKeys
      <4> QED
        BY <1>2, <1>4, <1>7, <3>4, <4>3, <4>4, DataAfterIs DEF Base
    <3>7. Stands(N, F, K, D, m + 1, n)'
      BY <1>1, <1>5, <1>10, <3>4, <3>5, <3>6, StandsMoved
    <3> QED
      BY <3>7
  <2> QED
    BY <2>1, <2>2
<1> QED
  BY <1>11, <1>12 DEF VInv
(* Writing a value and writing the old one again.                          *)
LEMMA WrittenBack ==
  ASSUME NEW S, NEW V, NEW A \in [S -> V], NEW p \in S, NEW v, NEW B, B = [A EXCEPT ![p] = v]
  PROVE  B[p] = v /\ [B EXCEPT ![p] = A[p]] = A
  OBVIOUS

(* A value command taken back or done again: registry and view, and what   *)
(* becomes of the rest when it failed.                                     *)
LEMMA RerunValueShape ==
  ASSUME Base, AtRest, NEW by \in {"undo", "redo"}, NEW results, RerunValue(by, results),
         \A o \in results : o.ok \in BOOLEAN
                            /\ o.ui \in {ui, UpdateIfSame(reg, ui, NoNode), Stop(ui, "noRoot")}
  PROVE  /\ Rest' /\ ~refreshing' /\ UNCHANGED <<reg, overwrote>> /\ Keeps(reg, ui, ui')
         /\ \E o \in results :
              /\ data' = o.data
              /\ o.ok = FALSE => UNCHANGED <<undoList, redoList>>
              /\ o.ok = TRUE /\ by = "undo" =>
                   undoList' = Front(undoList) /\ redoList' = Append(redoList, o.cmd)
              /\ o.ok = TRUE /\ by = "redo" =>
                   undoList' = Append(undoList, o.cmd) /\ redoList' = Front(redoList)
<1>1. PICK o \in results :
       /\ data' = o.data
       /\ ui' = UpdateUI(allowModify, UpdateIfSame(reg, o.ui, o.ui.sel))
       /\ \/ ~o.ok /\ UNCHANGED lists
          \/ o.ok /\ by = "undo" /\ undoList' = Front(undoList) /\ redoList' = Append(redoList, o.cmd)
          \/ o.ok /\ by = "redo" /\ undoList' = Append(undoList, o.cmd) /\ redoList' = Front(redoList)
  BY DEF RerunValue
<1>2. UNCHANGED <<reg, overwrote>> /\ ~refreshing' /\ Rest
  BY DEF RerunValue, refresh, Base
<1>3. Rest' /\ Keeps(reg, ui, ui')
  <2>1. PICK u : u = UpdateIfSame(reg, o.ui, o.ui.sel)
    OBVIOUS
  <2>2. u \in {o.ui, UpdateIfSame(reg, o.ui, o.ui.sel)} /\ ui' = UpdateUI(allowModify, u)
    BY <1>1, <2>1
  <2> QED
    BY <1>2, <2>2, ValueUI
<1>4. /\ o.ok = FALSE => UNCHANGED <<undoList, redoList>>
      /\ o.ok = TRUE /\ by = "undo" =>
           undoList' = Front(undoList) /\ redoList' = Append(redoList, o.cmd)
      /\ o.ok = TRUE /\ by = "redo" =>
           undoList' = Append(undoList, o.cmd) /\ redoList' = Front(redoList)
  BY <1>1 DEF lists
<1> QED
  BY <1>1, <1>2, <1>3, <1>4

LEMMA UndoOfValue ==
  ASSUME VInv, AtRest, undoList # <<>>, IsValueCommand(Last(undoList)),
         RerunValue("undo", UndoValue(Last(undoList)))
  PROVE  VInv'
<1>1. PICK N, F, K, D, m, n : Stands(N, F, K, D, m, n)
  BY DEF VInv, AtRest
<1>2. PICK c : c = Last(undoList)
  OBVIOUS
<1>3. /\ n \in Nat /\ PastBoth(N, F, K, n) /\ reg = DOMAIN N[m]
      /\ Base /\ data \in [reg -> Data \union {NoValue}]
  BY <1>1, StandsGood DEF VInv, Base
<1>4. /\ m \in 1 .. n /\ m - 1 \in 0 .. n
      /\ c \in Undoable(F[m], D[m - 1], ~overwrote)
      /\ \A e \in Redoable(F[m], ~overwrote) :
              /\ Stacked(Front(undoList), Append(redoList, e), Undoables(F, D, n, ~overwrote),
                         Redoables(F, n, ~overwrote), m - 1, n)
              /\ Front(undoList) \in Seq(Entry) /\ Append(redoList, e) \in Seq(Entry)
  BY <1>1, <1>2, <1>3, TopOfUndo
<1>5. IsValueCommand(F[m]) /\ Alike(c, F[m]) /\ (~overwrote => c.value = OldValue(F[m], D[m - 1]))
  <2>1. ~IsValueCommand(F[m]) => c = Done(F[m]) /\ Done(F[m]) \in Command
    BY <1>3, <1>4, EntryAt DEF Undoable
  <2>2. \A e \in Command : ~IsValueCommand(e)
    BY DEF Command, IsValueCommand
  <2> QED
    BY <1>2, <1>4, <2>1, <2>2 DEF Undoable
<1>6. /\ F[m] \in ValueCommand /\ N[m] = N[m - 1] /\ c \in ValueCommand
      /\ c.op = F[m].op /\ c.path = F[m].path /\ F[m].path \in DOMAIN N[m]
  BY <1>3, <1>4, <1>5, EntryAt DEF Alike
<1>7. PICK d : d = data[c.path]
  OBVIOUS
<1>8. \A o \in UndoValue(c) :
              \/ ValueFailed(o)
              \/ c.op = "new" /\ d # NoValue /\ ValueWritten(c, o, NoValue, c.value)
              \/ c.op = "change" /\ d # NoValue /\ ValueWritten(c, o, c.value, d)
  BY <1>3, <1>6, <1>7, ValueCases
<1>9. \A o \in UndoValue(c) :
        o.ok \in BOOLEAN /\ o.ui \in {ui, UpdateIfSame(reg, ui, NoNode), Stop(ui, "noRoot")}
  BY <1>8 DEF ValueFailed, ValueWritten
<1>10. /\ Rest' /\ ~refreshing' /\ UNCHANGED <<reg, overwrote>> /\ Keeps(reg, ui, ui')
       /\ \E o \in UndoValue(c) :
              /\ data' = o.data
              /\ o.ok = FALSE => UNCHANGED <<undoList, redoList>>
              /\ o.ok = TRUE => undoList' = Front(undoList) /\ redoList' = Append(redoList, o.cmd)
  BY <1>2, <1>3, <1>9, RerunValueShape
<1>11. PICK o \in UndoValue(c) :
              /\ data' = o.data
              /\ o.ok = FALSE => UNCHANGED <<undoList, redoList>>
              /\ o.ok = TRUE => undoList' = Front(undoList) /\ redoList' = Append(redoList, o.cmd)
  BY <1>10
<1>12. CASE ValueFailed(o)
  <2>1. UNCHANGED <<reg, undoList, redoList, data, overwrote>>
    BY <1>10, <1>11, <1>12 DEF ValueFailed
  <2>2. Stands(N, F, K, D, m, n)'
    BY <1>1, <1>10, <2>1, StandsLooking
  <2>3. Base'
    BY <1>3, <1>10, <2>1 DEF Base
  <2> QED
    BY <2>2, <2>3 DEF VInv
<1>13. ASSUME NEW v \in Data \union {NoValue}, NEW w, ValueWritten(c, o, v, w),
              ~overwrote => v = D[m - 1][c.path] /\ w = F[m].value
       PROVE  VInv'
  <2>1. /\ o.ok = TRUE /\ o.cmd \in ValueCommand /\ Alike(o.cmd, c) /\ o.cmd.value = w
        /\ data' = [data EXCEPT ![c.path] = v]
    BY <1>11, <1>13 DEF ValueWritten
  <2>2. undoList' = Front(undoList) /\ redoList' = Append(redoList, o.cmd)
    BY <1>11, <2>1
  <2>3. o.cmd \in Redoable(F[m], ~overwrote)
    <3>1. o.cmd \in Entry /\ Alike(o.cmd, F[m])
      BY <1>6, <2>1 DEF Entry, Alike
    <3> QED
      BY <1>5, <1>13, <2>1, <3>1 DEF Redoable
  <2>4. /\ Stacked(undoList', redoList', Undoables(F, D, n, ~overwrote), Redoables(F, n, ~overwrote), m - 1, n)
        /\ undoList' \in Seq(Entry) /\ redoList' \in Seq(Entry)
    BY <1>4, <2>2, <2>3
  <2>5. data' \in [reg' -> Data \union {NoValue}]
    BY <1>3, <1>10, <1>13, <2>1
  <2>6. Base'
    BY <1>3, <1>10, <2>4, <2>5 DEF Base
  <2>7. Fits(reg', ui'.tree, N[m - 1], K) /\ Shows(reg', ui')
    BY <1>1, <1>6, <1>10, StandsStill
  <2>8. ASSUME ~overwrote PROVE data' = D[m - 1]
    <3>1. /\ data = D[m] /\ DataStep(F[m], N[m], D[m - 1], D[m])
          /\ D[m - 1] \in [DOMAIN N[m - 1] -> Data \union {NoValue}]
      BY <1>1, <1>4, <2>8, DataAt
    <3>2. data = [D[m - 1] EXCEPT ![c.path] = F[m].value]
      BY <1>5, <1>6, <3>1 DEF DataStep
    <3>3. [data EXCEPT ![c.path] = D[m - 1][c.path]] = D[m - 1]
      BY <1>6, <3>1, <3>2, WrittenBack
    <3> QED
      BY <1>13, <2>1, <2>8, <3>3
  <2>9. Stands(N, F, K, D, m - 1, n)'
    BY <1>1, <1>4, <1>10, <2>4, <2>7, <2>8, StandsMoved
  <2> QED
    BY <2>6, <2>9 DEF VInv
<1>14. ASSUME ~overwrote
       PROVE  /\ d = F[m].value /\ (c.op = "new" <=> D[m - 1][c.path] = NoValue)
              /\ c.value = IF c.op = "new" THEN F[m].value ELSE D[m - 1][c.path]
  <2>1. /\ data = D[m] /\ DataStep(F[m], N[m], D[m - 1], D[m])
        /\ D[m - 1] \in [DOMAIN N[m - 1] -> Data \union {NoValue}]
    BY <1>1, <1>4, <1>14, DataAt
  <2>2. /\ data = [D[m - 1] EXCEPT ![c.path] = F[m].value]
        /\ c.op = "new" <=> D[m - 1][c.path] = NoValue
    BY <1>5, <1>6, <2>1 DEF DataStep
  <2>3. data[c.path] = F[m].value
    BY <1>6, <2>1, <2>2, WrittenBack
  <2>4. c.value = OldValue(F[m], D[m - 1])
    BY <1>5, <1>14
  <2> QED
    BY <1>6, <1>7, <2>2, <2>3, <2>4 DEF OldValue
<1>15. CASE c.op = "new" /\ ValueWritten(c, o, NoValue, c.value)
  BY <1>13, <1>14, <1>15
<1>16. CASE c.op = "change" /\ ValueWritten(c, o, c.value, d)
  <2>1. c.op # "new" /\ c.value \in Data
    BY <1>6, <1>16, EntryIs DEF Entry
  <2> QED
    BY <1>13, <1>14, <1>16, <2>1
<1> QED
  BY <1>8, <1>12, <1>15, <1>16

LEMMA RedoOfValue ==
  ASSUME VInv, AtRest, redoList # <<>>, IsValueCommand(Last(redoList)),
         RerunValue("redo", ExecuteValue(Last(redoList)))
  PROVE  VInv'
<1>1. PICK N, F, K, D, m, n : Stands(N, F, K, D, m, n)
  BY DEF VInv, AtRest
<1>2. PICK c : c = Last(redoList)
  OBVIOUS
<1>3. /\ n \in Nat /\ m \in Nat /\ PastBoth(N, F, K, n) /\ reg = DOMAIN N[m]
      /\ Base /\ data \in [reg -> Data \union {NoValue}]
  BY <1>1, StandsGood DEF VInv, Base
<1>4. /\ m + 1 \in 1 .. n /\ m + 1 \in 0 .. n
      /\ c \in Redoable(F[m + 1], ~overwrote)
      /\ \A e \in Undoable(F[m + 1], D[m], ~overwrote) :
              /\ Stacked(Append(undoList, e), Front(redoList), Undoables(F, D, n, ~overwrote),
                         Redoables(F, n, ~overwrote), m + 1, n)
              /\ Append(undoList, e) \in Seq(Entry) /\ Front(redoList) \in Seq(Entry)
  BY <1>1, <1>2, <1>3, TopOfRedo
<1>5. PICK j \in 1 .. n : j = m + 1 /\ j - 1 = m
  BY <1>3, <1>4
<1>6. IsValueCommand(F[j]) /\ Alike(c, F[j]) /\ (~overwrote => c.value = F[j].value)
  <2>1. ~IsValueCommand(F[j]) => c = F[j] /\ F[j] \in Command
    BY <1>3, <1>4, <1>5, EntryAt DEF Redoable
  <2>2. \A e \in Command : ~IsValueCommand(e)
    BY DEF Command, IsValueCommand
  <2> QED
    BY <1>2, <1>4, <1>5, <2>1, <2>2 DEF Redoable
<1>7. /\ F[j] \in ValueCommand /\ N[j] = N[m] /\ c \in ValueCommand
      /\ c.op = F[j].op /\ c.path = F[j].path /\ F[j].path \in DOMAIN N[m]
  BY <1>3, <1>5, <1>6, EntryAt DEF Alike
<1>8. PICK d : d = data[c.path]
  OBVIOUS
<1>9. \A o \in ExecuteValue(c) :
              \/ ValueFailed(o)
              \/ c.op = "new" /\ ValueWritten(c, o, c.value, c.value)
              \/ c.op = "change" /\ d # NoValue /\ ValueWritten(c, o, c.value, d)
  BY <1>3, <1>7, <1>8, ValueCases
<1>10. \A o \in ExecuteValue(c) :
         o.ok \in BOOLEAN /\ o.ui \in {ui, UpdateIfSame(reg, ui, NoNode), Stop(ui, "noRoot")}
  BY <1>9 DEF ValueFailed, ValueWritten
<1>11. /\ Rest' /\ ~refreshing' /\ UNCHANGED <<reg, overwrote>> /\ Keeps(reg, ui, ui')
       /\ \E o \in ExecuteValue(c) :
              /\ data' = o.data
              /\ o.ok = FALSE => UNCHANGED <<undoList, redoList>>
              /\ o.ok = TRUE => undoList' = Append(undoList, o.cmd) /\ redoList' = Front(redoList)
  BY <1>2, <1>3, <1>10, RerunValueShape
<1>12. PICK o \in ExecuteValue(c) :
              /\ data' = o.data
              /\ o.ok = FALSE => UNCHANGED <<undoList, redoList>>
              /\ o.ok = TRUE => undoList' = Append(undoList, o.cmd) /\ redoList' = Front(redoList)
  BY <1>11
<1>13. CASE ValueFailed(o)
  <2>1. UNCHANGED <<reg, undoList, redoList, data, overwrote>>
    BY <1>11, <1>12, <1>13 DEF ValueFailed
  <2>2. Stands(N, F, K, D, m, n)'
    BY <1>1, <1>11, <2>1, StandsLooking
  <2>3. Base'
    BY <1>3, <1>11, <2>1 DEF Base
  <2> QED
    BY <2>2, <2>3 DEF VInv
<1>14. ASSUME NEW w, ValueWritten(c, o, c.value, w), ~overwrote => w = OldValue(F[j], D[m])
       PROVE  VInv'
  <2>1. /\ o.ok = TRUE /\ o.cmd \in ValueCommand /\ Alike(o.cmd, c) /\ o.cmd.value = w
        /\ data' = [data EXCEPT ![c.path] = c.value] /\ c.value \in Data
    BY <1>7, <1>12, <1>14, EntryIs DEF ValueWritten, Entry
  <2>2. undoList' = Append(undoList, o.cmd) /\ redoList' = Front(redoList)
    BY <1>12, <2>1
  <2>3. o.cmd \in Undoable(F[j], D[m], ~overwrote)
    <3>1. o.cmd \in Entry /\ Alike(o.cmd, F[j])
      BY <1>7, <2>1 DEF Entry, Alike
    <3> QED
      BY <1>6, <1>14, <2>1, <3>1 DEF Undoable
  <2>4. /\ Stacked(undoList', redoList', Undoables(F, D, n, ~overwrote), Redoables(F, n, ~overwrote), j, n)
        /\ undoList' \in Seq(Entry) /\ redoList' \in Seq(Entry)
    BY <1>4, <1>5, <2>2, <2>3
  <2>5. data' \in [reg' -> Data \union {NoValue}]
    BY <1>3, <1>11, <2>1
  <2>6. Base'
    BY <1>3, <1>11, <2>4, <2>5 DEF Base
  <2>7. Fits(reg', ui'.tree, N[j], K) /\ Shows(reg', ui')
    BY <1>1, <1>7, <1>11, StandsStill
  <2>8. ASSUME ~overwrote PROVE data' = D[j]
    <3>1. data = D[m] /\ DataStep(F[j], N[j], D[j - 1], D[j])
      BY <1>1, <2>8, DataAt
    <3>2. D[j] = [data EXCEPT ![c.path] = F[j].value]
      BY <1>5, <1>6, <1>7, <3>1 DEF DataStep
    <3> QED
      BY <1>6, <2>1, <2>8, <3>2
  <2>9. Stands(N, F, K, D, j, n)'
    BY <1>1, <1>4, <1>5, <1>11, <2>4, <2>7, <2>8, StandsMoved
  <2> QED
    BY <2>6, <2>9 DEF VInv
<1>15. CASE c.op = "new" /\ ValueWritten(c, o, c.value, c.value)
  BY <1>6, <1>7, <1>14, <1>15 DEF OldValue
<1>16. CASE c.op = "change" /\ ValueWritten(c, o, c.value, d)
  <2>1. ~overwrote => d = D[m][F[j].path]
    BY <1>1, <1>7, <1>8 DEF Stands
  <2> QED
    BY <1>7, <1>14, <1>16, <2>1 DEF OldValue
<1> QED
  BY <1>9, <1>13, <1>15, <1>16
-----------------------------------------------------------------------------
(* The invariant holds.                                                    *)

(* A key command given in place, with what it does to the values.          *)
LEMMA GivenBoth ==
  ASSUME Rest, AtRest, NamesItself, NEW x \in Name \ {DeletedKey}, NewKey(x) \/ RenameKeyTo(x)
  PROVE  \E c \in Command :
           AddCommand(c) /\ DataAfter(c) /\ c.path = ui.cur /\ c.name # DeletedKey
<1>1. /\ ui.tree[ui.sel].full = ui.cur /\ ui.cur \in Path /\ ui.sel = ui.cur /\ x # DeletedKey
  BY RestFacts DEF NamesItself
<1>2. PICK c : /\ c.path = ui.cur /\ c.name = x /\ c \in Command
               /\ AddCommand(c) /\ DataAfter(c)
  <2>1. CASE NewKey(x)
    <3>1. PICK c : c = [op |-> "create", path |-> ui.cur, name |-> x]
      OBVIOUS
    <3>2. AddCommand(c)
      BY <1>1, <2>1, <3>1 DEF NewKey, OnNewKey
    <3>3. DataAfter(c)
      BY <2>1, <3>1 DEF NewKey, DataAfter
    <3> QED
      BY <1>1, <3>1, <3>2, <3>3 DEF Command
  <2>2. CASE RenameKeyTo(x)
    <3>1. PICK c : c = [op |-> "rename", path |-> ui.cur, name |-> x]
      OBVIOUS
    <3>2. AddCommand(c) /\ DataAfter(c)
      BY <1>1, <2>2, <3>1 DEF RenameKeyTo, OnEndRename
    <3> QED
      BY <1>1, <3>1, <3>2 DEF Command
  <2> QED
    BY <2>1, <2>2
<1> QED
  BY <1>1, <1>2

(* What the user enters becomes a value command.                           *)
LEMMA Entered ==
  ASSUME Rest, AtRest, NEW d \in Data, NewValue(d) \/ ModifyValue(d)
  PROVE  \E c \in ValueCommand :
           /\ AddValueCommand(c) /\ c.path = ui.tree[ui.cur].full /\ c.value = d
           /\ c.op = "new" => data[Shown] = NoValue
<1>1. ui.tree[ui.cur].full \in Path
  BY RestFacts, NodeFields
<1>2. PICK op \in {"new", "change"} :
        /\ AddValueCommand([op |-> op, path |-> ui.tree[ui.cur].full, value |-> d])
        /\ op = "new" => data[Shown] = NoValue
  BY DEF NewValue, ModifyValue
<1>3. PICK c : c = [op |-> op, path |-> ui.tree[ui.cur].full, value |-> d]
  OBVIOUS
<1>4. c \in ValueCommand /\ c.path = ui.tree[ui.cur].full /\ c.value = d /\ c.op = op
  BY <1>1, <1>3 DEF ValueCommand
<1> QED
  BY <1>2, <1>3, <1>4

LEMMA NextVInv ==
  ASSUME VInv, [NextBoth]_both
  PROVE  VInv'
<1>1. CASE Look /\ UNCHANGED <<data, overwrote>>
  BY <1>1, LookVInv
<1>2. CASE NamesItself /\ \E x \in Name \ {DeletedKey} : NewKey(x) \/ RenameKeyTo(x)
  <2>1. PICK x \in Name \ {DeletedKey} : NewKey(x) \/ RenameKeyTo(x)
    BY <1>2
  <2>2. Rest /\ AtRest
    BY <2>1 DEF VInv, Base, NewKey, RenameKeyTo, OnNewKey, OnEndRename
  <2>3. PICK c \in Command : AddCommand(c) /\ DataAfter(c) /\ c.path = ui.cur /\ c.name # DeletedKey
    BY <1>2, <2>1, <2>2, GivenBoth
  <2> QED
    BY <2>2, <2>3, PushKey
<1>3. CASE \E d \in Data : NewValue(d) \/ ModifyValue(d)
  <2>1. PICK d \in Data : NewValue(d) \/ ModifyValue(d)
    BY <1>3
  <2>2. Rest /\ AtRest
    BY <2>1 DEF VInv, Base, NewValue, ModifyValue
  <2> QED
    BY <2>1, <2>2, Entered, PushValue
<1>4. CASE UndoAny
  <2>1. CASE IsValueCommand(Last(undoList))
    BY <1>4, <2>1, UndoOfValue DEF UndoAny
  <2>2. CASE ~IsValueCommand(Last(undoList))
    BY <1>4, <2>2, UndoKey DEF UndoAny
  <2> QED
    BY <2>1, <2>2
<1>5. CASE RedoAny
  <2>1. CASE IsValueCommand(Last(redoList))
    BY <1>5, <2>1, RedoOfValue DEF RedoAny
  <2>2. CASE ~IsValueCommand(Last(redoList))
    BY <1>5, <2>2, RedoKey DEF RedoAny
  <2> QED
    BY <2>1, <2>2
<1>6. CASE UNCHANGED both
  <2>1. UNCHANGED <<reg, ui, undoList, redoList, allowModify, refreshing, todo, changes, data, overwrote>>
    BY <1>6 DEF both, vars
  <2>2. Base'
    BY <2>1 DEF VInv, Base, Rest
  <2>3. ASSUME Running PROVE (\E N, F, K, D, m, n : Stands(N, F, K, D, m, n))'
    <3>1. PICK N, F, K, D, m, n : Stands(N, F, K, D, m, n)
      BY <2>3 DEF VInv
    <3>2. Fits(reg', ui'.tree, N[m], K) /\ Shows(reg', ui')
      BY <2>1, <3>1 DEF Stands
    <3>3. Stands(N, F, K, D, m, n)'
      BY <2>1, <3>1, <3>2, StandsAgain
    <3> QED
      BY <3>3
  <2> QED
    BY <2>1, <2>2, <2>3 DEF VInv, Running
<1> QED
  BY <1>1, <1>2, <1>3, <1>4, <1>5, <1>6 DEF NextBoth

LEMMA AlwaysVInv == SpecBoth => []VInv
  BY InitVInv, NextVInv, PTL DEF SpecBoth
-----------------------------------------------------------------------------
(* What running a command by its names does to the values A of keys S.     *)

LEMMA RanNext ==
  ASSUME NEW A, NEW B, NEW s, s = Ran(A)
  PROVE  s.data = A /\ [s EXCEPT !.data = B] = Ran(B)
<1>1. ASSUME NEW t, NEW x, x = [data |-> A, ok |-> t]
      PROVE  [x EXCEPT !.data = B] = [data |-> B, ok |-> t]
  <2>1. x \in [data : {A}, ok : {t}]
    BY <1>1
  <2>2. [x EXCEPT !.data = B] \in [data : {B}, ok : {t}]
    BY <2>1
  <2>3. \A r \in [data : {B}, ok : {t}] : r = [data |-> B, ok |-> t]
    OBVIOUS
  <2> QED
    BY <2>2, <2>3
<1> QED
  BY <1>1 DEF Ran

RunWrites(c, undo, A, B) ==
  /\ A[c.path] = NoValue <=> c.op = "new" /\ ~undo
  /\ B = [A EXCEPT ![c.path] = IF c.op = "new" /\ undo THEN NoValue ELSE c.value]

LEMMA RunsValue ==
  ASSUME NEW c \in ValueCommand, NEW undo \in BOOLEAN, NEW S, NEW V, NEW A \in [S -> V], c.path \in S,
         NEW B, RunWrites(c, undo, A, B)
  PROVE  Runs(Ran(A), c, undo) = Ran(B)
<1>1. c.op \in {"new", "change"} /\ IsValueCommand(c)
  BY DEF ValueCommand, IsValueCommand
<1>2. PICK s : s = Ran(A)
  OBVIOUS
<1>3. s.data = A /\ DOMAIN s.data = S
  BY <1>2 DEF Ran
<1>4. PICK v : v = IF c.op = "new" /\ undo THEN NoValue ELSE c.value
  OBVIOUS
<1>5. Runs(s, c, undo) = [s EXCEPT !.data[c.path] = v]
  BY <1>1, <1>3, <1>4 DEF Runs, RunWrites
<1>6. B = [A EXCEPT ![c.path] = v]
  BY <1>4 DEF RunWrites
<1>7. [s EXCEPT !.data[c.path] = v] = [s EXCEPT !.data = B]
  BY <1>3, <1>6
<1> QED
  BY <1>2, <1>5, <1>7, RanNext

RunTo(c, undo, S, T) ==
  \/ c.op = "rename" /\ c.path \in S /\ Target(c) \notin S /\ T = Moved(c.path, Target(c), S)
  \/ c.op = "create" /\ undo /\ Target(c) \in S /\ SubKeys(S, Target(c)) = {} /\ T = S \ {Target(c)}
  \/ c.op = "create" /\ ~undo /\ c.path \in S /\ Target(c) \notin S /\ T = S \union {Target(c)}

LEMMA RunsKey ==
  ASSUME NEW c \in Command, NEW undo \in BOOLEAN, NEW S, NEW V, NEW A \in [S -> V],
         NEW T, RunTo(c, undo, S, T)
  PROVE  Runs(Ran(A), c, undo) = Ran(DataTo(c, A, T))
<1>1. PICK q : q = Target(c)
  OBVIOUS
<1>2. PICK s : s = Ran(A)
  OBVIOUS
<1>3. s.data = A /\ DOMAIN s.data = S
  BY <1>2 DEF Ran
<1>4. CASE c.op = "rename"
  <2>1. c.path \in S /\ q \notin S /\ T = {Rebase(c.path, q, y) : y \in S}
    BY <1>1, <1>4 DEF RunTo, Moved
  <2>2. q = Append(Front(c.path), c.name) /\ ~IsValueCommand(c)
    BY <1>1, <1>4 DEF Target, IsValueCommand
  <2>3. Runs(s, c, undo) = [s EXCEPT !.data = DataMoved(c.path, q, s.data)]
    BY <1>3, <1>4, <2>1, <2>2 DEF Runs
  <2>4. DataMoved(c.path, q, A) = [x \in T |-> A[Rebase(q, c.path, x)]]
    BY <2>1 DEF DataMoved
  <2>5. DataTo(c, A, T) = [x \in T |-> A[Rebase(q, c.path, x)]]
    BY <1>1, <1>4 DEF DataTo
  <2> QED
    BY <1>2, <1>3, <2>3, <2>4, <2>5, RanNext
<1>5. CASE c.op = "create"
  <2>1. q = Append(c.path, c.name) /\ c.op # "rename" /\ ~IsValueCommand(c)
    BY <1>1, <1>5 DEF Target, IsValueCommand
  <2>2. DataTo(c, A, T) = [x \in T |-> IF x \in S THEN A[x] ELSE NoValue]
    BY <1>5 DEF DataTo
  <2>3. [s EXCEPT !.data = DataTo(c, A, T)] = Ran(DataTo(c, A, T))
    BY <1>2, RanNext
  <2>4. CASE undo
    <3>1. q \in S /\ SubKeys(S, q) = {} /\ T = S \ {q}
      BY <1>1, <1>5, <2>4 DEF RunTo
    <3>2. Runs(s, c, undo) = [s EXCEPT !.data = [x \in DOMAIN @ \ {q} |-> s.data[x]]]
      BY <1>3, <1>5, <2>1, <2>4, <3>1 DEF Runs
    <3>3. Runs(s, c, undo) = [s EXCEPT !.data = [x \in T |-> A[x]]]
      BY <1>3, <3>1, <3>2
    <3>4. DataTo(c, A, T) = [x \in T |-> A[x]]
      BY <2>2, <3>1
    <3> QED
      BY <1>2, <2>3, <3>3, <3>4
  <2>5. CASE ~undo
    <3>1. c.path \in S /\ q \notin S /\ T = S \union {q}
      BY <1>1, <1>5, <2>5 DEF RunTo
    <3>2. Runs(s, c, undo) =
            [s EXCEPT !.data = [x \in DOMAIN @ \union {q} |-> IF x = q THEN NoValue ELSE s.data[x]]]
      BY <1>3, <1>5, <2>1, <2>5, <3>1 DEF Runs
    <3>3. Runs(s, c, undo) = [s EXCEPT !.data = [x \in T |-> IF x = q THEN NoValue ELSE A[x]]]
      BY <1>3, <3>1, <3>2
    <3>4. DataTo(c, A, T) = [x \in T |-> IF x = q THEN NoValue ELSE A[x]]
      BY <2>2, <3>1
    <3> QED
      BY <1>2, <2>3, <3>3, <3>4
  <2> QED
    BY <2>4, <2>5
<1> QED
  BY <1>4, <1>5, TargetIs

(* A key command of the past can be run forth and back.                    *)
LEMMA StepRuns ==
  ASSUME NEW c, NEW K, NEW i, NEW M, NEW L, StepAt(c, K, i, M, L), World(M), World(L)
  PROVE  /\ RunTo(c, FALSE, DOMAIN M, DOMAIN L)
         /\ RunTo(Done(c), TRUE, DOMAIN L, DOMAIN M)
<1>1. c \in Command
  BY DEF StepAt
<1>2. CASE c.op = "create"
  <2>1. PICK q : q = Target(c)
    OBVIOUS
  <2>2. Adds(c.path, c.name, q, i, M, L) /\ Done(c) = c
    BY <1>1, <1>2, <2>1, TargetIs DEF StepAt
  <2>3. /\ c.path \in DOMAIN M /\ q \notin DOMAIN M /\ q \in DOMAIN L
        /\ DOMAIN L = DOMAIN M \union {q} /\ DOMAIN M = DOMAIN L \ {q}
    BY <2>2 DEF Adds
  <2>4. SubKeys(DOMAIN L, q) = {}
    BY <2>2, NewKeyIsBare
  <2> QED
    BY <1>2, <2>1, <2>2, <2>3, <2>4 DEF RunTo
<1>3. CASE c.op = "rename"
  <2>1. Moves(c.path, Target(c), M, L) /\ c.path # <<>>
    BY <1>3 DEF StepAt, Moves, Sibling
  <2>2. Moves(Target(c), c.path, L, M)
    BY <2>1, MovesWorld
  <2>3. Done(c).op = "rename" /\ Done(c).path = Target(c) /\ Target(Done(c)) = c.path
    BY <1>1, <1>3, <2>1, DoneRename
  <2> QED
    BY <1>3, <2>1, <2>2, <2>3 DEF Moves, RunTo
<1> QED
  BY <1>1, <1>2, <1>3, TargetIs

(* What is on the stacks for a command of the past runs to the values      *)
(* before it and after it.                                                 *)
UndoableNow(f, A) == Undoable(f, A, ~overwrote)
RedoableNow(f)    == Redoable(f, ~overwrote)

Reverts(c, B, A) == Runs(Ran(B), c, TRUE) = Ran(A)
Repeats(c, A, B) == Runs(Ran(A), c, FALSE) = Ran(B)

LEMMA EntryRuns ==
  ASSUME NEW N, NEW F, NEW K, NEW D, NEW m, NEW n, Stands(N, F, K, D, m, n), ~overwrote,
         NEW i \in 1 .. n
  PROVE  /\ \A c \in UndoableNow(F[i], D[i - 1]) : Reverts(c, D[i], D[i - 1])
         /\ \A c \in RedoableNow(F[i]) : Repeats(c, D[i - 1], D[i])
<1>1. PICK f, A, B, M, L, V :
        f = F[i] /\ A = D[i - 1] /\ B = D[i] /\ M = N[i - 1] /\ L = N[i] /\ V = Data \union {NoValue}
  OBVIOUS
<1>2. /\ DataStep(f, L, A, B) /\ A \in [DOMAIN M -> V] /\ B \in [DOMAIN L -> V]
  BY <1>1, DataAt
<1>3. PastBoth(N, F, K, n)
  BY StandsGood
<1>4. PICK back \in BOOLEAN : back = TRUE
  OBVIOUS
<1>5. PICK forth \in BOOLEAN : forth = FALSE
  OBVIOUS
<1>6. CASE IsValueCommand(f)
  <2>1. PICK p : p = f.path
    OBVIOUS
  <2>2. f \in ValueCommand /\ L = M /\ p \in DOMAIN M
    BY <1>1, <1>3, <1>6, <2>1, EntryAt
  <2>3. (A[p] = NoValue <=> f.op = "new") /\ B = [A EXCEPT ![p] = f.value] /\ f.value \in Data
    BY <1>2, <1>6, <2>1, <2>2, EntryIs DEF DataStep, Entry
  <2>4. B[p] # NoValue /\ [B EXCEPT ![p] = A[p]] = A
    BY <1>2, <2>2, <2>3, WrittenBack, DataAssumption
  <2>5. PICK S : S = DOMAIN M /\ p \in S /\ A \in [S -> V] /\ B \in [S -> V]
    BY <1>2, <2>2
  <2>6. ASSUME NEW c \in UndoableNow(f, A)
        PROVE  Reverts(c, B, A)
    <3>1. c \in ValueCommand /\ c.op = f.op /\ c.path = p /\ c.value = OldValue(f, A)
      BY <1>6, <2>1 DEF UndoableNow, Undoable, Alike
    <3>2. A[p] = IF c.op = "new" THEN NoValue ELSE c.value
      BY <2>1, <2>3, <3>1 DEF OldValue
    <3>3. RunWrites(c, back, B, A)
      BY <1>4, <2>4, <3>1, <3>2 DEF RunWrites
    <3>4. c \in ValueCommand /\ B \in [S -> V] /\ c.path \in S
      BY <2>5, <3>1
    <3>5. Runs(Ran(B), c, back) = Ran(A)
      BY <3>3, <3>4, RunsValue
    <3> QED
      BY <1>4, <3>5 DEF Reverts
  <2>7. ASSUME NEW c \in RedoableNow(f)
        PROVE  Repeats(c, A, B)
    <3>1. c \in ValueCommand /\ c.op = f.op /\ c.path = p /\ c.value = f.value
      BY <1>6, <2>1 DEF RedoableNow, Redoable, Alike
    <3>2. RunWrites(c, forth, A, B)
      BY <1>5, <2>3, <3>1 DEF RunWrites
    <3>3. c \in ValueCommand /\ A \in [S -> V] /\ c.path \in S
      BY <2>5, <3>1
    <3>4. Runs(Ran(A), c, forth) = Ran(B)
      BY <3>2, <3>3, RunsValue
    <3> QED
      BY <1>5, <3>4 DEF Repeats
  <2> QED
    BY <1>1, <2>6, <2>7
<1>7. CASE ~IsValueCommand(f)
  <2>1. /\ f \in Command /\ Done(f) \in Command /\ World(M) /\ World(L)
        /\ StepAt(f, K, i, M, L)
    BY <1>1, <1>3, <1>7, EntryAt
  <2>2. RunTo(f, forth, DOMAIN M, DOMAIN L) /\ RunTo(Done(f), back, DOMAIN L, DOMAIN M)
    BY <1>4, <1>5, <2>1, StepRuns
  <2>3. B = DataTo(f, A, DOMAIN L)
    BY <1>2, <1>7 DEF DataStep
  <2>4. A = DataTo(Done(f), B, DOMAIN M)
    <3>1. NoValue \in V
      BY <1>1
    <3> QED
      BY <1>2, <2>1, <2>3, <3>1, DataBack
  <2>5. Runs(Ran(A), f, forth) = Ran(B)
    <3>1. PICK S, T : S = DOMAIN M /\ T = DOMAIN L
      OBVIOUS
    <3>2. A \in [S -> V] /\ RunTo(f, forth, S, T)
      BY <1>2, <2>2, <3>1
    <3>3. Runs(Ran(A), f, forth) = Ran(DataTo(f, A, T))
      BY <2>1, <3>2, RunsKey
    <3> QED
      BY <2>3, <3>1, <3>3
  <2>6. Runs(Ran(B), Done(f), back) = Ran(A)
    BY <1>2, <2>1, <2>2, <2>4, RunsKey
  <2>7. Repeats(f, A, B) /\ Reverts(Done(f), B, A)
    BY <1>4, <1>5, <2>5, <2>6 DEF Repeats, Reverts
  <2> QED
    BY <1>1, <1>7, <2>7 DEF UndoableNow, RedoableNow, Undoable, Redoable
<1> QED
  BY <1>6, <1>7

-----------------------------------------------------------------------------
(* What the pasts say of the editor.                                       *)

LEMMA VInvStands ==
  ASSUME VInv, Running
  PROVE  \E N, F, K, D, m, n : /\ Stands(N, F, K, D, m, n)
                               /\ n \in Nat /\ m \in Nat /\ m \in 0 .. n
                               /\ undoList \in Seq(Entry) /\ redoList \in Seq(Entry)
<1>1. PICK N, F, K, D, m, n : Stands(N, F, K, D, m, n)
  BY DEF VInv
<1> QED
  BY <1>1, StandsGood DEF VInv, Base

(* Keys and values keep in step: the registry has a value, or none, for    *)
(* just the keys there are, and both stacks hold commands of the two       *)
(* kinds, whatever is created, renamed, written, undone and redone.        *)
THEOREM BothTypesOK == SpecBoth => []TypesOK
<1>1. VInv => TypesOK
  <2> SUFFICES ASSUME VInv PROVE TypesOK
    OBVIOUS
  <2>1. Range(undoList) \subseteq Entry /\ Range(redoList) \subseteq Entry
    BY DEF VInv, Base, Range
  <2>2. reg \in SUBSET Path /\ IsUI(ui)
    BY DEF VInv, Base, Rest, Sound
  <2> QED
    BY <2>1, <2>2 DEF VInv, Base, TypesOK, Entry
<1> QED
  BY <1>1, AlwaysVInv, PTL

(* Undo can be pressed until the stack is empty, and every key has its     *)
(* first name again and every value its first data, whatever was created,  *)
(* renamed, written, taken back and done again before: unless New Value    *)
(* has written over a value, which DeleteValue, its undo, cannot restore.  *)
THEOREM BothUndoReachesStart == SpecBoth => []UndoReachesStart
<1>1. VInv => UndoReachesStart
  <2> SUFFICES ASSUME VInv, Running, ~overwrote
               PROVE  RunsAll(undoList, TRUE) = Ran(InitialData)
    BY DEF UndoReachesStart, Ran
  <2>1. PICK N, F, K, D, m, n :
      /\ Stands(N, F, K, D, m, n) /\ n \in Nat /\ m \in Nat /\ m \in 0 .. n
      /\ undoList \in Seq(Entry)
    BY VInvStands
  <2>2. /\ Len(undoList) = m /\ \A i \in 1 .. m : undoList[i] \in Undoables(F, D, n, ~overwrote)[i]
        /\ data = D[m] /\ D[0] = InitialData
    BY <2>1 DEF Stands, Stacked, DataPast
  <2>3. PICK w : w = [k \in 0 .. m |-> Ran(D[m - k])]
    OBVIOUS
  <2>4. w[0] = Ran(data) /\ w[m] = Ran(InitialData)
    BY <2>1, <2>2, <2>3
  <2>5. ASSUME NEW i \in 1 .. m PROVE w[i] = StackStep(undoList, TRUE, i, w[i - 1])
    <3>1. PICK j \in 1 .. n : /\ j = m - i + 1 /\ j \in 1 .. m /\ j - 1 = m - i /\ j = m - (i - 1)
                             /\ j = Len(undoList) - i + 1
      BY <2>1, <2>2
    <3>2. w[i] = Ran(D[j - 1]) /\ w[i - 1] = Ran(D[j])
      BY <2>1, <2>3, <3>1
    <3>3. undoList[j] \in UndoableNow(F[j], D[j - 1])
      BY <2>2, <3>1 DEF Undoables, UndoableNow
    <3>4. Reverts(undoList[j], D[j], D[j - 1])
      <4>1. Stands(N, F, K, D, m, n) /\ ~overwrote /\ j \in 1 .. n
        BY <2>1, <3>1
      <4>2. \A c \in UndoableNow(F[j], D[j - 1]) : Reverts(c, D[j], D[j - 1])
        BY ONLY <4>1, EntryRuns, ZenonT(30)
      <4> QED
        BY <3>3, <4>2
    <3>5. Ran(D[j - 1]) = StackStep(undoList, TRUE, i, Ran(D[j]))
      <4>1. Ran(D[j]).ok = TRUE
        BY DEF Ran
      <4>2. StackStep(undoList, TRUE, i, Ran(D[j])) = Runs(Ran(D[j]), undoList[j], TRUE)
        BY <3>1, <4>1 DEF StackStep, RunNext
      <4> QED
        BY <3>4, <4>2 DEF Reverts
    <3> QED
      BY <3>2, <3>5
  <2>6. Trace(w, undoList, TRUE)
    BY <2>2, <2>4, <2>5 DEF Trace
  <2> QED
    BY <2>1, <2>2, <2>4, <2>6, TraceEnds
<1> QED
  BY <1>1, AlwaysVInv, PTL

(* And Redo until everything that was undone is done again.                *)
THEOREM BothRedoReachesEnd == SpecBoth => []RedoReachesEnd
<1>1. VInv => RedoReachesEnd
  <2> SUFFICES ASSUME VInv, Running, ~overwrote
               PROVE  RunsAll(redoList, FALSE).ok
    BY DEF RedoReachesEnd
  <2>1. PICK N, F, K, D, m, n :
      /\ Stands(N, F, K, D, m, n) /\ n \in Nat /\ m \in Nat /\ m \in 0 .. n
      /\ redoList \in Seq(Entry)
    BY VInvStands
  <2>2. PICK l \in Nat : l = n - m
    BY <2>1
  <2>3. /\ Len(redoList) = l /\ \A j \in 1 .. l : redoList[j] \in Redoables(F, n, ~overwrote)[n + 1 - j]
        /\ data = D[m]
    BY <2>1, <2>2 DEF Stands, Stacked
  <2>4. PICK w : w = [k \in 0 .. l |-> Ran(D[m + k])]
    OBVIOUS
  <2>5. w[0] = Ran(data) /\ w[l] = Ran(D[n])
    BY <2>1, <2>2, <2>3, <2>4
  <2>6. ASSUME NEW i \in 1 .. l PROVE w[i] = StackStep(redoList, FALSE, i, w[i - 1])
    <3>1. PICK j \in 1 .. n, g \in 1 .. l :
        /\ j = m + i /\ j - 1 = m + (i - 1) /\ g = l - i + 1 /\ j = n + 1 - g
        /\ g = Len(redoList) - i + 1
      BY <2>1, <2>2, <2>3
    <3>2. w[i] = Ran(D[j]) /\ w[i - 1] = Ran(D[j - 1])
      BY <2>1, <2>4, <3>1
    <3>3. redoList[g] \in RedoableNow(F[j])
      BY <2>3, <3>1 DEF Redoables, RedoableNow
    <3>4. Repeats(redoList[g], D[j - 1], D[j])
      <4>1. Stands(N, F, K, D, m, n) /\ ~overwrote /\ j \in 1 .. n
        BY <2>1, <3>1
      <4>2. \A c \in RedoableNow(F[j]) : Repeats(c, D[j - 1], D[j])
        BY ONLY <4>1, EntryRuns, ZenonT(30)
      <4> QED
        BY <3>3, <4>2
    <3>5. Ran(D[j]) = StackStep(redoList, FALSE, i, Ran(D[j - 1]))
      <4>1. Ran(D[j - 1]).ok = TRUE
        BY DEF Ran
      <4>2. StackStep(redoList, FALSE, i, Ran(D[j - 1])) = Runs(Ran(D[j - 1]), redoList[g], FALSE)
        BY <3>1, <4>1 DEF StackStep, RunNext
      <4> QED
        BY <3>4, <4>2 DEF Repeats
    <3> QED
      BY <3>2, <3>5
  <2>7. Trace(w, redoList, FALSE)
    BY <2>3, <2>5, <2>6 DEF Trace
  <2>8. RunsAll(redoList, FALSE) = Ran(D[n])
    BY <2>1, <2>3, <2>5, <2>7, TraceEnds
  <2>9. Ran(D[n]).ok = TRUE
    BY DEF Ran
  <2> QED
    BY <2>8, <2>9
<1> QED
  BY <1>1, AlwaysVInv, PTL
(* While no rename is in effect every node's _full is its place.           *)
LEMMA FullIsPlace ==
  ASSUME VInv, AtRest, ~InEffect
  PROVE  ui.tree[ui.cur].full = ui.cur /\ Shown = ui.cur
<1>1. PICK N, F, K, D, m, n :
    /\ Stands(N, F, K, D, m, n) /\ n \in Nat /\ m \in Nat /\ m \in 0 .. n /\ undoList \in Seq(Entry)
  BY VInvStands DEF AtRest
<1>2. /\ PastBoth(N, F, K, n) /\ WorldBoth(N[m], F, K, m)
      /\ Fits(reg, ui.tree, N[m], K) /\ ui.cur \in DOMAIN ui.tree
  BY <1>1, StandsGood, RestFacts DEF Stands, VInv, Base
<1>3. ASSUME NEW j \in 1 .. m PROVE F[j].op # "rename"
  <2>1. PICK i \in 1 .. n : i = j
    BY <1>1
  <2>2. j \in DOMAIN undoList /\ undoList[j] \in UndoableNow(F[j], D[j - 1])
    <3>1. Len(undoList) = m /\ undoList[j] \in Undoables(F, D, n, ~overwrote)[j]
      BY <1>1 DEF Stands, Stacked
    <3>2. j \in 1 .. n
      BY <2>1
    <3>3. Undoables(F, D, n, ~overwrote)[j] = UndoableNow(F[j], D[j - 1])
      BY <3>2 DEF Undoables, UndoableNow
    <3>4. DOMAIN undoList = 1 .. Len(undoList)
      BY <1>1
    <3> QED
      BY <3>1, <3>3, <3>4
  <2>3. undoList[j].op # "rename"
    BY <2>2 DEF InEffect
  <2>4. CASE IsValueCommand(F[j])
    BY <2>4 DEF IsValueCommand
  <2>5. CASE ~IsValueCommand(F[j])
    <3>1. F[j] \in Command /\ StepAt(F[j], K, j, N[j - 1], N[j])
      BY <1>2, <2>1, <2>5, EntryAt
    <3>2. undoList[j] = Done(F[j])
      BY <2>2, <2>5 DEF UndoableNow, Undoable
    <3>3. F[j].op = "rename" => F[j].path # <<>>
      BY <3>1 DEF StepAt, Moves, Sibling
    <3> QED
      BY <2>3, <3>1, <3>2, <3>3, DoneRename
  <2> QED
    BY <2>4, <2>5
<1>4. TrueNames(N[m])
  BY <1>2, <1>3 DEF WorldBoth
<1> QED
  BY <1>2, <1>4 DEF Fits, AtHome, TrueNames, Shown

(* What the user enters goes to the key that the list shows and to no      *)
(* other, as long as no rename is in effect: the value is read through the *)
(* node's handle and written under its _full, which HandleNewIntValue and  *)
(* OnModifyValue pass on.                                                  *)
THEOREM BothEntryGoesToShownKey == SpecBoth => EntryGoesToShownKey
<1> DEFINE Goes == \A d \in Data : ~InEffect /\ (NewValue(d) \/ ModifyValue(d)) /\ data' # data =>
                     data' = [data EXCEPT ![Shown] = d]
<1>1. ASSUME VInv PROVE Goes
  <2> SUFFICES ASSUME NEW d \in Data, ~InEffect, NewValue(d) \/ ModifyValue(d), data' # data
               PROVE  data' = [data EXCEPT ![Shown] = d]
    OBVIOUS
  <2>1. Rest /\ AtRest /\ data \in [reg -> Data \union {NoValue}]
    BY <1>1 DEF VInv, Base, NewValue, ModifyValue
  <2>2. PICK c \in ValueCommand :
          AddValueCommand(c) /\ c.path = ui.tree[ui.cur].full /\ c.value = d
    BY <2>1, Entered
  <2>3. c.path = Shown
    BY <1>1, <2>1, <2>2, FullIsPlace
  <2>4. PICK o \in ExecuteValue(c) : data' = o.data
    BY <2>2 DEF AddValueCommand
  <2>5. ValueFailed(o) \/ ValueWritten(c, o, c.value, o.cmd.value)
    BY <2>1, <2>4, ValueCases DEF ValueWritten
  <2> QED
    BY <2>2, <2>3, <2>4, <2>5 DEF ValueFailed, ValueWritten
<1>2. VInv /\ [NextBoth]_both => [Goes]_both
  BY <1>1
<1>3. SpecBoth => [][Goes]_both
  BY <1>2, AlwaysVInv, PTL DEF SpecBoth
<1> QED
  BY <1>3 DEF EntryGoesToShownKey
=============================================================================
