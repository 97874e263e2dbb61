------------------------- MODULE IntValueDlgProofs --------------------------
(***************************************************************************)
(* Proofs about IntText.tla and IntValueDlg.tla, for every width of the    *)
(* integers: a number is read back from its text in each of the three      *)
(* radices, and the dialog keeps the number it was opened on.              *)
(***************************************************************************)
EXTENDS IntValueDlg, SequenceTheorems, WellFoundedInduction, TLAPS

-----------------------------------------------------------------------------
(* Numbers.                                                                *)

(* A set of numbers has a least one: what the inductions below rest on.    *)
LEMMA LeastNumber ==
  ASSUME NEW T \in SUBSET Nat, T # {}
  PROVE  \E n \in T : \A k \in T : n <= k
<1> DEFINE R == {ss \in Nat \X Nat : ss[1] < ss[2]}
<1>1. IsWellFoundedOn(R, Nat)
  BY NatLessThanWellFounded DEF OpToRel
<1>2. ASSUME NEW x \in Nat, NEW y \in Nat, y < x PROVE <<y, x>> \in R
  BY <1>2
<1> HIDE DEF R
<1>3. PICK n \in T : \A k \in T : <<k, n>> \notin R
  BY <1>1, WFMin
<1>4. ASSUME NEW k \in T PROVE n <= k
  <2>1. n \in Nat /\ k \in Nat /\ ~(k < n)
    BY <1>2, <1>3
  <2> QED
    BY <2>1
<1> QED
  BY <1>4

LEMMA Widths ==
  MaxInt \in Nat /\ 2 ^ DwordBits \in Nat \ {0} /\ 2 ^ DwordBits - 1 <= MaxInt
<1>1. PICK b : b = 2 ^ Bits
  OBVIOUS
<1>2. PICK d : d = 2 ^ DwordBits
  OBVIOUS
<1>3. b \in Nat /\ d \in 1 .. b
  BY <1>1, <1>2, BitsAssumption
<1>4. MaxInt = b - 1
  BY <1>1 DEF MaxInt
<1>5. b - 1 \in Nat /\ d \in Nat \ {0} /\ d - 1 <= b - 1
  BY <1>3
<1> QED
  BY <1>2, <1>4, <1>5

LEMMA DwordType ==
  ASSUME NEW v \in Nat
  PROVE  ToDword(v) \in 0 .. MaxInt
<1>1. PICK d : d = 2 ^ DwordBits
  OBVIOUS
<1>2. d \in Nat \ {0} /\ d - 1 <= MaxInt /\ MaxInt \in Nat
  BY <1>1, Widths
<1>3. v % d \in 0 .. d - 1
  BY <1>2
<1>4. ToDword(v) = v % d
  BY <1>1 DEF ToDword
<1> QED
  BY <1>2, <1>3, <1>4

LEMMA WithDigitIs ==
  ASSUME NEW v \in Nat, NEW radix \in Nat, NEW d \in Nat
  PROVE  /\ WithDigit(v, radix, d) \in 0 .. MaxInt
         /\ v * radix + d <= MaxInt => WithDigit(v, radix, d) = v * radix + d
<1>1. PICK w : w = v * radix + d
  OBVIOUS
<1>2. w \in Nat /\ MaxInt \in Nat
  BY <1>1, Widths
<1>3. PICK x \in {w, MaxInt} : \A y \in {w, MaxInt} : x <= y
  BY <1>2
<1>4. /\ Min({w, MaxInt}) \in {w, MaxInt}
      /\ \A y \in {w, MaxInt} : Min({w, MaxInt}) <= y
  BY <1>3 DEF Min
<1> QED
  BY <1>1, <1>2, <1>4 DEF WithDigit

LEMMA LargestPosition ==
  ASSUME NEW n \in Nat, NEW S \in SUBSET (0 .. n), S # {}
  PROVE  Max(S) \in S /\ (n \in S => Max(S) = n)
<1> DEFINE T == {n - k : k \in S}
<1>1. T \in SUBSET Nat /\ T # {}
  <2>1. ASSUME NEW k \in S PROVE n - k \in Nat
    <3>1. k \in 0 .. n
      OBVIOUS
    <3> QED
      BY <3>1
  <2> QED
    BY <2>1
<1>2. PICK m \in T : \A j \in T : m <= j
  BY <1>1, LeastNumber
<1>3. PICK x \in S : m = n - x
  OBVIOUS
<1>4. \A y \in S : x >= y
  <2> SUFFICES ASSUME NEW y \in S PROVE x >= y
    OBVIOUS
  <2>1. n - y \in T
    OBVIOUS
  <2>2. m <= n - y
    BY <1>2, <2>1
  <2> QED
    BY <1>3, <2>2
<1>5. Max(S) \in S /\ \A y \in S : Max(S) >= y
  BY <1>4 DEF Max
<1>6. PICK z : z = Max(S)
  OBVIOUS
<1>7. z \in 0 .. n
  BY <1>5, <1>6
<1>8. ASSUME n \in S PROVE z = n
  <2>1. z >= n
    BY <1>5, <1>6, <1>8
  <2> QED
    BY <1>7, <2>1
<1> QED
  BY <1>5, <1>6, <1>8

-----------------------------------------------------------------------------
(* Reading a text.                                                         *)

LEMMA ReadingIs ==
  ASSUME NEW text \in Seq(Nat), NEW radix \in Nat
  PROVE  LET R == Reading(text, radix)
         IN  /\ R[0] = 0
             /\ \A k \in 1 .. Len(text) : R[k] = WithDigit(R[k - 1], radix, text[k])
<1> DEFINE Upto(m, f) == f = [k \in 0 .. m |->
                                IF k = 0 THEN 0 ELSE WithDigit(f[k - 1], radix, text[k])]
           Steps(m, f) == /\ f = [k \in 0 .. m |-> f[k]] /\ f[0] = 0
                          /\ \A k \in 1 .. m : f[k] = WithDigit(f[k - 1], radix, text[k])
           T == {m \in Nat : ~\E f : Steps(m, f)}
<1>1. T = {}
  <2> SUFFICES ASSUME T # {} PROVE FALSE
    OBVIOUS
  <2>1. T \in SUBSET Nat
    OBVIOUS
  <2>2. PICK m \in T : \A k \in T : m <= k
    BY <2>1, LeastNumber
  <2>3. m # 0
    <3>1. PICK f : f = [k \in 0 .. 0 |-> 0]
      OBVIOUS
    <3>2. Steps(0, f)
      BY <3>1
    <3> QED
      BY <3>2
  <2>4. m - 1 \in Nat /\ m - 1 \notin T
    <3> HIDE DEF T
    <3>1. m \in Nat /\ m - 1 \in Nat /\ ~(m <= m - 1)
      BY <2>1, <2>2, <2>3
    <3> QED
      BY <2>2, <3>1
  <2>5. PICK g : Steps(m - 1, g)
    BY <2>4
  <2>6. PICK f : f = [k \in 0 .. m |-> IF k = m THEN WithDigit(g[m - 1], radix, text[m]) ELSE g[k]]
    OBVIOUS
  <2>7. f[m] = WithDigit(g[m - 1], radix, text[m]) /\ \A k \in 0 .. m - 1 : f[k] = g[k]
    BY <2>4, <2>6
  <2>8. f = [k \in 0 .. m |-> f[k]]
    BY <2>6
  <2>9. f[0] = 0
    BY <2>4, <2>5, <2>7
  <2>10. ASSUME NEW k \in 1 .. m PROVE f[k] = WithDigit(f[k - 1], radix, text[k])
    <3>1. k = m \/ (k \in 1 .. m - 1 /\ k \in 0 .. m - 1)
      BY <2>4
    <3>2. k - 1 \in 0 .. m - 1
      BY <2>4
    <3>3. f[k - 1] = g[k - 1]
      BY <2>7, <3>2
    <3>4. CASE k = m
      BY <2>7, <3>3, <3>4
    <3>5. CASE k \in 1 .. m - 1
      <4>1. f[k] = g[k] /\ g[k] = WithDigit(g[k - 1], radix, text[k])
        BY <2>5, <2>7, <3>1, <3>5
      <4> QED
        BY <3>3, <4>1
    <3> QED
      BY <3>1, <3>4, <3>5
  <2>11. Steps(m, f)
    BY <2>8, <2>9, <2>10
  <2> QED
    BY <2>11
<1>2. Len(text) \in Nat
  BY LenProperties
<1>3. PICK f : Steps(Len(text), f)
  BY <1>1, <1>2
<1>4. Upto(Len(text), f)
  <2>1. PICK g : g = [k \in 0 .. Len(text) |->
                        IF k = 0 THEN 0 ELSE WithDigit(f[k - 1], radix, text[k])]
    OBVIOUS
  <2>2. ASSUME NEW k \in 0 .. Len(text) PROVE g[k] = f[k]
    <3>1. k = 0 \/ k \in 1 .. Len(text)
      BY <1>2
    <3>2. g[k] = IF k = 0 THEN 0 ELSE WithDigit(f[k - 1], radix, text[k])
      BY <2>1
    <3> QED
      BY <1>3, <3>1, <3>2
  <2>3. g = [k \in 0 .. Len(text) |-> g[k]] /\ f = [k \in 0 .. Len(text) |-> f[k]]
    BY <1>3, <2>1
  <2>4. f = g
    BY <2>2, <2>3
  <2> QED
    BY <2>1, <2>4
<1>5. PICK R : R = Reading(text, radix)
  OBVIOUS
<1>6. R = CHOOSE h : Upto(Len(text), h)
  BY <1>5 DEF Reading
<1> HIDE DEF Upto
<1>7. Upto(Len(text), R)
  BY <1>4, <1>6
<1>8. \A k \in 0 .. Len(text) : R[k] = IF k = 0 THEN 0 ELSE WithDigit(R[k - 1], radix, text[k])
  <2>1. PICK g : g = [k \in 0 .. Len(text) |->
                        IF k = 0 THEN 0 ELSE WithDigit(R[k - 1], radix, text[k])]
    OBVIOUS
  <2>2. R = g
    BY <1>7, <2>1 DEF Upto
  <2>3. \A k \in 0 .. Len(text) : g[k] = IF k = 0 THEN 0 ELSE WithDigit(R[k - 1], radix, text[k])
    BY <2>1
  <2> QED
    BY <2>2, <2>3
<1>9. 0 \in 0 .. Len(text) /\ \A k \in 1 .. Len(text) : k \in 0 .. Len(text) /\ k # 0
  BY <1>2
<1>10. R[0] = 0 /\ \A k \in 1 .. Len(text) : R[k] = WithDigit(R[k - 1], radix, text[k])
  BY <1>8, <1>9
<1> QED
  BY <1>5, <1>10

LEMMA ReadingType ==
  ASSUME NEW text \in Seq(Nat), NEW radix \in Nat, NEW k \in 0 .. Len(text)
  PROVE  Reading(text, radix)[k] \in 0 .. MaxInt
<1> DEFINE T == {m \in 0 .. Len(text) : Reading(text, radix)[m] \notin 0 .. MaxInt}
<1>1. Len(text) \in Nat /\ \A m \in 1 .. Len(text) : text[m] \in Nat
  BY LenProperties, ElementOfSeq
<1>2. ASSUME T # {} PROVE FALSE
  <2>1. T \in SUBSET Nat
    BY <1>1
  <2>2. PICK m \in T : \A j \in T : m <= j
    BY <1>2, <2>1, LeastNumber
  <2>3. Reading(text, radix)[0] \in 0 .. MaxInt
    BY ReadingIs, Widths
  <2>4. m \in 1 .. Len(text) /\ m - 1 \in 0 .. Len(text) /\ m - 1 \notin T
    BY <1>1, <2>2, <2>3
  <2>5. PICK v : v = Reading(text, radix)[m - 1]
    OBVIOUS
  <2>6. v \in Nat /\ text[m] \in Nat
    BY <1>1, <2>4, <2>5
  <2>7. Reading(text, radix)[m] = WithDigit(v, radix, text[m])
    BY <2>4, <2>5, ReadingIs
  <2> QED
    <3>1. m \in T
      OBVIOUS
    <3>2. Reading(text, radix)[m] \notin 0 .. MaxInt
      BY <3>1
    <3> HIDE DEF T
    <3> QED
      BY <2>6, <2>7, <3>2, WithDigitIs
<1> QED
  BY <1>2

(* A text of digits that is read as the number v.                          *)
Spells(text, radix, v) ==
  /\ text \in Seq(Nat) /\ \A i \in 1 .. Len(text) : text[i] < radix
  /\ Reading(text, radix)[Len(text)] = v

LEMMA SpellsAppend ==
  ASSUME NEW radix \in Nat, NEW t, NEW v \in Nat, Spells(t, radix, v),
         NEW d \in Nat, d < radix, v * radix + d <= MaxInt
  PROVE  Spells(Append(t, d), radix, v * radix + d)
<1>1. PICK s : s = Append(t, d)
  OBVIOUS
<1>2. /\ t \in Seq(Nat) /\ s \in Seq(Nat) /\ Len(t) \in Nat /\ Len(s) = Len(t) + 1
      /\ s[Len(t) + 1] = d /\ \A i \in 1 .. Len(t) : s[i] = t[i]
  BY <1>1, AppendProperties, LenProperties DEF Spells
<1> DEFINE T == {k \in 0 .. Len(t) : Reading(s, radix)[k] # Reading(t, radix)[k]}
<1>3. ASSUME T # {} PROVE FALSE
  <2>1. T \in SUBSET Nat
    BY <1>2
  <2>2. PICK m \in T : \A j \in T : m <= j
    BY <1>3, <2>1, LeastNumber
  <2>3. m # 0
    BY <1>2, ReadingIs
  <2>4. m \in 1 .. Len(t) /\ m \in 1 .. Len(s) /\ m - 1 \in 0 .. Len(t) /\ m - 1 \notin T
    BY <1>2, <2>2, <2>3
  <2>5. Reading(s, radix)[m - 1] = Reading(t, radix)[m - 1]
    BY <2>4
  <2>6. /\ Reading(s, radix)[m] = WithDigit(Reading(s, radix)[m - 1], radix, s[m])
        /\ Reading(t, radix)[m] = WithDigit(Reading(t, radix)[m - 1], radix, t[m])
    BY <1>2, <2>4, ReadingIs
  <2> QED
    BY <1>2, <2>4, <2>5, <2>6
<1>4. Reading(s, radix)[Len(t)] = v
  BY <1>2, <1>3 DEF Spells
<1>5. Len(s) \in 1 .. Len(s) /\ Len(s) - 1 = Len(t)
  BY <1>2
<1>6. Reading(s, radix)[Len(s)] = WithDigit(v, radix, d)
  <2>1. Reading(s, radix)[Len(s)] = WithDigit(Reading(s, radix)[Len(s) - 1], radix, s[Len(s)])
    BY <1>2, <1>5, ReadingIs
  <2> QED
    BY <1>2, <1>4, <1>5, <2>1
<1>7. WithDigit(v, radix, d) = v * radix + d
  BY WithDigitIs
<1>8. ASSUME NEW i \in 1 .. Len(s) PROVE s[i] < radix
  <2>1. i \in 1 .. Len(t) \/ i = Len(t) + 1
    BY <1>2
  <2> QED
    BY <1>2, <2>1 DEF Spells
<1> QED
  BY <1>1, <1>2, <1>6, <1>7, <1>8 DEF Spells

LEMMA OneDigitSpells ==
  ASSUME NEW radix \in Nat, NEW d \in Nat, d < radix, d <= MaxInt
  PROVE  Spells(<<d>>, radix, d)
<1>1. PICK t : t = <<d>>
  OBVIOUS
<1>2. t \in Seq(Nat) /\ Len(t) = 1 /\ t[1] = d
  BY <1>1
<1>3. Reading(t, radix)[1] = WithDigit(0, radix, d)
  <2>1. 1 \in 1 .. Len(t) /\ 1 - 1 = 0
    BY <1>2
  <2> QED
    BY <1>2, <2>1, ReadingIs
<1>4. 0 * radix + d = d
  OBVIOUS
<1>5. WithDigit(0, radix, d) = d
  BY <1>4, WithDigitIs
<1>6. \A i \in 1 .. 1 : i = 1
  OBVIOUS
<1> QED
  BY <1>1, <1>2, <1>3, <1>5, <1>6 DEF Spells

LEMMA NothingSpells ==
  ASSUME NEW radix \in Nat
  PROVE  Spells(<<>>, radix, 0)
<1>1. PICK t : t = <<>>
  OBVIOUS
<1>2. t \in Seq(Nat) /\ Len(t) = 0
  BY <1>1
<1>3. Reading(t, radix)[0] = 0
  BY <1>2, ReadingIs
<1> QED
  BY <1>1, <1>2, <1>3 DEF Spells

-----------------------------------------------------------------------------
(* Writing a number: the recursion of Format and ToBinary over the numbers *)
(* is a function, and what it writes is read back.                         *)

Radixes == {2, 10, 16}

LEMMA Division ==
  ASSUME NEW radix \in Radixes, NEW n \in Nat
  PROVE  /\ n \div radix \in Nat /\ n % radix \in Nat /\ n % radix < radix
         /\ n = (n \div radix) * radix + (n % radix)
         /\ n # 0 => n \div radix <= n - 1
<1>1. CASE radix = 2
  BY <1>1
<1>2. CASE radix = 10
  BY <1>2
<1>3. CASE radix = 16
  BY <1>3
<1> QED
  BY <1>1, <1>2, <1>3 DEF Radixes

(* The functions that Format and ToBinary recurse with: short numbers have *)
(* the texts in b, the others get their last digit appended.               *)
Writes(f, m, S, b, radix) ==
  f = [n \in 0 .. m |-> IF n \in S THEN b[n] ELSE Append(f[n \div radix], n % radix)]

LEMMA WriterExists ==
  ASSUME NEW radix \in Radixes, NEW S, 0 \in S, NEW b, NEW last \in Nat
  PROVE  \E f : Writes(f, last, S, b, radix)
<1> DEFINE T == {m \in Nat : ~\E f : Writes(f, m, S, b, radix)}
<1>1. ASSUME T # {} PROVE FALSE
  <2>1. T \in SUBSET Nat
    OBVIOUS
  <2>2. PICK m \in T : \A k \in T : m <= k
    BY <1>1, <2>1, LeastNumber
  <2>3. m # 0
    <3>1. PICK f : f = [n \in 0 .. 0 |-> b[n]]
      OBVIOUS
    <3>2. PICK g : g = [n \in 0 .. 0 |-> IF n \in S THEN b[n] ELSE Append(f[n \div radix], n % radix)]
      OBVIOUS
    <3>3. \A n \in 0 .. 0 : n \in S
      OBVIOUS
    <3>4. f = g
      BY <3>1, <3>2, <3>3
    <3>5. Writes(f, 0, S, b, radix)
      BY <3>2, <3>4 DEF Writes
    <3> QED
      BY <3>5
  <2>4. m - 1 \in Nat /\ m - 1 \notin T
    <3> HIDE DEF T
    <3>1. m \in Nat /\ m - 1 \in Nat /\ ~(m <= m - 1)
      BY <2>1, <2>2, <2>3
    <3> QED
      BY <2>2, <3>1
  <2>5. PICK g : Writes(g, m - 1, S, b, radix)
    BY <2>4
  <2>6. PICK top : top = IF m \in S THEN b[m] ELSE Append(g[m \div radix], m % radix)
    OBVIOUS
  <2>7. PICK f : f = [n \in 0 .. m |-> IF n = m THEN top ELSE g[n]]
    OBVIOUS
  <2>8. f[m] = top /\ \A n \in 0 .. m - 1 : f[n] = g[n]
    BY <2>4, <2>7
  <2>9. PICK h : h = [n \in 0 .. m |-> IF n \in S THEN b[n] ELSE Append(f[n \div radix], n % radix)]
    OBVIOUS
  <2>10. ASSUME NEW n \in 0 .. m PROVE h[n] = f[n]
    <3>1. n = m \/ n \in 0 .. m - 1
      BY <2>4
    <3>2. n \in S \/ (n # 0 /\ n \in Nat)
      OBVIOUS
    <3>3. n \in S \/ n \div radix \in 0 .. m - 1
      <4>1. PICK q : q = n \div radix
        OBVIOUS
      <4>2. n \in S \/ (q \in Nat /\ q <= n - 1)
        BY <3>2, <4>1, Division
      <4>3. n <= m
        OBVIOUS
      <4>4. n \in S \/ q \in 0 .. m - 1
        BY <2>4, <4>2, <4>3
      <4> QED
        BY <4>1, <4>4
    <3>4. h[n] = IF n \in S THEN b[n] ELSE Append(f[n \div radix], n % radix)
      BY <2>9
    <3>5. h[n] = IF n \in S THEN b[n] ELSE Append(g[n \div radix], n % radix)
      BY <2>8, <3>3, <3>4
    <3>6. CASE n = m
      BY <2>6, <2>8, <3>5, <3>6
    <3>7. CASE n \in 0 .. m - 1
      <4>1. g[n] = IF n \in S THEN b[n] ELSE Append(g[n \div radix], n % radix)
        <5>1. PICK gg : gg = [j \in 0 .. m - 1 |-> IF j \in S THEN b[j] ELSE Append(g[j \div radix], j % radix)]
          OBVIOUS
        <5>2. g = gg
          BY <2>5, <5>1 DEF Writes
        <5> QED
          BY <3>7, <5>1, <5>2
      <4> QED
        BY <2>8, <3>5, <3>7, <4>1
    <3> QED
      BY <3>1, <3>6, <3>7
  <2>11. h = [n \in 0 .. m |-> h[n]] /\ f = [n \in 0 .. m |-> f[n]]
    BY <2>7, <2>9
  <2>12. f = h
    BY <2>10, <2>11
  <2>13. Writes(f, m, S, b, radix)
    BY <2>9, <2>12 DEF Writes
  <2> QED
    BY <2>13
<1> QED
  BY <1>1

LEMMA WriterSpells ==
  ASSUME NEW radix \in Radixes, NEW S, 0 \in S, NEW b,
         \A n \in S : n \in 0 .. MaxInt => Spells(b[n], radix, n),
         NEW f, Writes(f, MaxInt, S, b, radix), NEW v \in 0 .. MaxInt
  PROVE  Spells(f[v], radix, v)
<1> DEFINE T == {n \in 0 .. MaxInt : ~Spells(f[n], radix, n)}
<1>1. ASSUME T # {} PROVE FALSE
  <2>1. T \in SUBSET Nat /\ MaxInt \in Nat /\ radix \in Nat
    BY Widths DEF Radixes
  <2>2. PICK m \in T : \A k \in T : m <= k
    BY <1>1, <2>1, LeastNumber
  <2>3. m \in 0 .. MaxInt /\ m \in Nat /\ ~Spells(f[m], radix, m)
    OBVIOUS
  <2>4. f[m] = IF m \in S THEN b[m] ELSE Append(f[m \div radix], m % radix)
    <3>1. PICK g : g = [n \in 0 .. MaxInt |-> IF n \in S THEN b[n] ELSE Append(f[n \div radix], n % radix)]
      OBVIOUS
    <3>2. f = g
      BY <3>1 DEF Writes
    <3> QED
      BY <2>3, <3>1, <3>2
  <2>5. m \notin S
    BY <2>3, <2>4
  <2>6. PICK q : q = m \div radix
    OBVIOUS
  <2>7. PICK d : d = m % radix
    OBVIOUS
  <2>8. q \in Nat /\ d \in Nat /\ d < radix /\ m = q * radix + d /\ q <= m - 1
    BY <2>3, <2>5, <2>6, <2>7, Division
  <2>9. q \in 0 .. MaxInt /\ ~(m <= q)
    BY <2>1, <2>3, <2>8
  <2>10. Spells(f[q], radix, q)
    BY <2>2, <2>9
  <2>11. q * radix + d <= MaxInt
    BY <2>3, <2>8
  <2>12. Spells(Append(f[q], d), radix, q * radix + d)
    <3>1. PICK t : t = f[q]
      OBVIOUS
    <3> QED
      BY <2>1, <2>8, <2>10, <2>11, <3>1, SpellsAppend
  <2> QED
    BY <2>3, <2>4, <2>5, <2>6, <2>7, <2>8, <2>12
<1> QED
  BY <1>1

LEMMA FormatSpells ==
  ASSUME NEW radix \in Radixes, NEW v \in 0 .. MaxInt
  PROVE  Spells(Format(v, radix), radix, v)
<1>1. MaxInt \in Nat /\ radix \in Nat /\ 0 < radix
  BY Widths DEF Radixes
<1>2. PICK S : S = {n \in Nat : n < radix}
  OBVIOUS
<1>3. PICK b : b = [n \in Nat |-> <<n>>]
  OBVIOUS
<1>4. 0 \in S /\ \A n \in Nat : (n \in S <=> n < radix) /\ b[n] = <<n>>
  BY <1>1, <1>2, <1>3
<1>5. ASSUME NEW n \in S, n \in 0 .. MaxInt PROVE Spells(b[n], radix, n)
  BY <1>1, <1>2, <1>4, <1>5, OneDigitSpells
<1> DEFINE Digits(h) == h = [n \in 0 .. MaxInt |->
                               IF n < radix THEN <<n>> ELSE Append(h[n \div radix], n % radix)]
<1>6. ASSUME NEW h PROVE Digits(h) <=> Writes(h, MaxInt, S, b, radix)
  <2>1. PICK x : x = [n \in 0 .. MaxInt |->
                        IF n < radix THEN <<n>> ELSE Append(h[n \div radix], n % radix)]
    OBVIOUS
  <2>2. PICK y : y = [n \in 0 .. MaxInt |->
                        IF n \in S THEN b[n] ELSE Append(h[n \div radix], n % radix)]
    OBVIOUS
  <2>3. ASSUME NEW n \in 0 .. MaxInt PROVE x[n] = y[n]
    <3>1. n \in Nat
      OBVIOUS
    <3>2. x[n] = IF n < radix THEN <<n>> ELSE Append(h[n \div radix], n % radix)
      BY <2>1
    <3>3. y[n] = IF n \in S THEN b[n] ELSE Append(h[n \div radix], n % radix)
      BY <2>2
    <3> QED
      BY <1>4, <3>1, <3>2, <3>3
  <2>4. x = [n \in 0 .. MaxInt |-> x[n]] /\ y = [n \in 0 .. MaxInt |-> y[n]]
    BY <2>1, <2>2
  <2>5. x = y
    BY <2>3, <2>4
  <2> QED
    BY <2>1, <2>2, <2>5 DEF Writes
<1>7. PICK f : f = CHOOSE h : Digits(h)
  OBVIOUS
<1>8. Format(v, radix) = f[v]
  BY <1>7 DEF Format
<1> HIDE DEF Digits
<1>9. \E h : Digits(h)
  BY <1>1, <1>4, <1>6, WriterExists
<1>10. Writes(f, MaxInt, S, b, radix)
  BY <1>6, <1>7, <1>9
<1> QED
  BY <1>4, <1>5, <1>8, <1>10, WriterSpells

LEMMA ToBinarySpells ==
  ASSUME NEW v \in 0 .. MaxInt
  PROVE  Spells(ToBinary(v), 2, v)
<1>1. MaxInt \in Nat /\ 2 \in Radixes
  BY Widths DEF Radixes
<1>2. CASE v = 0
  <2>1. ToBinary(v) = <<0>>
    BY <1>2 DEF ToBinary
  <2> QED
    BY <1>1, <1>2, <2>1, OneDigitSpells
<1>3. CASE v # 0
  <2>1. PICK b : b = [n \in Nat |-> <<>>]
    OBVIOUS
  <2>2. PICK S : S = {0}
    OBVIOUS
  <2>3. 0 \in S /\ \A n : n \in S <=> n = 0
    BY <2>2
  <2>4. b[0] = <<>>
    BY <2>1
  <2>5. \A n \in S : n \in 0 .. MaxInt => Spells(b[n], 2, n)
    BY <2>3, <2>4, NothingSpells
  <2> DEFINE TheBits(h) == h = [n \in 0 .. MaxInt |->
                                  IF n = 0 THEN <<>> ELSE Append(h[n \div 2], n % 2)]
  <2>6. ASSUME NEW h PROVE TheBits(h) <=> Writes(h, MaxInt, S, b, 2)
    <3>1. PICK x : x = [n \in 0 .. MaxInt |->
                          IF n = 0 THEN <<>> ELSE Append(h[n \div 2], n % 2)]
      OBVIOUS
    <3>2. PICK y : y = [n \in 0 .. MaxInt |->
                          IF n \in S THEN b[n] ELSE Append(h[n \div 2], n % 2)]
      OBVIOUS
    <3>3. ASSUME NEW n \in 0 .. MaxInt PROVE x[n] = y[n]
      <4>1. x[n] = IF n = 0 THEN <<>> ELSE Append(h[n \div 2], n % 2)
        BY <3>1
      <4>2. y[n] = IF n \in S THEN b[n] ELSE Append(h[n \div 2], n % 2)
        BY <3>2
      <4> QED
        BY <2>3, <2>4, <4>1, <4>2
    <3>4. x = [n \in 0 .. MaxInt |-> x[n]] /\ y = [n \in 0 .. MaxInt |-> y[n]]
      BY <3>1, <3>2
    <3>5. x = y
      BY <3>3, <3>4
    <3> QED
      BY <3>1, <3>2, <3>5 DEF Writes
  <2>7. PICK f : f = CHOOSE h : TheBits(h)
    OBVIOUS
  <2>8. ToBinary(v) = f[v]
    BY <1>3, <2>7 DEF ToBinary
  <2> HIDE DEF TheBits
  <2>9. \E h : TheBits(h)
    BY <1>1, <2>3, <2>6, WriterExists
  <2>10. Writes(f, MaxInt, S, b, 2)
    BY <2>6, <2>7, <2>9
  <2> QED
    BY <1>1, <2>3, <2>5, <2>8, <2>10, WriterSpells
<1> QED
  BY <1>2, <1>3

LEMMA RadixOfButton ==
  ASSUME NEW n \in HexOrDec
  PROVE  /\ GetRadix(n) \in Radixes /\ GetRadix(n) \in Nat
         /\ n = 2 => GetRadix(n) = 2
<1>1. n = 0 \/ n = 1 \/ n = 2
  BY DEF HexOrDec
<1> QED
  BY <1>1 DEF GetRadix, Radixes

LEMMA TextSpells ==
  ASSUME NEW n \in HexOrDec, NEW v \in 0 .. MaxInt
  PROVE  Spells(TextOf(v, n), GetRadix(n), v)
BY RadixOfButton, FormatSpells, ToBinarySpells DEF TextOf

(* Reading a number out of any text gives a number of the width.           *)
LEMMA NumberType ==
  ASSUME NEW n \in HexOrDec, NEW text \in Seq(Nat)
  PROVE  /\ NumberOf(text, n) \in 0 .. MaxInt
         /\ \A v : Spells(text, GetRadix(n), v) => NumberOf(text, n) = v
<1>1. PICK radix : radix = GetRadix(n)
  OBVIOUS
<1>2. radix \in Nat
  BY <1>1, RadixOfButton
<1>3. PICK len : len = Len(text)
  OBVIOUS
<1>4. len \in Nat
  BY <1>3, LenProperties
<1>5. PICK beginnings : beginnings = {k \in 0 .. len : \A i \in 1 .. k : text[i] < radix}
  OBVIOUS
<1>6. 0 \in beginnings /\ beginnings \in SUBSET (0 .. len)
  BY <1>4, <1>5
<1>7. Max(beginnings) \in beginnings /\ (len \in beginnings => Max(beginnings) = len)
  BY <1>4, <1>6, LargestPosition
<1>8. NumberOf(text, n) = Reading(text, radix)[Max(beginnings)]
  BY <1>1, <1>3, <1>5 DEF NumberOf
<1>9. PICK k : k = Max(beginnings)
  OBVIOUS
<1>10. k \in 0 .. Len(text)
  BY <1>3, <1>6, <1>7, <1>9
<1>11. NumberOf(text, n) \in 0 .. MaxInt
  BY <1>2, <1>8, <1>9, <1>10, ReadingType
<1>12. ASSUME NEW v, Spells(text, radix, v) PROVE NumberOf(text, n) = v
  <2>1. len \in beginnings
    BY <1>3, <1>4, <1>5, <1>12 DEF Spells
  <2> QED
    BY <1>3, <1>7, <1>8, <1>12, <2>1 DEF Spells
<1> QED
  BY <1>1, <1>11, <1>12

(* The text the dialog writes for a number in one of its radices is a text *)
(* and is read back in this radix as the same number, for every width:     *)
(* CString::Format and FormatHelper::ToBinary against _wcstoui64.          *)
THEOREM TextsReadBack ==
  ASSUME NEW n \in HexOrDec, NEW v \in 0 .. MaxInt
  PROVE  TextOf(v, n) \in Seq(Nat) /\ NumberOf(TextOf(v, n), n) = v
<1>1. Spells(TextOf(v, n), GetRadix(n), v)
  BY TextSpells
<1>2. TextOf(v, n) \in Seq(Nat)
  BY <1>1 DEF Spells
<1> QED
  BY <1>1, <1>2, NumberType

-----------------------------------------------------------------------------
(* The dialog.                                                             *)

(* Until something is typed, the text in the dialog object is the one in   *)
(* the control, so that the radio buttons, which read the one, see what    *)
(* the other shows.                                                        *)
InStep == (open /\ ~typed) => m_Value = edit

IInv == TypeOK /\ InStep /\ RadixKeepsValue

LEMMA Zero ==
  0 \in HexOrDec /\ 0 \in 0 .. MaxInt /\ <<>> \in Seq(Nat)
BY Widths DEF HexOrDec

LEMMA InitIInv == Init => IInv
BY Zero DEF Init, IInv, TypeOK, InStep, RadixKeepsValue

LEMMA OpenKeeps ==
  ASSUME IInv, NEW v \in Given, NEW canModify \in BOOLEAN, Open(v, canModify)
  PROVE  IInv'
<1>1. v \in 0 .. MaxInt /\ m_HexOrDec \in HexOrDec
  BY DialogAssumption DEF IInv, TypeOK
<1>2. PICK t : t = TextOf(v, m_HexOrDec)
  OBVIOUS
<1>3. t \in Seq(Nat) /\ NumberOf(t, m_HexOrDec) = v
  BY <1>1, <1>2, TextsReadBack
<1>4. m_Value' = t /\ edit' = t /\ m_HexOrDec' = m_HexOrDec /\ given' = v
  BY <1>2 DEF Open
<1>5. TypeOK'
  BY <1>1, <1>3, <1>4 DEF IInv, TypeOK, Open
<1>6. RadixKeepsValue'
  BY <1>1, <1>2, <1>3, <1>4 DEF RadixKeepsValue
<1> QED
  BY <1>4, <1>5, <1>6 DEF IInv, InStep

LEMMA TypeKeeps ==
  ASSUME IInv, NEW text \in Typed, Type(text)
  PROVE  IInv'
<1>1. text \in Seq(Nat)
  BY DialogAssumption
<1> QED
  BY <1>1 DEF IInv, TypeOK, InStep, RadixKeepsValue, Type

LEMMA RadioButtonKeeps ==
  ASSUME IInv, NEW n \in HexOrDec, OnRadioButtonClicked(n)
  PROVE  IInv'
<1>1. m_HexOrDec \in HexOrDec /\ m_Value \in Seq(Nat) /\ edit \in Seq(Nat)
  BY DEF IInv, TypeOK
<1>2. PICK v : v = NumberOf(m_Value, m_HexOrDec)
  OBVIOUS
<1>3. v \in 0 .. MaxInt
  BY <1>1, <1>2, NumberType
<1>4. PICK t : t = TextOf(v, n)
  OBVIOUS
<1>5. t \in Seq(Nat) /\ NumberOf(t, n) = v
  BY <1>3, <1>4, TextsReadBack
<1>6. /\ m_Value' = IF m_CanModify THEN t ELSE edit
      /\ edit' = m_Value' /\ m_HexOrDec' = n
      /\ UNCHANGED <<m_CanModify, open, given, typed, result>>
  BY <1>2, <1>4 DEF OnRadioButtonClicked
<1>7. TypeOK'
  BY <1>1, <1>5, <1>6 DEF IInv, TypeOK
<1>8. (open /\ m_CanModify /\ ~typed) => v = given
  BY <1>2 DEF IInv, InStep, RadixKeepsValue
<1>9. RadixKeepsValue'
  <2>1. CASE m_CanModify
    BY <1>5, <1>6, <1>8, <2>1 DEF RadixKeepsValue
  <2>2. CASE ~m_CanModify
    BY <1>6, <2>2 DEF IInv, RadixKeepsValue
  <2> QED
    BY <2>1, <2>2
<1> QED
  BY <1>6, <1>7, <1>9 DEF IInv, InStep

LEMMA SelectColorKeeps ==
  ASSUME IInv, NEW c \in Given, OnSelectColor(c)
  PROVE  IInv'
<1>1. c \in Nat /\ m_HexOrDec \in HexOrDec
  BY DialogAssumption DEF IInv, TypeOK
<1>2. TextOf(ToDword(c), m_HexOrDec) \in Seq(Nat)
  BY <1>1, DwordType, TextsReadBack
<1> QED
  BY <1>2 DEF IInv, TypeOK, InStep, RadixKeepsValue, OnSelectColor

LEMMA CloseKeeps ==
  ASSUME IInv, OnCloseCmd
  PROVE  IInv'
<1>1. NumberOf(edit, m_HexOrDec) \in 0 .. MaxInt
  BY NumberType DEF IInv, TypeOK
<1>2. open' \in BOOLEAN /\ result' \in 0 .. MaxInt \union {NoResult}
  BY <1>1 DEF IInv, TypeOK, OnCloseCmd
<1>3. TypeOK'
  BY <1>2 DEF IInv, TypeOK, OnCloseCmd
<1> QED
  BY <1>3 DEF IInv, InStep, RadixKeepsValue, OnCloseCmd

LEMMA NextIInv ==
  ASSUME IInv, [Next]_vars
  PROVE  IInv'
<1>1. CASE \E v \in Given, canModify \in BOOLEAN : Open(v, canModify)
  BY <1>1, OpenKeeps
<1>2. CASE \E text \in Typed : Type(text)
  BY <1>2, TypeKeeps
<1>3. CASE \E n \in HexOrDec : OnRadioButtonClicked(n)
  BY <1>3, RadioButtonKeeps
<1>4. CASE \E c \in Given : OnSelectColor(c)
  BY <1>4, SelectColorKeeps
<1>5. CASE OnCloseCmd
  BY <1>5, CloseKeeps
<1>6. CASE OnCancel
  BY <1>6 DEF IInv, TypeOK, InStep, RadixKeepsValue, OnCancel
<1>7. CASE UNCHANGED vars
  BY <1>7 DEF IInv, TypeOK, InStep, RadixKeepsValue, vars
<1> QED
  BY <1>1, <1>2, <1>3, <1>4, <1>5, <1>6, <1>7 DEF Next

LEMMA DialogInv == Spec => []IInv
<1>1. Init => IInv
  BY InitIInv
<1>2. IInv /\ [Next]_vars => IInv'
  BY NextIInv
<1> QED
  BY <1>1, <1>2, PTL DEF Spec

(* The radix stays one of the three, the texts stay texts, and what a      *)
(* dialog delivers fits a ULONGLONG, for every width and every typed text. *)
THEOREM DialogType == Spec => []TypeOK
<1>1. IInv => TypeOK
  BY DEF IInv
<1> QED
  BY <1>1, DialogInv, PTL

(* Switching the radix loses nothing of a value nobody typed over: a       *)
(* dialog that may modify shows it in the chosen radix, a read-only one in *)
(* some radix, for every width, every value and every number of switches.  *)
THEOREM RadixNeverLosesValue == Spec => []RadixKeepsValue
<1>1. IInv => RadixKeepsValue
  BY DEF IInv
<1> QED
  BY <1>1, DialogInv, PTL

(* OK in a dialog nobody typed in delivers the value it was opened on when *)
(* the dialog may modify, so that OnModifyValue makes no command, and      *)
(* otherwise one of the values that ValueEditor.tla expects of a read-only *)
(* dialog: a text of the value read in any of the radices.                 *)
THEOREM WhatUntouchedOkDelivers == Spec => UntouchedOkDelivers
<1>1. ASSUME IInv, OnCloseCmd, ~open', ~typed
      PROVE  result' \in IF m_CanModify THEN {given} ELSE Rereadings(given)
  <2>1. result' = NumberOf(edit, m_HexOrDec) /\ open
    BY <1>1 DEF OnCloseCmd
  <2>2. m_HexOrDec \in HexOrDec /\ result' \in 0 .. MaxInt
    BY <1>1, <2>1, NumberType DEF IInv, TypeOK
  <2>3. CASE m_CanModify
    BY <1>1, <2>1, <2>3 DEF IInv, RadixKeepsValue
  <2>4. CASE ~m_CanModify
    <3>1. PICK n \in HexOrDec : edit = TextOf(given, n)
      BY <1>1, <2>1, <2>4 DEF IInv, RadixKeepsValue
    <3> QED
      BY <2>1, <2>2, <2>4, <3>1 DEF Rereadings
  <2> QED
    BY <2>3, <2>4
<1>2. IInv /\ [Next]_vars =>
        [(OnCloseCmd /\ ~open' /\ ~typed) =>
           result' \in IF m_CanModify THEN {given} ELSE Rereadings(given)]_vars
  BY <1>1
<1> QED
  BY <1>2, DialogInv, PTL DEF Spec, UntouchedOkDelivers
=============================================================================
