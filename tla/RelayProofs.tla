----------------------------- MODULE RelayProofs ----------------------------
(***************************************************************************)
(* What is written is what is read, for every text, and what is cut loses  *)
(* its end.                                                                *)
(***************************************************************************)
EXTENDS Relay, TLAPS, WellFoundedInduction, FiniteSetTheorems, SequenceTheorems

-----------------------------------------------------------------------------
(* Least elements, for induction over numbers, and recursive functions      *)

LEMMA Least ==
    ASSUME NEW T \in SUBSET Nat, T # {}
    PROVE  \E m \in T : \A k \in T : m <= k
<1> DEFINE R == {ss \in Nat \X Nat : ss[1] < ss[2]}
<1>1. OpToRel(<, Nat) = R
  BY DEF OpToRel
<1>2. IsWellFoundedOn(R, Nat)
  BY <1>1, NatLessThanWellFounded
<1>3. PICK x \in T : \A y \in T : ~ (<<y, x>> \in R)
  BY <1>2, WFMin
<1>4. ASSUME NEW y \in T PROVE x <= y
  <2>1. ~(<<y, x>> \in R) /\ x \in Nat /\ y \in Nat
    BY <1>3
  <2>2. CASE y < x
    <3>1. PICK p : p = <<y, x>>
      OBVIOUS
    <3>2. p \in Nat \X Nat /\ p[1] = y /\ p[2] = x
      BY <2>1, <3>1
    <3>3. p \in R
      BY <2>2, <3>2
    <3> QED
      BY <2>1, <3>1, <3>3
  <2> QED
    BY <2>1, <2>2
<1> QED
  BY <1>4

\* What holds of a number if it holds of all smaller ones holds of all.
LEMMA Induction ==
    ASSUME NEW T, \A i \in Nat : (\A j \in 0..(i - 1) : j \in T) => i \in T
    PROVE  \A i \in Nat : i \in T
<1> DEFINE Bad == {i \in Nat : i \notin T}
<1>1. CASE Bad # {}
  <2>1. PICK i \in Bad : \A k \in Bad : i <= k
    <3>1. Bad \in SUBSET Nat
      OBVIOUS
    <3> HIDE DEF Bad
    <3> QED
      BY <1>1, <3>1, Least
  <2>2. ASSUME NEW j \in 0..(i - 1) PROVE j \in T
    <3>1. j \in Nat /\ ~(i <= j)
      OBVIOUS
    <3> QED
      BY <2>1, <3>1
  <2>3. i \in T
    BY <2>2
  <2> QED
    BY <2>3
<1>2. CASE Bad = {}
  BY <1>2
<1> QED
  BY <1>1, <1>2

\* f obeys a recursion over a..n, in which an element that is not in B depends
\* on a smaller one.
Obeys(f, a, n, B, base, prev, step) ==
    f = [i \in a..n |-> IF i \in B THEN base[i] ELSE step[i][f[prev[i]]]]

\* There is one function that obeys a recursion, and only one.
LEMMA RecursionExists ==
    ASSUME NEW a \in Nat, NEW n \in Nat, NEW B, NEW base, NEW prev, NEW step,
           \A i \in (a..n) \ B : prev[i] \in a..(i - 1)
    PROVE  \E f : Obeys(f, a, n, B, base, prev, step)
<1> DEFINE Bad == {m \in Nat : a <= m + 1 /\ m <= n /\ ~\E f : Obeys(f, a, m, B, base, prev, step)}
<1>1. CASE n < a
  <2> DEFINE f == [i \in a..n |-> {}]
  <2>1. a..n = {}
    BY <1>1
  <2>2. Obeys(f, a, n, B, base, prev, step)
    BY <2>1 DEF Obeys
  <2> QED
    BY <2>2
<1>2. CASE a <= n /\ Bad # {}
  <2>1. PICK m \in Bad : \A k \in Bad : m <= k
    <3>1. Bad \in SUBSET Nat
      OBVIOUS
    <3> HIDE DEF Bad
    <3> QED
      BY <1>2, <3>1, Least
  <2>2. m \in Nat /\ a <= m + 1 /\ m <= n
    OBVIOUS
  <2>3. \E g : Obeys(g, a, m - 1, B, base, prev, step)
    <3>1. CASE m < a \/ m = a
      <4> DEFINE g == [i \in a..(m - 1) |-> {}]
      <4>1. a..(m - 1) = {}
        BY <2>2, <3>1
      <4>2. Obeys(g, a, m - 1, B, base, prev, step)
        BY <4>1 DEF Obeys
      <4> QED
        BY <4>2
    <3>2. CASE a < m
      <4>1. m - 1 \in Nat /\ a <= (m - 1) + 1 /\ m - 1 <= n /\ ~(m <= m - 1)
        BY <2>2, <3>2
      <4>2. m - 1 \notin Bad
        BY <2>1, <4>1
      <4> QED
        BY <4>1, <4>2
    <3> QED
      BY <2>2, <3>1, <3>2
  <2>4. PICK g : Obeys(g, a, m - 1, B, base, prev, step)
    BY <2>3
  <2> DEFINE f == [i \in a..m |-> IF i \in a..(m - 1) THEN g[i]
                                  ELSE IF i \in B THEN base[i] ELSE step[i][g[prev[i]]]]
  <2>5. ASSUME NEW i \in a..m
        PROVE  f[i] = IF i \in B THEN base[i] ELSE step[i][f[prev[i]]]
    <3>1. CASE i \in B
      <4>1. i \in a..(m - 1) => g[i] = base[i]
        BY <2>4, <3>1 DEF Obeys
      <4> QED
        BY <3>1, <4>1
    <3>2. CASE i \notin B
      <4>1. prev[i] \in a..(i - 1) /\ i <= m
        BY <2>2, <3>2
      <4>2. prev[i] \in a..(m - 1) /\ prev[i] \in a..m
        BY <2>2, <4>1
      <4>3. f[prev[i]] = g[prev[i]]
        BY <4>2
      <4>4. i \in a..(m - 1) => g[i] = step[i][g[prev[i]]]
        BY <2>4, <3>2 DEF Obeys
      <4>5. f[i] = step[i][g[prev[i]]]
        BY <3>2, <4>4
      <4> QED
        BY <3>2, <4>3, <4>5
    <3> QED
      BY <3>1, <3>2
  <2>6. Obeys(f, a, m, B, base, prev, step)
    <3>1. f = [i \in a..m |-> f[i]]
      OBVIOUS
    <3> HIDE DEF f
    <3> QED
      BY <2>5, <3>1 DEF Obeys
  <2>7. \E ff : Obeys(ff, a, m, B, base, prev, step)
    <3> HIDE DEF f
    <3> QED
      BY <2>6
  <2> QED
    BY <2>7
<1>3. CASE a <= n /\ Bad = {}
  <2>1. n \notin Bad
    BY <1>3
  <2> QED
    BY <1>3, <2>1
<1> QED
  BY <1>1, <1>2, <1>3

\* Two functions that obey it agree wherever both are defined.
LEMMA RecursionUnique ==
    ASSUME NEW a \in Nat, NEW n \in Nat, NEW m \in Nat, NEW B, NEW base, NEW prev, NEW step,
           NEW f, NEW g, m <= n,
           \A i \in (a..n) \ B : prev[i] \in a..(i - 1),
           Obeys(f, a, n, B, base, prev, step), Obeys(g, a, m, B, base, prev, step)
    PROVE  \A i \in a..m : f[i] = g[i]
<1> DEFINE Bad == {i \in a..m : f[i] # g[i]}
<1>1. Bad \in SUBSET Nat
  OBVIOUS
<1>2. CASE Bad # {}
  <2>1. PICK i \in Bad : \A k \in Bad : i <= k
    <3> HIDE DEF Bad
    <3> QED
      BY <1>1, <1>2, Least
  <2>2. i \in a..m /\ i \in a..n /\ f[i] # g[i]
    OBVIOUS
  <2>3. /\ f[i] = IF i \in B THEN base[i] ELSE step[i][f[prev[i]]]
        /\ g[i] = IF i \in B THEN base[i] ELSE step[i][g[prev[i]]]
    BY <2>2 DEF Obeys
  <2>4. i \notin B
    BY <2>2, <2>3
  <2>5. prev[i] \in a..m /\ ~(i <= prev[i])
    BY <2>2, <2>4
  <2>6. f[prev[i]] = g[prev[i]]
    BY <2>1, <2>5
  <2> QED
    BY <2>2, <2>3, <2>4, <2>6
<1>3. CASE Bad = {}
  BY <1>3
<1> QED
  BY <1>2, <1>3

-----------------------------------------------------------------------------
(* Numerals *)

\* Decimal reads one character after the other.
Reading(v, c)  == 10 * v + (c - 48)
Reads(read, s) == read = [i \in 0..Len(s) |-> IF i = 0 THEN 0 ELSE Reading(read[i - 1], s[i])]
Reader(s) == CHOOSE read : Reads(read, s)

LEMMA DecimalReads == ASSUME NEW s PROVE Decimal(s) = Reader(s)[Len(s)]
  BY DEF Decimal, Reader, Reads, Reading

LEMMA ReaderReads ==
    ASSUME NEW s \in Seq(Nat)
    PROVE  /\ Reads(Reader(s), s)
           /\ \A i \in 0..Len(s) : Reader(s)[i] \in Int
<1>1. Len(s) \in Nat /\ \A i \in 1..Len(s) : s[i] \in Nat
  OBVIOUS
<1> DEFINE base == [i \in {0} |-> 0]
           prev == [i \in 1..Len(s) |-> i - 1]
           step == [i \in 1..Len(s) |-> [v \in Int |-> Reading(v, s[i])]]
<1>2. PICK f : Obeys(f, 0, Len(s), {0}, base, prev, step)
  <2>1. \A i \in (0..Len(s)) \ {0} : prev[i] \in 0..(i - 1)
    BY <1>1
  <2> HIDE DEF base, prev, step
  <2> QED
    BY <1>1, <2>1, RecursionExists
<1>3. \A i \in 0..Len(s) : f[i] \in Int
  <2> DEFINE T == {i \in Nat : i <= Len(s) => f[i] \in Int}
  <2>1. ASSUME NEW i \in Nat, \A j \in 0..(i - 1) : j \in T PROVE i \in T
    <3>1. CASE i = 0 /\ i <= Len(s)
      BY <1>1, <1>2, <3>1 DEF Obeys
    <3>2. CASE i # 0 /\ i <= Len(s)
      <4>1. i - 1 \in 0..(i - 1) /\ i \in 0..Len(s) /\ i \in 1..Len(s)
        BY <1>1, <3>2
      <4>2. f[i - 1] \in Int
        BY <1>1, <2>1, <3>2, <4>1
      <4>3. f[i] = step[i][f[i - 1]]
        BY <1>2, <3>2, <4>1 DEF Obeys
      <4>4. f[i] = Reading(f[i - 1], s[i])
        BY <4>1, <4>2, <4>3
      <4> QED
        BY <1>1, <4>1, <4>2, <4>4 DEF Reading
    <3> QED
      BY <3>1, <3>2
  <2>2. \A i \in Nat : i \in T
    <3> HIDE DEF T
    <3> QED
      BY <2>1, Induction
  <2> QED
    BY <1>1, <2>2
<1>4. Reads(f, s)
  <2>1. f = [i \in 0..Len(s) |-> f[i]] /\ f[0] = 0
    BY <1>1, <1>2 DEF Obeys
  <2>2. ASSUME NEW i \in 0..Len(s), i # 0 PROVE f[i] = Reading(f[i - 1], s[i])
    <3>1. i \in 1..Len(s) /\ i - 1 \in 0..Len(s)
      BY <1>1, <2>2
    <3>2. f[i] = step[i][f[i - 1]]
      BY <1>2, <2>2, <3>1 DEF Obeys
    <3> QED
      BY <1>3, <3>1, <3>2
  <2> QED
    BY <2>1, <2>2 DEF Reads
<1>5. Reads(Reader(s), s)
  BY <1>4 DEF Reader
<1>6. \A i \in 0..Len(s) : Reader(s)[i] \in Int
  <2>1. PICK r : r = Reader(s)
    OBVIOUS
  <2>2. /\ r[0] = 0
        /\ \A i \in 1..Len(s) : r[i] = Reading(r[i - 1], s[i])
    BY <1>1, <1>5, <2>1 DEF Reads
  <2> DEFINE T == {i \in Nat : i <= Len(s) => r[i] \in Int}
  <2>3. ASSUME NEW i \in Nat, \A j \in 0..(i - 1) : j \in T PROVE i \in T
    <3>1. CASE i = 0
      BY <2>2, <3>1
    <3>2. CASE i # 0 /\ i <= Len(s)
      <4>1. i - 1 \in 0..(i - 1) /\ i \in 1..Len(s)
        BY <1>1, <3>2
      <4>2. r[i - 1] \in Int
        BY <1>1, <2>3, <3>2, <4>1
      <4> QED
        BY <1>1, <2>2, <4>1, <4>2 DEF Reading
    <3> QED
      BY <3>1, <3>2
  <2>4. \A i \in Nat : i \in T
    <3> HIDE DEF T
    <3> QED
      BY <2>3, Induction
  <2> QED
    BY <1>1, <2>1, <2>4
<1> QED
  BY <1>5, <1>6

LEMMA DecimalEmpty == Decimal(<<>>) = 0
<1>1. <<>> \in Seq(Nat) /\ Len(<<>>) = 0
  OBVIOUS
<1>2. Reads(Reader(<<>>), <<>>)
  BY <1>1, ReaderReads
<1> QED
  BY <1>1, <1>2, DecimalReads DEF Reads

\* One more character.
LEMMA DecimalAppend ==
    ASSUME NEW s \in Seq(Nat), NEW c \in Nat
    PROVE  /\ Decimal(s) \in Int
           /\ Decimal(Append(s, c)) = 10 * Decimal(s) + (c - 48)
<1>1. PICK t : t = Append(s, c)
  OBVIOUS
<1>2. /\ t \in Seq(Nat) /\ Len(t) = Len(s) + 1 /\ Len(s) \in Nat
      /\ t[Len(t)] = c /\ \A i \in 1..Len(s) : t[i] = s[i]
  BY <1>1, AppendProperties
<1>3. PICK r : r = Reader(s)
  OBVIOUS
<1>4. PICK q : q = Reader(t)
  OBVIOUS
<1>5. /\ r[0] = 0 /\ \A i \in 1..Len(s) : r[i] = Reading(r[i - 1], s[i])
      /\ \A i \in 0..Len(s) : r[i] \in Int
  BY <1>2, <1>3, ReaderReads DEF Reads
<1>6. /\ q[0] = 0 /\ \A i \in 1..Len(t) : q[i] = Reading(q[i - 1], t[i])
  <2>1. Reads(q, t)
    BY <1>2, <1>4, ReaderReads
  <2>2. Len(t) \in Nat
    BY <1>2
  <2> QED
    BY <2>1, <2>2 DEF Reads
<1> DEFINE T == {i \in Nat : i <= Len(s) => q[i] = r[i]}
<1>7. ASSUME NEW i \in Nat, \A j \in 0..(i - 1) : j \in T PROVE i \in T
  <2>1. CASE i = 0
    BY <1>5, <1>6, <2>1
  <2>2. CASE i # 0 /\ i <= Len(s)
    <3>1. i - 1 \in 0..(i - 1) /\ i \in 1..Len(s) /\ i \in 1..Len(t)
      BY <1>2, <2>2
    <3>2. q[i - 1] = r[i - 1]
      BY <1>2, <1>7, <2>2, <3>1
    <3>3. q[i] = Reading(q[i - 1], t[i]) /\ r[i] = Reading(r[i - 1], s[i]) /\ t[i] = s[i]
      BY <1>2, <1>5, <1>6, <3>1
    <3> QED
      BY <3>2, <3>3
  <2> QED
    BY <2>1, <2>2
<1>8. \A i \in Nat : i \in T
  <2> HIDE DEF T
  <2> QED
    BY <1>7, Induction
<1>9. q[Len(s)] = r[Len(s)] /\ r[Len(s)] \in Int
  BY <1>2, <1>5, <1>8
<1>10. q[Len(t)] = Reading(q[Len(t) - 1], t[Len(t)])
  BY <1>2, <1>6
<1>11. q[Len(t)] = Reading(r[Len(s)], c)
  BY <1>2, <1>9, <1>10
<1> QED
  BY <1>1, <1>3, <1>4, <1>9, <1>11, DecimalReads DEF Reading

\* The numeral of a number of more than one digit.
Splits(digits, n) ==
    digits = [m \in 0..n |-> IF m < 10 THEN <<48 + m>> ELSE Append(digits[m \div 10], 48 + (m % 10))]
Splitter(n) == CHOOSE digits : Splits(digits, n)

LEMMA ItoaSplits == ASSUME NEW n PROVE Itoa(n) = Splitter(n)[n]
  BY DEF Itoa, Splitter, Splits


LEMMA SplitterSplits ==
    ASSUME NEW n \in Nat
    PROVE  /\ Splits(Splitter(n), n)
           /\ \A m \in 0..n : Splitter(n)[m] \in Seq(Nat)
<1> DEFINE base == [m \in 0..9 |-> <<48 + m>>]
           prev == [m \in 10..n |-> m \div 10]
           step == [m \in 10..n |-> [v \in Seq(Nat) |-> Append(v, 48 + (m % 10))]]
<1>1. PICK f : Obeys(f, 0, n, 0..9, base, prev, step)
  <2>1. ASSUME NEW m \in (0..n) \ (0..9) PROVE prev[m] \in 0..(m - 1)
    <3>1. m \in 10..n /\ m \in Nat
      OBVIOUS
    <3>2. m \div 10 \in 0..(m - 1)
      BY <3>1
    <3> QED
      BY <3>1, <3>2
  <2> HIDE DEF base, prev, step
  <2> QED
    BY <2>1, RecursionExists
<1>2. ASSUME NEW r,
             \A m \in 0..n : \/ m < 10 /\ r[m] = <<48 + m>>
                             \/ m >= 10 /\ (r[m \div 10] \in Seq(Nat) => r[m] = Append(r[m \div 10], 48 + (m % 10)))
      PROVE  \A m \in 0..n : r[m] \in Seq(Nat)
  <2> DEFINE T == {m \in Nat : m <= n => r[m] \in Seq(Nat)}
  <2>1. ASSUME NEW m \in Nat, \A j \in 0..(m - 1) : j \in T PROVE m \in T
    <3>1. CASE m < 10 /\ m <= n
      <4>1. PICK d \in Nat : d = 48 + m
        OBVIOUS
      <4>2. r[m] = <<d>>
        BY <1>2, <3>1, <4>1
      <4>3. r[m] \in Seq(Nat)
        BY <4>1, <4>2
      <4> QED
        BY <4>3
    <3>2. CASE m >= 10 /\ m <= n
      <4>1. m \div 10 \in 0..(m - 1) /\ m \div 10 <= n /\ m \in 0..n
        BY <3>2
      <4>4. PICK d \in Nat : d = 48 + (m % 10)
        OBVIOUS
      <4>2. r[m \div 10] \in Seq(Nat)
        BY <2>1, <4>1
      <4>3. r[m] = Append(r[m \div 10], d)
        BY <1>2, <3>2, <4>1, <4>2, <4>4
      <4>5. r[m] \in Seq(Nat)
        BY <4>2, <4>3, <4>4, AppendProperties
      <4> QED
        BY <4>5
    <3> QED
      BY <3>1, <3>2
  <2>2. \A m \in Nat : m \in T
    <3> HIDE DEF T
    <3> QED
      BY <2>1, Induction
  <2> QED
    BY <2>2
<1>3. ASSUME NEW m \in 0..n
      PROVE  \/ m < 10 /\ f[m] = <<48 + m>>
             \/ m >= 10 /\ (f[m \div 10] \in Seq(Nat) => f[m] = Append(f[m \div 10], 48 + (m % 10)))
  <2>1. CASE m < 10
    <3>1. m \in 0..9
      BY <2>1
    <3>2. f[m] = base[m]
      BY <1>1, <3>1 DEF Obeys
    <3> QED
      BY <2>1, <3>1, <3>2
  <2>2. CASE m >= 10
    <3>1. m \in 10..n /\ m \notin 0..9
      BY <2>2
    <3>2. f[m] = step[m][f[prev[m]]]
      BY <1>1, <3>1 DEF Obeys
    <3> QED
      BY <2>2, <3>1, <3>2
  <2> QED
    BY <2>1, <2>2
<1>4. \A m \in 0..n : f[m] \in Seq(Nat)
  <2> HIDE DEF base, prev, step
  <2> QED
    BY <1>2, <1>3
<1>5. Splits(f, n)
  <2>1. f = [m \in 0..n |-> f[m]]
    BY <1>1 DEF Obeys
  <2>2. ASSUME NEW m \in 0..n
        PROVE  f[m] = IF m < 10 THEN <<48 + m>> ELSE Append(f[m \div 10], 48 + (m % 10))
    <3>1. CASE m < 10
      BY <1>3, <3>1
    <3>2. CASE m >= 10
      <4>1. m \div 10 \in 0..n /\ ~(m < 10)
        BY <3>2
      <4>2. f[m \div 10] \in Seq(Nat)
        BY <1>4, <4>1
      <4> QED
        BY <1>3, <3>2, <4>1, <4>2
    <3> QED
      BY <3>1, <3>2
  <2> QED
    BY <2>1, <2>2 DEF Splits
<1>6. Splits(Splitter(n), n)
  BY <1>5 DEF Splitter
<1>7. \A m \in 0..n : Splitter(n)[m] \in Seq(Nat)
  <2>1. PICK r : r = Splitter(n)
    OBVIOUS
  <2>2. ASSUME NEW m \in 0..n
        PROVE  r[m] = IF m < 10 THEN <<48 + m>> ELSE Append(r[m \div 10], 48 + (m % 10))
    BY <1>6, <2>1 DEF Splits
  <2>3. ASSUME NEW m \in 0..n
        PROVE  \/ m < 10 /\ r[m] = <<48 + m>>
               \/ m >= 10 /\ (r[m \div 10] \in Seq(Nat) => r[m] = Append(r[m \div 10], 48 + (m % 10)))
    <3>1. CASE m < 10
      BY <2>2, <3>1
    <3>2. CASE m >= 10
      <4>1. ~(m < 10)
        BY <3>2
      <4> QED
        BY <2>2, <3>2, <4>1
    <3> QED
      BY <3>1, <3>2
  <2> QED
    BY <1>2, <2>1, <2>3
<1> QED
  BY <1>6, <1>7


\* How the numeral of a number is made of that of a tenth of it.
LEMMA ItoaUnfold ==
    ASSUME NEW n \in Nat
    PROVE  /\ Itoa(n) \in Seq(Nat)
           /\ n < 10 => Itoa(n) = <<48 + n>>
           /\ n >= 10 => Itoa(n) = Append(Itoa(n \div 10), 48 + (n % 10))
<1>1. PICK r : r = Splitter(n)
  OBVIOUS
<1>2. ASSUME NEW m \in 0..n
      PROVE  r[m] = IF m < 10 THEN <<48 + m>> ELSE Append(r[m \div 10], 48 + (m % 10))
  BY <1>1, SplitterSplits DEF Splits
<1>3. ASSUME NEW k \in Nat, k <= n
      PROVE  Splitter(k)[k] = r[k]
  <2>1. PICK q : q = Splitter(k)
    OBVIOUS
  <2>2. ASSUME NEW m \in 0..k
        PROVE  q[m] = IF m < 10 THEN <<48 + m>> ELSE Append(q[m \div 10], 48 + (m % 10))
    BY <2>1, SplitterSplits DEF Splits
  <2> DEFINE T == {m \in Nat : m <= k => q[m] = r[m]}
  <2>3. ASSUME NEW m \in Nat, \A j \in 0..(m - 1) : j \in T PROVE m \in T
    <3>1. CASE m < 10 /\ m <= k
      <4>1. m \in 0..k /\ m \in 0..n
        BY <1>3, <3>1
      <4>3. q[m] = <<48 + m>>
        BY <2>2, <3>1, <4>1
      <4>4. r[m] = <<48 + m>>
        BY <1>2, <3>1, <4>1
      <4>2. q[m] = r[m]
        BY <4>3, <4>4
      <4> QED
        BY <4>2
    <3>2. CASE m >= 10 /\ m <= k
      <4>1. m \in 0..k /\ m \in 0..n /\ ~(m < 10) /\ m \div 10 \in 0..(m - 1) /\ m \div 10 <= k
        BY <1>3, <3>2
      <4>2. q[m \div 10] = r[m \div 10]
        BY <2>3, <4>1
      <4>3. q[m] = r[m]
        BY <1>2, <2>2, <4>1, <4>2
      <4> QED
        BY <4>3
    <3> QED
      BY <3>1, <3>2
  <2>4. \A m \in Nat : m \in T
    <3> HIDE DEF T
    <3> QED
      BY <2>3, Induction
  <2>5. q[k] = r[k]
    BY <2>4
  <2> QED
    BY <2>1, <2>5
<1>4. n < 10 => r[n] = <<48 + n>>
  <2>1. n \in 0..n
    OBVIOUS
  <2> QED
    BY <1>2, <2>1
<1>5. n >= 10 => r[n] = Append(Itoa(n \div 10), 48 + (n % 10))
  <2> SUFFICES ASSUME n >= 10 PROVE r[n] = Append(Itoa(n \div 10), 48 + (n % 10))
    OBVIOUS
  <2>1. n \in 0..n /\ ~(n < 10) /\ n \div 10 \in Nat /\ n \div 10 <= n
    OBVIOUS
  <2>2. Itoa(n \div 10) = r[n \div 10]
    BY <1>3, <2>1, ItoaSplits
  <2> QED
    BY <1>2, <2>1, <2>2
<1>6. Itoa(n) = r[n]
  BY <1>1, ItoaSplits
<1>7. r[n] \in Seq(Nat)
  <2>1. n \in 0..n
    OBVIOUS
  <2> QED
    BY <1>1, <2>1, SplitterSplits
<1> QED
  BY <1>4, <1>5, <1>6, <1>7

LEMMA ItoaType ==
    ASSUME NEW n \in Nat
    PROVE  Itoa(n) \in Seq(Digits) /\ Itoa(n) \in Seq(Nat) /\ Len(Itoa(n)) \in Nat \ {0}
<1> DEFINE T == {m \in Nat : Itoa(m) \in Seq(Digits) /\ Len(Itoa(m)) \in Nat \ {0}}
<1>1. ASSUME NEW m \in Nat, \A j \in 0..(m - 1) : j \in T PROVE m \in T
  <2>1. PICK x : x = Itoa(m)
    OBVIOUS
  <2>2. CASE m < 10
    <3>1. PICK d \in Digits : d = 48 + m
      BY <2>2 DEF Digits
    <3>2. x = <<d>>
      BY <2>1, <2>2, <3>1, ItoaUnfold
    <3>3. x \in Seq(Digits) /\ Len(x) = 1
      BY <3>1, <3>2
    <3> QED
      BY <2>1, <3>3
  <2>3. CASE m >= 10
    <3>1. PICK d \in Digits : d = 48 + (m % 10)
      BY <2>3 DEF Digits
    <3>2. PICK k \in 0..(m - 1) : k = m \div 10
      BY <2>3
    <3>3. k \in T
      BY <1>1, <3>2
    <3>4. x = Append(Itoa(k), d)
      BY <2>1, <2>3, <3>1, <3>2, ItoaUnfold
    <3>5. PICK y : y = Itoa(k)
      OBVIOUS
    <3>6. y \in Seq(Digits) /\ Len(y) \in Nat \ {0}
      BY <3>3, <3>5
    <3>7. x \in Seq(Digits) /\ Len(x) = Len(y) + 1
      BY <3>1, <3>4, <3>5, <3>6, AppendProperties
    <3> QED
      BY <2>1, <3>6, <3>7
  <2> QED
    BY <2>2, <2>3
<1>2. \A m \in Nat : m \in T
  <2> HIDE DEF T
  <2> QED
    BY <1>1, Induction
<1> QED
  BY <1>2, ItoaUnfold

\* A number is read as it is written.
LEMMA DecimalOfItoa ==
    ASSUME NEW n \in Nat
    PROVE  Decimal(Itoa(n)) = n
<1> DEFINE T == {m \in Nat : Decimal(Itoa(m)) = m}
<1>1. ASSUME NEW m \in Nat, \A j \in 0..(m - 1) : j \in T PROVE m \in T
  <2>1. CASE m < 10
    <3>1. PICK d \in Nat : d = 48 + m
      OBVIOUS
    <3>2. Itoa(m) = <<d>>
      BY <2>1, <3>1, ItoaUnfold
    <3>3. <<d>> = Append(<<>>, d) /\ <<>> \in Seq(Nat)
      BY <3>1
    <3>4. Decimal(Itoa(m)) = 10 * 0 + (d - 48)
      BY <3>2, <3>3, DecimalAppend, DecimalEmpty
    <3> QED
      BY <3>1, <3>4
  <2>2. CASE m >= 10
    <3>1. PICK d \in Nat : d = 48 + (m % 10)
      OBVIOUS
    <3>2. PICK k \in 0..(m - 1) : k = m \div 10
      BY <2>2
    <3>3. Decimal(Itoa(k)) = k /\ Itoa(k) \in Seq(Nat)
      BY <1>1, <3>2, ItoaUnfold
    <3>4. Itoa(m) = Append(Itoa(k), d)
      BY <2>2, <3>1, <3>2, ItoaUnfold
    <3>5. Decimal(Itoa(m)) = 10 * k + (d - 48)
      BY <3>1, <3>3, <3>4, DecimalAppend
    <3>6. 10 * k + (d - 48) = m
      BY <3>1, <3>2
    <3> QED
      BY <3>5, <3>6
  <2> QED
    BY <2>1, <2>2
<1>2. \A m \in Nat : m \in T
  <2> HIDE DEF T
  <2> QED
    BY <1>1, Induction
<1> QED
  BY <1>2

\* Smaller numbers have no more digits.
LEMMA ItoaMonotonic ==
    ASSUME NEW n \in Nat
    PROVE  \A k \in 0..n : Len(Itoa(k)) <= Len(Itoa(n))
<1> DEFINE T == {m \in Nat : \A k \in 0..m : Len(Itoa(k)) <= Len(Itoa(m))}
<1>1. ASSUME NEW m \in Nat, \A j \in 0..(m - 1) : j \in T PROVE m \in T
  <2>1. ASSUME NEW k \in 0..m PROVE Len(Itoa(k)) <= Len(Itoa(m))
    <3>1. PICK a \in Nat \ {0} : a = Len(Itoa(m))
      BY ItoaType
    <3>2. CASE k < 10
      <4>1. PICK d : d = 48 + k
        OBVIOUS
      <4>2. Itoa(k) = <<d>>
        BY <3>2, <4>1, ItoaUnfold
      <4>3. Len(Itoa(k)) = 1
        BY <4>2
      <4> QED
        BY <3>1, <4>3
    <3>3. CASE k >= 10
      <4>1. PICK i : i = k \div 10
        OBVIOUS
      <4>2. PICK j : j = m \div 10
        OBVIOUS
      <4>3. j \in 0..(m - 1) /\ i \in 0..j
        BY <3>3, <4>1, <4>2
      <4>4. Len(Itoa(i)) <= Len(Itoa(j))
        BY <1>1, <4>3
      <4>5. Itoa(k) = Append(Itoa(i), 48 + (k % 10)) /\ Itoa(m) = Append(Itoa(j), 48 + (m % 10))
        <5>1. m >= 10 /\ k \in Nat
          BY <3>3
        <5>2. Itoa(k) = Append(Itoa(i), 48 + (k % 10))
          BY <3>3, <4>1, <5>1, ItoaUnfold
        <5>3. Itoa(m) = Append(Itoa(j), 48 + (m % 10))
          BY <4>2, <5>1, ItoaUnfold
        <5> QED
          BY <5>2, <5>3
      <4>6. Itoa(i) \in Seq(Nat) /\ Itoa(j) \in Seq(Nat)
        BY <4>3, ItoaUnfold
      <4>7. Len(Itoa(k)) = Len(Itoa(i)) + 1 /\ Len(Itoa(m)) = Len(Itoa(j)) + 1
        BY <4>5, <4>6
      <4>8. Len(Itoa(i)) \in Nat /\ Len(Itoa(j)) \in Nat
        BY <4>6
      <4> QED
        BY <4>4, <4>7, <4>8
    <3> QED
      BY <3>2, <3>3
  <2> QED
    BY <2>1
<1>2. \A m \in Nat : m \in T
  <2> HIDE DEF T
  <2> QED
    BY <1>1, Induction
<1> QED
  BY <1>2

\* A text of as many digits as the numeral of n is less than ten times n.
LEMMA DecimalBound ==
    ASSUME NEW n \in Nat \ {0}, NEW s \in Seq(Digits), Len(s) = Len(Itoa(n))
    PROVE  Decimal(s) \in 0..(10 * n - 1)
<1> DEFINE T == {m \in Nat : m # 0 => \A t \in Seq(Digits) :
                    Len(t) = Len(Itoa(m)) => Decimal(t) \in 0..(10 * m - 1)}
<1>1. ASSUME NEW m \in Nat, \A j \in 0..(m - 1) : j \in T PROVE m \in T
  <2>1. ASSUME m # 0, NEW t \in Seq(Digits), Len(t) = Len(Itoa(m))
        PROVE  Decimal(t) \in 0..(10 * m - 1)
    <3>1. t # <<>> /\ Len(t) \in Nat \ {0}
      BY <2>1, ItoaType
    <3>2. PICK u \in Seq(Digits), c \in Digits : t = Append(u, c)
      BY <3>1, SequenceEmptyOrAppend
    <3>3. u \in Seq(Nat) /\ c \in Nat /\ c - 48 \in 0..9
      <4>1. Digits \subseteq Nat /\ c \in Nat /\ c - 48 \in 0..9
        BY <3>2 DEF Digits
      <4> QED
        BY <3>2, <4>1, SeqMonotonic
    <3>4. PICK v \in Int : v = Decimal(u)
      BY <3>3, DecimalAppend
    <3>5. Decimal(t) = 10 * v + (c - 48)
      BY <3>2, <3>3, <3>4, DecimalAppend
    <3>9. PICK lu \in Nat : lu = Len(u)
      BY <3>2
    <3>6. lu + 1 = Len(Itoa(m))
      <4>1. Len(t) = lu + 1
        BY <3>2, <3>9
      <4> QED
        BY <2>1, <4>1
    <3>7. CASE m < 10
      <4>1. PICK d : d = 48 + m
        OBVIOUS
      <4>2. Itoa(m) = <<d>>
        BY <3>7, <4>1, ItoaUnfold
      <4>3. Len(Itoa(m)) = 1
        BY <4>2
      <4>4. Len(u) = 0
        BY <3>6, <3>9, <4>3
      <4>5. v = 0
        BY <3>2, <3>4, <4>4, DecimalEmpty
      <4> QED
        BY <2>1, <3>3, <3>5, <4>5
    <3>8. CASE m >= 10
      <4>1. PICK j : j = m \div 10
        OBVIOUS
      <4>2. j \in 0..(m - 1) /\ j # 0 /\ 10 * j <= m /\ j \in Nat
        BY <3>8, <4>1
      <4>3. Itoa(m) = Append(Itoa(j), 48 + (m % 10)) /\ Itoa(j) \in Seq(Nat)
        BY <3>8, <4>1, <4>2, ItoaUnfold
      <4>4. Len(Itoa(m)) = Len(Itoa(j)) + 1 /\ Len(Itoa(j)) \in Nat
        BY <4>3
      <4>5. Len(u) = Len(Itoa(j))
        BY <3>6, <3>9, <4>4
      <4>6. v \in 0..(10 * j - 1)
        BY <1>1, <3>2, <3>4, <4>2, <4>5
      <4> QED
        BY <3>3, <3>5, <4>2, <4>6
    <3> QED
      BY <3>7, <3>8
  <2> QED
    BY <2>1
<1>2. \A m \in Nat : m \in T
  <2> HIDE DEF T
  <2> QED
    BY <1>1, Induction
<1> QED
  BY <1>2


\* Packet ids are accepted as they are written, and nothing else is taken for one.
LEMMA IdentOfNumber ==
    ASSUME NEW s \in Seq(Nat)
    PROVE  /\ IdentOf(s) \in 0..MaxIdent
           /\ IdentOf(s) # 0 => AllIn(s, Digits) /\ Decimal(s) = IdentOf(s)
<1>1. PICK n \in Int : n = Decimal(s)
  BY DecimalAppend
<1>2. PICK v : v = (IF n > LongMax THEN LongMax ELSE n) % Word
  OBVIOUS
<1>3. IdentOf(s) = IF AllIn(s, Digits) /\ v \in 1..MaxIdent /\ Len(Itoa(v)) = Len(s) THEN v ELSE 0
  BY <1>1, <1>2 DEF IdentOf
<1>4. MaxIdent \in Nat /\ Word \in Nat /\ LongMax \in Nat /\ 10 * MaxIdent <= Word /\ 10 * MaxIdent <= LongMax
  BY IdentAssumption
<1>5. ASSUME AllIn(s, Digits), v \in 1..MaxIdent, Len(Itoa(v)) = Len(s) PROVE n = v
  <2>1. s \in Seq(Digits)
    <3>1. \A i \in 1..Len(s) : s[i] \in Digits
      BY <1>5 DEF AllIn
    <3>2. s = [i \in 1..Len(s) |-> s[i]] /\ Len(s) \in Nat
      OBVIOUS
    <3> QED
      BY <3>1, <3>2
  <2>2. v \in Nat \ {0} /\ v <= MaxIdent
    BY <1>4, <1>5
  <2>3. n \in 0..(10 * v - 1)
    BY <1>1, <1>5, <2>1, <2>2, DecimalBound
  <2>4. n \in Nat /\ n < Word /\ n <= LongMax
    BY <1>4, <2>2, <2>3
  <2>5. v = n % Word
    BY <1>2, <1>4, <2>4
  <2> QED
    BY <1>4, <2>4, <2>5
<1> QED
  BY <1>1, <1>3, <1>4, <1>5

LEMMA IdentOfItoa ==
    ASSUME NEW n \in 1..MaxIdent
    PROVE  IdentOf(Itoa(n)) = n /\ IsNumeral(Itoa(n)) /\ IsParam(Itoa(n))
<1>1. PICK s \in Seq(Digits) : s = Itoa(n) /\ s \in Seq(Nat) /\ Len(s) \in Nat \ {0}
  BY ItoaType, IdentAssumption
<1>2. MaxIdent \in Nat /\ Word \in Nat /\ LongMax \in Nat /\ 10 * MaxIdent <= Word /\ 10 * MaxIdent <= LongMax
  BY IdentAssumption
<1>3. Decimal(s) = n /\ n \in Nat
  BY <1>1, <1>2, DecimalOfItoa
<1>4. (IF n > LongMax THEN LongMax ELSE n) % Word = n
  <2>1. n <= LongMax /\ n < Word
    BY <1>2
  <2> QED
    BY <1>2, <2>1
<1>5. AllIn(s, Digits)
  BY <1>1 DEF AllIn
<1>6. IdentOf(s) = n
  BY <1>1, <1>3, <1>4, <1>5 DEF IdentOf
<1>7. s[1] \in Digits
  BY <1>1
<1> QED
  BY <1>1, <1>2, <1>6, <1>7 DEF IsNumeral, IsParam

-----------------------------------------------------------------------------
(* Parts of texts *)

LEMMA IndexOfFirst ==
    ASSUME NEW c, NEW s \in Seq(Nat)
    PROVE  /\ IndexOf(c, s) \in 0..Len(s)
           /\ IndexOf(c, s) # 0 => s[IndexOf(c, s)] = c
           /\ \A i \in 1..Len(s) : s[i] = c => IndexOf(c, s) # 0 /\ IndexOf(c, s) <= i
<1> DEFINE I == {i \in 1..Len(s) : s[i] = c}
<1>1. IndexOf(c, s) = IF I # {} THEN Min(I) ELSE 0
  BY DEF IndexOf, SelectInSeq
<1>2. Len(s) \in Nat /\ I \in SUBSET Nat
  OBVIOUS
<1>3. I # {} => Min(I) \in I /\ \A k \in I : Min(I) <= k
  <2> HIDE DEF I
  <2> QED
    BY <1>2, Least DEF Min
<1>4. CASE I = {}
  BY <1>1, <1>2, <1>4
<1>5. CASE I # {}
  <2>1. PICK m : m = IndexOf(c, s)
    OBVIOUS
  <2>2. m \in I /\ \A k \in I : m <= k
    BY <1>1, <1>3, <1>5, <2>1
  <2>3. m \in 1..Len(s) /\ s[m] = c
    BY <2>2
  <2>4. \A i \in 1..Len(s) : s[i] = c => m <= i
    BY <2>2
  <2> QED
    BY <1>2, <2>1, <2>3, <2>4
<1> QED
  BY <1>4, <1>5

LEMMA IndexOfIs ==
    ASSUME NEW c, NEW s \in Seq(Nat), NEW i \in 1..Len(s), s[i] = c,
           \A j \in 1..(i - 1) : s[j] # c
    PROVE  IndexOf(c, s) = i
<1>1. PICK k : k = IndexOf(c, s)
  OBVIOUS
<1>2. k \in 1..Len(s) /\ k <= i /\ s[k] = c /\ Len(s) \in Nat
  BY <1>1, IndexOfFirst
<1> QED
  BY <1>1, <1>2

LEMMA IndexOfNone ==
    ASSUME NEW c, NEW s \in Seq(Nat), \A j \in 1..Len(s) : s[j] # c
    PROVE  IndexOf(c, s) = 0
  BY IndexOfFirst

LEMMA Part ==
    ASSUME NEW s \in Seq(Nat), NEW m \in 1..(Len(s) + 1), NEW n \in (m - 1)..Len(s)
    PROVE  /\ SubSeq(s, m, n) \in Seq(Nat)
           /\ Len(SubSeq(s, m, n)) = n - m + 1
           /\ \A i \in 1..(n - m + 1) : SubSeq(s, m, n)[i] = s[m + i - 1]
<1>1. m \in Int /\ n \in Int /\ Len(s) \in Nat
  OBVIOUS
<1>2. \A i \in m..n : s[i] \in Nat
  BY <1>1
<1> QED
  BY <1>1, <1>2, SubSeqProperties

LEMMA BeforeType ==
    ASSUME NEW c, NEW s \in Seq(Nat), NEW t, t = Before(c, s)
    PROVE  /\ t \in Seq(Nat) /\ Len(t) \in 0..Len(s)
           /\ \A i \in 1..Len(t) : t[i] = s[i] /\ t[i] # c
           /\ IndexOf(c, s) = 0 => t = s
           /\ IndexOf(c, s) # 0 => Len(t) = IndexOf(c, s) - 1
<1>1. PICK k : k = IndexOf(c, s)
  OBVIOUS
<1>2. k \in 0..Len(s) /\ Len(s) \in Nat /\ \A i \in 1..Len(s) : s[i] = c => k # 0 /\ k <= i
  BY <1>1, IndexOfFirst
<1>3. CASE k = 0
  <2>1. t = s
    BY <1>1, <1>3 DEF Before
  <2> QED
    BY <1>1, <1>2, <1>3, <2>1
<1>4. CASE k # 0
  <2>1. t = SubSeq(s, 1, k - 1)
    BY <1>1, <1>4 DEF Before
  <2>2. t \in Seq(Nat) /\ Len(t) = k - 1 /\ \A i \in 1..(k - 1) : t[i] = s[i]
    BY <1>2, <1>4, <2>1, Part
  <2> QED
    BY <1>1, <1>2, <1>4, <2>2
<1> QED
  BY <1>3, <1>4

LEMMA AfterType ==
    ASSUME NEW c, NEW s \in Seq(Nat), NEW t, t = After(c, s)
    PROVE  /\ t \in Seq(Nat)
           /\ IndexOf(c, s) = 0 => t = <<>>
           /\ IndexOf(c, s) # 0 =>
                 /\ Len(t) = Len(s) - IndexOf(c, s)
                 /\ \A i \in 1..Len(t) : t[i] = s[IndexOf(c, s) + i]
<1>1. PICK k : k = IndexOf(c, s)
  OBVIOUS
<1>2. k \in 0..Len(s) /\ Len(s) \in Nat
  BY <1>1, IndexOfFirst
<1>3. CASE k = 0
  <2>1. t = <<>>
    BY <1>1, <1>3 DEF After
  <2> QED
    BY <1>1, <1>3, <2>1
<1>4. CASE k # 0
  <2>1. t = SubSeq(s, k + 1, Len(s))
    BY <1>1, <1>4 DEF After
  <2>2. /\ t \in Seq(Nat) /\ Len(t) = Len(s) - (k + 1) + 1
        /\ \A i \in 1..(Len(s) - (k + 1) + 1) : t[i] = s[(k + 1) + i - 1]
    BY <1>2, <1>4, <2>1, Part
  <2> QED
    BY <1>1, <1>2, <1>4, <2>2
<1> QED
  BY <1>3, <1>4

LEMMA CutType ==
    ASSUME NEW s \in Seq(Nat), NEW n \in 0..Len(s), NEW t, t = Cut(n, s)
    PROVE  /\ t \in Seq(Nat) /\ Len(t) = Len(s) - n
           /\ \A i \in 1..Len(t) : t[i] = s[n + i]
<1>1. Len(s) \in Nat /\ n + 1 \in 1..(Len(s) + 1) /\ Len(s) \in ((n + 1) - 1)..Len(s)
  OBVIOUS
<1>2. t = SubSeq(s, n + 1, Len(s))
  BY DEF Cut
<1>3. /\ t \in Seq(Nat) /\ Len(t) = Len(s) - (n + 1) + 1
      /\ \A i \in 1..(Len(s) - (n + 1) + 1) : t[i] = s[(n + 1) + i - 1]
  BY <1>1, <1>2, Part
<1> QED
  BY <1>1, <1>3


Without(c, s) == \A i \in 1..Len(s) : s[i] # c

\* t is s, c and u.
Joins(t, s, c, u) ==
    /\ t \in Seq(Nat) /\ Len(t) = Len(s) + 1 + Len(u)
    /\ \A i \in 1..Len(s) : t[i] = s[i]
    /\ t[Len(s) + 1] = c
    /\ \A i \in 1..Len(u) : t[Len(s) + 1 + i] = u[i]

LEMMA JoinOfThree ==
    ASSUME NEW s \in Seq(Nat), NEW c \in Nat, NEW u \in Seq(Nat)
    PROVE  Joins(s \o <<c>> \o u, s, c, u)
<1>1. PICK v : v = s \o <<c>>
  OBVIOUS
<1>2. v = Append(s, c)
  BY <1>1, AppendIsConcat
<1>3. /\ v \in Seq(Nat) /\ Len(v) = Len(s) + 1 /\ v[Len(s) + 1] = c
      /\ \A i \in 1..Len(s) : v[i] = s[i]
  BY <1>2, AppendProperties
<1>4. PICK t : t = v \o u
  OBVIOUS
<1>5. /\ t \in Seq(Nat) /\ Len(t) = Len(v) + Len(u)
      /\ \A i \in 1..(Len(v) + Len(u)) : t[i] = IF i <= Len(v) THEN v[i] ELSE u[i - Len(v)]
  <2>1. v \in Seq(Nat)
    BY <1>3
  <2> QED
    BY <1>4, <2>1, ConcatProperties
<1>6. Len(s) \in Nat /\ Len(u) \in Nat /\ Len(t) = Len(s) + 1 + Len(u)
  BY <1>3, <1>5
<1>7. ASSUME NEW i \in 1..Len(s) PROVE t[i] = s[i]
  BY <1>3, <1>5, <1>6
<1>8. t[Len(s) + 1] = c
  BY <1>3, <1>5, <1>6
<1>9. ASSUME NEW i \in 1..Len(u) PROVE t[Len(s) + 1 + i] = u[i]
  <2>1. PICK k \in Nat : k = Len(s) + 1 + i
    BY <1>6
  <2>2. k \in 1..(Len(v) + Len(u)) /\ ~(k <= Len(v)) /\ k - Len(v) = i
    BY <1>3, <1>6, <2>1
  <2> QED
    BY <1>5, <2>1, <2>2
<1> QED
  BY <1>1, <1>4, <1>5, <1>6, <1>7, <1>8, <1>9 DEF Joins

LEMMA Around ==
    ASSUME NEW s \in Seq(Nat), NEW c \in Nat, NEW u \in Seq(Nat), NEW t, Joins(t, s, c, u),
           Without(c, s)
    PROVE  IndexOf(c, t) = Len(s) + 1 /\ Before(c, t) = s /\ After(c, t) = u
<1>1. Len(s) \in Nat /\ Len(u) \in Nat /\ t \in Seq(Nat) /\ Len(t) = Len(s) + 1 + Len(u)
  BY DEF Joins
<1>2. IndexOf(c, t) = Len(s) + 1
  <2>1. Len(s) + 1 \in 1..Len(t) /\ t[Len(s) + 1] = c
    BY <1>1 DEF Joins
  <2>2. ASSUME NEW j \in 1..((Len(s) + 1) - 1) PROVE t[j] # c
    <3>1. j \in 1..Len(s)
      BY <1>1
    <3> QED
      BY <3>1 DEF Joins, Without
  <2> QED
    BY <1>1, <2>1, <2>2, IndexOfIs
<1>3. PICK b : b = Before(c, t)
  OBVIOUS
<1>4. b \in Seq(Nat) /\ Len(b) = Len(s) /\ \A i \in 1..Len(b) : b[i] = t[i]
  <2>1. PICK k : k = IndexOf(c, t)
    OBVIOUS
  <2>4. k = Len(s) + 1
    BY <1>2, <2>1
  <2>3. t \in Seq(Nat) /\ k # 0
    BY <1>1, <2>4
  <2>2. b \in Seq(Nat) /\ Len(b) = k - 1 /\ \A i \in 1..Len(b) : b[i] = t[i]
    BY <1>3, <2>1, <2>3, BeforeType
  <2> QED
    BY <1>1, <2>4, <2>2
<1>5. b = s
  BY <1>4, SeqEqual DEF Joins
<1>6. PICK a : a = After(c, t)
  OBVIOUS
<1>7. a \in Seq(Nat) /\ Len(a) = Len(u) /\ \A i \in 1..Len(a) : a[i] = t[Len(s) + 1 + i]
  <2>1. PICK k : k = IndexOf(c, t)
    OBVIOUS
  <2>4. k = Len(s) + 1
    BY <1>2, <2>1
  <2>3. t \in Seq(Nat) /\ k # 0
    BY <1>1, <2>4
  <2>2. a \in Seq(Nat) /\ Len(a) = Len(t) - k /\ \A i \in 1..Len(a) : a[i] = t[k + i]
    BY <1>6, <2>1, <2>3, AfterType
  <2> QED
    BY <1>1, <2>4, <2>2
<1>8. a = u
  BY <1>7, SeqEqual DEF Joins
<1> QED
  BY <1>2, <1>3, <1>5, <1>6, <1>8

LEMMA NoneThere ==
    ASSUME NEW s \in Seq(Nat), NEW c, Without(c, s)
    PROVE  IndexOf(c, s) = 0 /\ Before(c, s) = s /\ After(c, s) = <<>>
<1>1. IndexOf(c, s) = 0
  BY IndexOfNone DEF Without
<1> QED
  BY <1>1 DEF Before, After

-----------------------------------------------------------------------------
(* Pieces *)

\* t is the piece of s from i to the next comma.
IsPieceAt(s, i, t) ==
    /\ t \in Seq(Nat) /\ Len(t) \in 0..(Len(s) - i + 1)
    /\ \A j \in 1..Len(t) : t[j] = s[i - 1 + j] /\ t[j] # Comma
    /\ Len(t) # Len(s) - i + 1 => s[i + Len(t)] = Comma

LEMMA PieceType ==
    ASSUME NEW s \in Seq(Nat), NEW i \in 1..Len(s)
    PROVE  IsPieceAt(s, i, PieceAt(s, i))
<1>1. PICK u : u = Cut(i - 1, s)
  OBVIOUS
<1>2. PICK t : t = Before(Comma, u)
  OBVIOUS
<1>3. Len(s) \in Nat /\ i - 1 \in 0..Len(s)
  OBVIOUS
<1>4. u \in Seq(Nat) /\ Len(u) = Len(s) - (i - 1) /\ \A j \in 1..Len(u) : u[j] = s[i - 1 + j]
  BY <1>1, <1>3, CutType
<1>5. PICK k : k = IndexOf(Comma, u)
  OBVIOUS
<1>6. /\ t \in Seq(Nat) /\ Len(t) \in 0..Len(u)
      /\ \A j \in 1..Len(t) : t[j] = u[j] /\ t[j] # Comma
      /\ k = 0 => t = u
      /\ k # 0 => Len(t) = k - 1
  BY <1>2, <1>4, <1>5, BeforeType
<1>7. k \in 0..Len(u) /\ (k # 0 => u[k] = Comma)
  BY <1>4, <1>5, IndexOfFirst
<1>8. Len(t) \in Nat /\ Len(u) = Len(s) - i + 1
  BY <1>3, <1>4, <1>6
<1>9. \A j \in 1..Len(t) : t[j] = s[i - 1 + j] /\ t[j] # Comma
  BY <1>4, <1>6, <1>8
<1>10. Len(t) # Len(u) => s[i + Len(t)] = Comma
  <2> SUFFICES ASSUME Len(t) # Len(u) PROVE s[i + Len(t)] = Comma
    OBVIOUS
  <2>1. k # 0 /\ k \in 1..Len(u) /\ k = Len(t) + 1
    BY <1>6, <1>7
  <2>2. u[k] = s[i - 1 + k] /\ i - 1 + k = i + Len(t)
    BY <1>3, <1>4, <1>8, <2>1
  <2> QED
    BY <1>7, <2>1, <2>2
<1> QED
  BY <1>1, <1>2, <1>6, <1>8, <1>9, <1>10 DEF IsPieceAt, PieceAt

LEMMA PieceUnique ==
    ASSUME NEW s \in Seq(Nat), NEW i \in 1..Len(s), NEW t, IsPieceAt(s, i, t)
    PROVE  PieceAt(s, i) = t
<1>1. PICK p : p = PieceAt(s, i)
  OBVIOUS
<1>2. IsPieceAt(s, i, p)
  BY <1>1, PieceType
<1>3. PICK m \in Nat : m = Len(t)
  BY DEF IsPieceAt
<1>4. PICK n \in Nat : n = Len(p)
  BY <1>2 DEF IsPieceAt
<1>5. Len(s) \in Nat /\ m <= Len(s) - i + 1 /\ n <= Len(s) - i + 1
  BY <1>2, <1>3, <1>4 DEF IsPieceAt
<1>6. ~(m < n)
  <2> SUFFICES ASSUME m < n PROVE FALSE
    OBVIOUS
  <2>1. s[i + m] = Comma
    BY <1>3, <1>5 DEF IsPieceAt
  <2>2. m + 1 \in 1..Len(p) /\ i - 1 + (m + 1) = i + m
    BY <1>4
  <2>3. p[m + 1] = s[i - 1 + (m + 1)] /\ p[m + 1] # Comma
    BY <1>2, <2>2 DEF IsPieceAt
  <2> QED
    BY <2>1, <2>2, <2>3
<1>7. ~(n < m)
  <2> SUFFICES ASSUME n < m PROVE FALSE
    OBVIOUS
  <2>1. s[i + n] = Comma
    BY <1>2, <1>4, <1>5 DEF IsPieceAt
  <2>2. n + 1 \in 1..Len(t) /\ i - 1 + (n + 1) = i + n
    BY <1>3
  <2>3. t[n + 1] = s[i - 1 + (n + 1)] /\ t[n + 1] # Comma
    BY <2>2 DEF IsPieceAt
  <2> QED
    BY <2>1, <2>2, <2>3
<1>8. Len(p) = Len(t)
  BY <1>3, <1>4, <1>6, <1>7
<1>9. p \in Seq(Nat) /\ t \in Seq(Nat) /\ \A j \in 1..Len(p) : p[j] = t[j]
  BY <1>2, <1>8 DEF IsPieceAt
<1> QED
  BY <1>1, <1>8, <1>9, SeqEqual


-----------------------------------------------------------------------------
(* Keys and values *)

\* A key and its value as one piece.
Item(k, v) == k \o IF v = Naked THEN <<>> ELSE <<Equal>> \o v

LEMMA Alphabet ==
    /\ \A c \in Digits \cup Upper :
          c \in Nat /\ c \notin Lower /\ c \notin {Comma, Space, Equal, Dash, Less, Colon}
    /\ \A c \in Lower : c \in Nat /\ c - 32 \in Upper
    /\ Dash \notin Lower /\ \A c \in Digits : c \notin Upper
  BY DEF Digits, Upper, Lower, Comma, Space, Equal, Dash, Less, Colon

LEMMA AllInSeq ==
    ASSUME NEW s \in Seq(Nat), NEW S
    PROVE  AllIn(s, S) <=> \A i \in 1..Len(s) : s[i] \in S
  BY DEF AllIn

LEMMA UppercaseType ==
    ASSUME NEW s \in Seq(Nat)
    PROVE  /\ Uppercase(s) \in Seq(Nat) /\ Len(Uppercase(s)) = Len(s)
           /\ \A i \in 1..Len(s) : Uppercase(s)[i] = IF s[i] \in Lower THEN s[i] - 32 ELSE s[i]
           /\ Uppercase(Uppercase(s)) = Uppercase(s)
<1>1. Len(s) \in Nat /\ DOMAIN s = 1..Len(s) /\ \A i \in 1..Len(s) : s[i] \in Nat
  OBVIOUS
<1>2. PICK t : t = Uppercase(s)
  OBVIOUS
<1>3. t = [i \in 1..Len(s) |-> IF s[i] \in Lower THEN s[i] - 32 ELSE s[i]]
  BY <1>1, <1>2 DEF Uppercase
<1>4. \A i \in 1..Len(s) : t[i] \in Nat /\ t[i] \notin Lower
  <2> TAKE i \in 1..Len(s)
  <2>1. PICK c \in Nat : c = s[i]
    BY <1>1
  <2>2. t[i] = IF c \in Lower THEN c - 32 ELSE c
    BY <1>3, <2>1
  <2>3. CASE c \in Lower
    BY <2>2, <2>3, Alphabet
  <2>4. CASE c \notin Lower
    BY <2>1, <2>2, <2>4
  <2> QED
    BY <2>3, <2>4
<1>5. t \in Seq(Nat) /\ Len(t) = Len(s) /\ DOMAIN t = 1..Len(s)
  <2>1. t = [i \in 1..Len(s) |-> t[i]]
    BY <1>3
  <2> QED
    BY <1>1, <1>4, <2>1
<1>6. Uppercase(t) = t
  <2>1. Uppercase(t) = [i \in 1..Len(s) |-> IF t[i] \in Lower THEN t[i] - 32 ELSE t[i]]
    BY <1>5 DEF Uppercase
  <2>2. t = [i \in 1..Len(s) |-> t[i]]
    BY <1>3
  <2> QED
    BY <1>4, <2>1, <2>2
<1> QED
  BY <1>2, <1>3, <1>5, <1>6

LEMMA UppercaseSame ==
    ASSUME NEW s \in Seq(Nat), AllIn(s, Digits \cup Upper \cup {Dash})
    PROVE  Uppercase(s) = s
<1>1. Len(s) \in Nat /\ DOMAIN s = 1..Len(s) /\ s = [i \in 1..Len(s) |-> s[i]]
  OBVIOUS
<1>2. \A i \in 1..Len(s) : s[i] \notin Lower
  BY <1>1, AllInSeq, Alphabet
<1>3. Uppercase(s) = [i \in 1..Len(s) |-> IF s[i] \in Lower THEN s[i] - 32 ELSE s[i]]
  BY <1>1 DEF Uppercase
<1> QED
  BY <1>1, <1>2, <1>3

\* What is written of a key and its value is read as such.
LEMMA ItemIsRead ==
    ASSUME NEW k, NEW v, IsKey(k), IsValue(v), NEW t, t = Item(k, v)
    PROVE  /\ t \in Seq(Nat) /\ Len(t) \in Nat \ {0} /\ t[1] \in Upper
           /\ Without(Comma, t) /\ Without(Space, t)
           /\ IsParam(t) /\ ~IsNumeral(t)
           /\ KeyOf(t) = k /\ ValueOf(t) = v
<1>1. k \in Seq(Nat) /\ Len(k) \in Nat \ {0} /\ k[1] \in Upper /\ AllIn(k, Digits \cup Upper)
  BY DEF IsKey
<1>2. \A i \in 1..Len(k) : k[i] \in Digits \cup Upper
  BY <1>1, AllInSeq
<1>3. Without(Comma, k) /\ Without(Space, k) /\ Without(Equal, k)
  BY <1>2, Alphabet DEF Without
<1>4. Uppercase(k) = k
  <2>1. AllIn(k, Digits \cup Upper \cup {Dash})
    BY <1>1 DEF AllIn
  <2> QED
    BY <1>1, <2>1, UppercaseSame
<1>5. AllIn(k, Digits \cup Upper \cup Lower)
  BY <1>1 DEF AllIn
<1>6. \A c \in Upper : c \notin Digits
  BY DEF Upper, Digits
<1>7. CASE v = Naked
  <2>1. t = k
    BY <1>1, <1>7, ConcatEmptySeq DEF Item
  <2>2. IndexOf(Equal, k) = 0 /\ Before(Equal, k) = k /\ After(Equal, k) = <<>>
    BY <1>1, <1>3, NoneThere
  <2>3. AllIn(<<>>, Free)
    BY DEF AllIn
  <2>4. IsSymbol(k)
    BY <1>1, <1>5, <2>2, <2>3 DEF IsSymbol, Free
  <2>5. ~IsNumeral(k)
    BY <1>1, <1>6 DEF IsNumeral
  <2>6. IsParam(k)
    BY <1>1, <2>4, <2>5 DEF IsParam
  <2>7. KeyOf(k) = k /\ ValueOf(k) = v
    BY <1>4, <1>7, <2>2 DEF KeyOf, ValueOf
  <2> QED
    BY <1>1, <1>3, <2>1, <2>5, <2>6, <2>7
<1>8. CASE v # Naked
  <2>1. v \in Seq(Nat) /\ AllIn(v, Free) /\ Len(v) \in Nat
    BY <1>8 DEF IsValue
  <2>2. Equal \in Nat
    BY DEF Equal
  <2>3. t = k \o <<Equal>> \o v
    <3>1. t = k \o (<<Equal>> \o v)
      BY <1>8 DEF Item
    <3>2. <<Equal>> \in Seq(Nat)
      BY <2>2
    <3> QED
      BY <1>1, <2>1, <3>1, <3>2, ConcatAssociative
  <2>4. Joins(t, k, Equal, v)
    BY <1>1, <2>1, <2>2, <2>3, JoinOfThree
  <2>5. IndexOf(Equal, t) = Len(k) + 1 /\ Before(Equal, t) = k /\ After(Equal, t) = v
    BY <1>1, <1>3, <2>1, <2>2, <2>4, Around
  <2>6. t \in Seq(Nat) /\ Len(t) \in Nat \ {0} /\ t[1] = k[1]
    BY <1>1, <2>1, <2>4 DEF Joins
  <2>7. ASSUME NEW c \in {Comma, Space} PROVE Without(c, t)
    <3>1. Without(c, k)
      BY <1>3
    <3>2. Without(c, v)
      BY <2>1, AllInSeq DEF Without, Free
    <3>3. c # Equal
      BY DEF Comma, Space, Equal
    <3>4. ASSUME NEW i \in 1..Len(t) PROVE t[i] # c
      <4>1. CASE i \in 1..Len(k)
        BY <2>4, <3>1, <4>1 DEF Joins, Without
      <4>2. CASE i = Len(k) + 1
        BY <2>4, <3>3, <4>2 DEF Joins
      <4>3. CASE i > Len(k) + 1
        <5>1. PICK j : j = i - Len(k) - 1
          OBVIOUS
        <5>2. j \in 1..Len(v) /\ i = Len(k) + 1 + j
          BY <1>1, <2>1, <2>4, <4>3, <5>1 DEF Joins
        <5> QED
          BY <2>4, <3>2, <5>2 DEF Joins, Without
      <4> QED
        BY <1>1, <4>1, <4>2, <4>3
    <3> QED
      BY <3>4 DEF Without
  <2>8. IsSymbol(t)
    BY <1>1, <1>5, <2>1, <2>5, <2>6 DEF IsSymbol, Free
  <2>9. ~IsNumeral(t)
    BY <1>1, <1>6, <2>6 DEF IsNumeral
  <2>10. IsParam(t)
    BY <2>6, <2>8, <2>9 DEF IsParam
  <2>11. KeyOf(t) = k /\ ValueOf(t) = v
    <3>1. IndexOf(Equal, t) # 0
      BY <1>1, <2>5
    <3> QED
      BY <1>4, <2>5, <3>1 DEF KeyOf, ValueOf
  <2> QED
    BY <1>1, <2>6, <2>7, <2>9, <2>10, <2>11
<1> QED
  BY <1>7, <1>8

LEMMA WrittenIsItem ==
    ASSUME NEW s \in Seq(Nat), NEW k, NEW v, IsKey(k), IsValue(v)
    PROVE  Joins(s \o Written(k, v), s, Comma, Item(k, v))
<1>1. PICK r : r = IF v = Naked THEN <<>> ELSE <<Equal>> \o v
  OBVIOUS
<1>2. r \in Seq(Nat)
  <2>1. CASE v = Naked
    BY <1>1, <2>1
  <2>2. CASE v # Naked
    <3>1. <<Equal>> \in Seq(Nat) /\ v \in Seq(Nat)
      BY <2>2 DEF IsValue, Equal
    <3> QED
      BY <1>1, <2>2, <3>1, ConcatProperties
  <2> QED
    BY <2>1, <2>2
<1>3. k \in Seq(Nat) /\ Comma \in Nat /\ <<Comma>> \in Seq(Nat)
  BY DEF IsKey, Comma
<1>4. Written(k, v) = <<Comma>> \o k \o r /\ Item(k, v) = k \o r
  BY <1>1 DEF Written, Item
<1>5. Item(k, v) \in Seq(Nat) /\ <<Comma>> \o k \o r = <<Comma>> \o (k \o r)
  BY <1>2, <1>3, <1>4, ConcatProperties, ConcatAssociative
<1>6. s \o Written(k, v) = s \o (<<Comma>> \o Item(k, v))
  BY <1>4, <1>5
<1>7. s \o (<<Comma>> \o Item(k, v)) = s \o <<Comma>> \o Item(k, v)
  BY <1>3, <1>5, ConcatAssociative
<1> QED
  BY <1>3, <1>5, <1>6, <1>7, JoinOfThree


-----------------------------------------------------------------------------
(* Parameter lists *)

Valid(s)    == \A i \in Starts(s) : IsParam(PieceAt(s, i))
Numerals(s) == {i \in Starts(s) : IsNumeral(PieceAt(s, i))}
Keyed(s)    == Starts(s) \ Numerals(s)
Of(s, k)    == {i \in Keyed(s) : KeyOf(PieceAt(s, i)) = k}
KeysOf(s)   == {KeyOf(PieceAt(s, i)) : i \in Keyed(s)}
ItemsOf(s)  == [k \in KeysOf(s) |-> ValueOf(PieceAt(s, Max(Of(s, k))))]

LEMMA ParamsOfParts ==
    ASSUME NEW s
    PROVE  ParamsOf(s) = IF ~Valid(s) THEN Invalid
                         ELSE [valid |-> TRUE,
                               ident |-> IF Numerals(s) = {} THEN 0
                                         ELSE IdentOf(PieceAt(s, Max(Numerals(s)))),
                               items |-> ItemsOf(s)]
  BY DEF ParamsOf, Valid, Numerals, Keyed, Of, KeysOf, ItemsOf

LEMMA Greatest ==
    ASSUME NEW n \in Nat, NEW T \in SUBSET (1..n), T # {}
    PROVE  Max(T) \in T /\ \A k \in T : k <= Max(T)
<1> DEFINE U == {m \in Nat : m <= n /\ n - m \in T}
<1>1. PICK t : t \in T
  OBVIOUS
<1>2. PICK u \in Nat : u = n - t
  BY <1>1
<1>3. t = n - u /\ u <= n
  BY <1>1, <1>2
<1>4. u \in U
  BY <1>1, <1>3
<1>5. PICK m \in U : \A k \in U : m <= k
  <2>1. U \in SUBSET Nat /\ U # {}
    BY <1>4
  <2> HIDE DEF U
  <2> QED
    BY <2>1, Least
<1>6. m \in Nat /\ n - m \in T
  BY <1>5
<1>7. ASSUME NEW k \in T PROVE k <= n - m
  <2>1. PICK j \in Nat : j = n - k
    OBVIOUS
  <2>2. n - j = k /\ j <= n
    BY <2>1
  <2>3. j \in U
    BY <2>2
  <2>4. m <= j
    BY <1>5, <2>3
  <2> QED
    BY <1>6, <2>2, <2>4
<1>8. \E x \in T : \A y \in T : y <= x
  BY <1>6, <1>7
<1> HIDE DEF U
<1>9. \E x \in T : \A y \in T : x >= y
  BY <1>8
<1> QED
  BY <1>9 DEF Max

LEMMA GreatestIs ==
    ASSUME NEW n \in Nat, NEW T \in SUBSET (1..n), NEW m \in T, \A k \in T : k <= m
    PROVE  Max(T) = m
<1>1. Max(T) \in T /\ \A k \in T : k <= Max(T)
  BY Greatest
<1>2. PICK x : x = Max(T)
  OBVIOUS
<1>3. x \in 1..n /\ m \in 1..n /\ x <= m /\ m <= x
  BY <1>1, <1>2
<1> QED
  BY <1>2, <1>3

LEMMA StartsType ==
    ASSUME NEW s \in Seq(Nat)
    PROVE  Starts(s) \subseteq 1..Len(s) /\ IsFiniteSet(Starts(s)) /\ (Len(s) # 0 => 1 \in Starts(s))
<1>1. Len(s) \in Nat /\ Starts(s) \subseteq 1..Len(s)
  BY DEF Starts
<1>2. IsFiniteSet(1..Len(s))
  BY <1>1, FS_Interval
<1> QED
  BY <1>1, <1>2, FS_Subset DEF Starts

\* s reads as a list that does not end with a comma.
Closed(s) == s \in Seq(Nat) /\ Len(s) # 0 /\ Valid(s) /\ s[Len(s)] # Comma

\* One more piece.
LEMMA StartsSnoc ==
    ASSUME NEW s, Closed(s), NEW w \in Seq(Nat), Len(w) # 0, Without(Comma, w),
           NEW t, Joins(t, s, Comma, w)
    PROVE  /\ Starts(t) = Starts(s) \cup {Len(s) + 2}
           /\ \A i \in Starts(s) : PieceAt(t, i) = PieceAt(s, i)
           /\ PieceAt(t, Len(s) + 2) = w
<1>1. /\ s \in Seq(Nat) /\ Len(s) \in Nat \ {0} /\ s[Len(s)] # Comma
      /\ Len(w) \in Nat \ {0} /\ t \in Seq(Nat) /\ Len(t) = Len(s) + 1 + Len(w)
  BY DEF Closed, Joins
<1>2. ASSUME NEW i \in 1..Len(s) PROVE t[i] = s[i]
  BY DEF Joins
<1>3. t[Len(s) + 1] = Comma
  BY DEF Joins
<1>4. ASSUME NEW i \in 1..Len(w) PROVE t[Len(s) + 1 + i] = w[i] /\ w[i] # Comma
  BY DEF Joins, Without
<1>5. ASSUME NEW i \in 1..Len(t) PROVE i \in Starts(t) <=> i \in Starts(s) \cup {Len(s) + 2}
  <2>1. CASE i \in 1..Len(s)
    <3>1. i # 1 => i - 1 \in 1..Len(s)
      BY <1>1, <2>1
    <3>2. i # Len(s) + 2
      BY <1>1, <2>1
    <3> QED
      BY <1>2, <2>1, <3>1, <3>2 DEF Starts
  <2>2. CASE i = Len(s) + 1
    <3>1. i # 1 /\ i - 1 = Len(s) /\ i # Len(s) + 2 /\ i \notin 1..Len(s)
      BY <1>1, <2>2
    <3>2. t[i - 1] = s[Len(s)]
      BY <1>1, <1>2, <3>1
    <3> QED
      BY <1>1, <3>1, <3>2 DEF Starts
  <2>3. CASE i = Len(s) + 2
    <3>1. i - 1 = Len(s) + 1
      BY <1>1, <2>3
    <3> QED
      BY <1>3, <2>3, <3>1 DEF Starts
  <2>4. CASE i > Len(s) + 2
    <3>1. PICK j : j = i - 1 - (Len(s) + 1)
      OBVIOUS
    <3>2. j \in 1..Len(w) /\ i - 1 = Len(s) + 1 + j /\ i # 1 /\ i \notin 1..Len(s) /\ i # Len(s) + 2
      BY <1>1, <2>4, <3>1
    <3>3. t[i - 1] # Comma
      BY <1>4, <3>2
    <3> QED
      BY <3>2, <3>3 DEF Starts
  <2>5. \/ i \in 1..Len(s) \/ i = Len(s) + 1 \/ i = Len(s) + 2 \/ i > Len(s) + 2
    <3>1. PICK n \in Nat : n = Len(s)
      BY <1>1
    <3>2. i \in Nat /\ i >= 1
      BY <1>1
    <3>3. \/ i \in 1..n \/ i = n + 1 \/ i = n + 2 \/ i > n + 2
      BY <3>2
    <3> QED
      BY <3>1, <3>3
  <2> QED
    BY <2>1, <2>2, <2>3, <2>4, <2>5
<1>6. Starts(t) = Starts(s) \cup {Len(s) + 2}
  <2>1. Starts(t) \subseteq 1..Len(t) /\ Starts(s) \subseteq 1..Len(t) /\ Len(s) + 2 \in 1..Len(t)
    BY <1>1 DEF Starts
  <2> QED
    BY <1>5, <2>1
<1>7. ASSUME NEW i \in Starts(s) PROVE PieceAt(t, i) = PieceAt(s, i)
  <2>1. PICK p : p = PieceAt(s, i)
    OBVIOUS
  <2>2. i \in 1..Len(s)
    BY DEF Starts
  <2>3. IsPieceAt(s, i, p)
    BY <1>1, <2>1, <2>2, PieceType
  <2>4. p \in Seq(Nat) /\ Len(p) \in Nat /\ Len(p) <= Len(s) - i + 1
    BY <1>1, <2>2, <2>3 DEF IsPieceAt
  <2>5. ASSUME NEW j \in 1..Len(p) PROVE p[j] = t[i - 1 + j] /\ p[j] # Comma
    <3>1. i - 1 + j \in 1..Len(s)
      BY <1>1, <2>2, <2>4
    <3> QED
      BY <1>2, <2>3, <3>1 DEF IsPieceAt
  <2>6. t[i + Len(p)] = Comma
    <3>1. CASE Len(p) = Len(s) - i + 1
      <4>1. i + Len(p) = Len(s) + 1
        BY <1>1, <2>2, <3>1
      <4> QED
        BY <1>3, <4>1
    <3>2. CASE Len(p) # Len(s) - i + 1
      <4>1. i + Len(p) \in 1..Len(s)
        <5>1. PICK n \in Nat : n = Len(s)
          BY <1>1
        <5>2. PICK l \in Nat : l = Len(p)
          BY <2>4
        <5>3. i \in 1..n /\ l <= n - i + 1 /\ l # n - i + 1
          BY <2>2, <2>4, <3>2, <5>1, <5>2
        <5>4. i + l \in 1..n
          BY <5>3
        <5> QED
          BY <5>1, <5>2, <5>4
      <4>2. s[i + Len(p)] = Comma
        BY <2>3, <3>2 DEF IsPieceAt
      <4> QED
        BY <1>2, <4>1, <4>2
    <3> QED
      BY <3>1, <3>2
  <2>7. Len(p) \in 0..(Len(t) - i + 1) /\ i \in 1..Len(t)
    BY <1>1, <2>2, <2>4
  <2>8. IsPieceAt(t, i, p)
    BY <2>4, <2>5, <2>6, <2>7 DEF IsPieceAt
  <2> QED
    BY <1>1, <2>1, <2>7, <2>8, PieceUnique
<1>8. PieceAt(t, Len(s) + 2) = w
  <2>1. PICK i : i = Len(s) + 2
    OBVIOUS
  <2>2. i \in 1..Len(t) /\ Len(w) = Len(t) - i + 1 /\ Len(w) \in 0..(Len(t) - i + 1)
    BY <1>1, <2>1
  <2>3. ASSUME NEW j \in 1..Len(w) PROVE w[j] = t[i - 1 + j] /\ w[j] # Comma
    <3>1. i - 1 + j = Len(s) + 1 + j
      BY <1>1, <2>1
    <3> QED
      BY <1>4, <3>1
  <2>4. IsPieceAt(t, i, w)
    BY <2>2, <2>3 DEF IsPieceAt
  <2> QED
    BY <1>1, <2>1, <2>2, <2>4, PieceUnique
<1> QED
  BY <1>6, <1>7, <1>8


\* items with a value for k.
With(items, k, v) == [x \in DOMAIN items \cup {k} |-> IF x = k THEN v ELSE items[x]]

LEMMA ParamsSnoc ==
    ASSUME NEW s, Closed(s), NEW k, NEW v, IsKey(k), IsValue(v),
           NEW t, Joins(t, s, Comma, Item(k, v))
    PROVE  /\ Closed(t) /\ Numerals(t) = Numerals(s) /\ PieceAt(t, 1) = PieceAt(s, 1)
           /\ ItemsOf(t) = With(ItemsOf(s), k, v)
<1>1. PICK w : w = Item(k, v)
  OBVIOUS
<1>2. /\ w \in Seq(Nat) /\ Len(w) \in Nat \ {0} /\ Without(Comma, w)
      /\ IsParam(w) /\ ~IsNumeral(w) /\ KeyOf(w) = k /\ ValueOf(w) = v
  BY <1>1, ItemIsRead
<1>3. s \in Seq(Nat) /\ Len(s) \in Nat \ {0} /\ t \in Seq(Nat) /\ Len(t) = Len(s) + 1 + Len(w)
  BY <1>1 DEF Closed, Joins
<1>4. PICK m : m = Len(s) + 2
  OBVIOUS
<1>5. /\ Starts(t) = Starts(s) \cup {m}
      /\ \A i \in Starts(s) : PieceAt(t, i) = PieceAt(s, i)
      /\ PieceAt(t, m) = w
  BY <1>1, <1>2, <1>4, StartsSnoc
<1>6. m \notin Starts(s) /\ 1 \in Starts(s) /\ \A i \in Starts(s) : i \in 1..Len(s) /\ i < m
  BY <1>3, <1>4 DEF Starts
<1>7. Closed(t)
  <2>1. Valid(t)
    BY <1>2, <1>5 DEF Valid, Closed
  <2>2. t[Len(t)] # Comma
    <3>1. t[Len(s) + 1 + Len(w)] = w[Len(w)]
      BY <1>1, <1>2 DEF Joins
    <3>2. w[Len(w)] # Comma
      BY <1>2 DEF Without
    <3> QED
      BY <1>3, <3>1, <3>2
  <2> QED
    BY <1>2, <1>3, <2>1, <2>2 DEF Closed
<1>8. Numerals(t) = Numerals(s)
  BY <1>2, <1>5, <1>6 DEF Numerals
<1>9. Keyed(t) = Keyed(s) \cup {m}
  BY <1>2, <1>5, <1>6, <1>8 DEF Keyed, Numerals
<1>10. \A i \in Keyed(s) : i \in Starts(s) /\ i # m
  BY <1>6 DEF Keyed
<1>11. KeysOf(t) = KeysOf(s) \cup {k}
  BY <1>2, <1>5, <1>9, <1>10 DEF KeysOf
<1>12. ASSUME NEW x \in KeysOf(s), x # k
       PROVE  ValueOf(PieceAt(t, Max(Of(t, x)))) = ValueOf(PieceAt(s, Max(Of(s, x))))
  <2>1. Of(t, x) = Of(s, x)
    BY <1>2, <1>5, <1>9, <1>10, <1>12 DEF Of
  <2>2. Of(s, x) # {} /\ Of(s, x) \in SUBSET (1..Len(s)) /\ Of(s, x) \subseteq Starts(s)
    BY <1>6, <1>10 DEF Of, KeysOf
  <2>3. Max(Of(s, x)) \in Starts(s)
    BY <1>3, <2>2, Greatest
  <2> QED
    BY <1>5, <2>1, <2>3
<1>13. ValueOf(PieceAt(t, Max(Of(t, k)))) = v
  <2>1. m \in Of(t, k)
    BY <1>2, <1>5, <1>9 DEF Of
  <2>2. ASSUME NEW i \in Of(t, k) PROVE i \in 1..(Len(s) + 2) /\ i <= m
    <3>1. i = m \/ i \in Starts(s)
      BY <1>9, <1>10 DEF Of
    <3> QED
      BY <1>3, <1>4, <1>6, <3>1
  <2>3. Max(Of(t, k)) = m
    <3>1. Len(s) + 2 \in Nat /\ Of(t, k) \in SUBSET (1..(Len(s) + 2)) /\ \A i \in Of(t, k) : i <= m
      BY <1>3, <2>2
    <3> QED
      BY <2>1, <3>1, GreatestIs
  <2> QED
    BY <1>2, <1>5, <2>3
<1>14. ItemsOf(t) = With(ItemsOf(s), k, v)
  <2>1. ItemsOf(t) = [x \in KeysOf(s) \cup {k} |-> ValueOf(PieceAt(t, Max(Of(t, x))))]
    BY <1>11 DEF ItemsOf
  <2>2. DOMAIN ItemsOf(s) = KeysOf(s)
    BY DEF ItemsOf
  <2>3. With(ItemsOf(s), k, v) = [x \in KeysOf(s) \cup {k} |-> IF x = k THEN v ELSE ItemsOf(s)[x]]
    BY <2>2 DEF With
  <2>4. ASSUME NEW x \in KeysOf(s) \cup {k}
        PROVE  ValueOf(PieceAt(t, Max(Of(t, x)))) = IF x = k THEN v ELSE ItemsOf(s)[x]
    BY <1>12, <1>13 DEF ItemsOf
  <2> QED
    BY <2>1, <2>3, <2>4
<1> QED
  BY <1>5, <1>6, <1>7, <1>8, <1>14

\* s is written for the id and the items, and begins with the id.
Lists(s, id, items) ==
    /\ Closed(s) /\ Without(Space, s)
    /\ Numerals(s) = {1} /\ PieceAt(s, 1) = Itoa(id)
    /\ ItemsOf(s) = items

LEMMA ListsOfItoa ==
    ASSUME NEW id \in 1..MaxIdent
    PROVE  Lists(Itoa(id), id, [k \in {} |-> <<>>])
<1>1. PICK s : s = Itoa(id)
  OBVIOUS
<1>2. s \in Seq(Digits) /\ s \in Seq(Nat) /\ Len(s) \in Nat \ {0} /\ IsNumeral(s) /\ IsParam(s)
  BY <1>1, ItoaType, IdentOfItoa, IdentAssumption
<1>3. ASSUME NEW i \in 1..Len(s) PROVE s[i] # Comma /\ s[i] # Space
  BY <1>2, Alphabet
<1>4. Starts(s) = {1}
  <2>1. ASSUME NEW i \in Starts(s) PROVE i = 1
    <3>1. i \in 1..Len(s) /\ (i # 1 => s[i - 1] = Comma)
      BY DEF Starts
    <3>2. i # 1 => i - 1 \in 1..Len(s)
      BY <1>2, <3>1
    <3> QED
      BY <1>3, <3>1, <3>2
  <2> QED
    BY <1>2, <2>1 DEF Starts
<1>5. PieceAt(s, 1) = s
  <2>1. Len(s) = Len(s) - 1 + 1 /\ Len(s) \in 0..(Len(s) - 1 + 1) /\ \A j \in 1..Len(s) : 1 - 1 + j = j
    BY <1>2
  <2>2. IsPieceAt(s, 1, s)
    BY <1>2, <1>3, <2>1 DEF IsPieceAt
  <2> QED
    BY <1>2, <2>2, PieceUnique
<1>6. Numerals(s) = {1} /\ Valid(s) /\ Keyed(s) = {}
  BY <1>2, <1>4, <1>5 DEF Numerals, Valid, Keyed
<1>7. Closed(s) /\ Without(Space, s)
  BY <1>2, <1>3, <1>6 DEF Closed, Without
<1>8. KeysOf(s) = {}
  BY <1>6 DEF KeysOf
<1>9. ItemsOf(s) = [k \in {} |-> <<>>]
  BY <1>8 DEF ItemsOf
<1> QED
  BY <1>1, <1>5, <1>6, <1>7, <1>9 DEF Lists

LEMMA ListsSnoc ==
    ASSUME NEW s, NEW id, NEW items, Lists(s, id, items), NEW k, NEW v, IsKey(k), IsValue(v)
    PROVE  Lists(s \o Written(k, v), id, With(items, k, v))
<1>1. PICK t : t = s \o Written(k, v)
  OBVIOUS
<1>2. PICK w : w = Item(k, v)
  OBVIOUS
<1>3. s \in Seq(Nat) /\ Len(s) \in Nat
  BY DEF Lists, Closed
<1>4. Joins(t, s, Comma, w)
  BY <1>1, <1>2, <1>3, WrittenIsItem
<1>5. /\ Closed(t) /\ Numerals(t) = Numerals(s) /\ PieceAt(t, 1) = PieceAt(s, 1)
      /\ ItemsOf(t) = With(ItemsOf(s), k, v)
  BY <1>2, <1>4, ParamsSnoc DEF Lists
<1>6. w \in Seq(Nat) /\ Len(w) \in Nat /\ Without(Space, w)
  BY <1>2, ItemIsRead
<1>7. Without(Space, t)
  <2>1. ASSUME NEW i \in 1..Len(t) PROVE t[i] # Space
    <3>1. Len(t) = Len(s) + 1 + Len(w)
      BY <1>4 DEF Joins
    <3>2. CASE i \in 1..Len(s)
      BY <1>4, <3>2 DEF Joins, Lists, Without
    <3>3. CASE i = Len(s) + 1
      BY <1>4, <3>3 DEF Joins, Comma, Space
    <3>4. CASE i > Len(s) + 1
      <4>1. PICK j : j = i - Len(s) - 1
        OBVIOUS
      <4>2. j \in 1..Len(w) /\ i = Len(s) + 1 + j
        BY <1>3, <1>6, <3>1, <3>4, <4>1
      <4> QED
        BY <1>4, <1>6, <4>2 DEF Joins, Without
    <3> QED
      BY <1>3, <1>6, <3>1, <3>2, <3>3, <3>4
  <2> QED
    BY <2>1 DEF Without
<1> QED
  BY <1>1, <1>5, <1>7 DEF Lists


-----------------------------------------------------------------------------
(* Order of keys *)

\* s precedes t at i, where they first differ.
PrecedesAt(s, t, i) ==
    /\ i \in 1..Len(t) /\ i <= Len(s) + 1
    /\ \A j \in 1..(i - 1) : s[j] = t[j]
    /\ i <= Len(s) => s[i] < t[i]

LEMMA PrefixElements ==
    ASSUME NEW s \in Seq(Nat), NEW t \in Seq(Nat)
    PROVE  IsPrefix(s, t) <=> Len(s) <= Len(t) /\ \A j \in 1..Len(s) : s[j] = t[j]
<1>1. Len(s) \in Nat /\ Len(t) \in Nat
  OBVIOUS
<1>2. SubSeq(s, 1, Len(s)) = s
  BY SubSeqFull
<1>3. CASE Len(s) <= Len(t)
  <2>1. PICK u : u = SubSeq(t, 1, Len(s))
    OBVIOUS
  <2>2. 1 \in 1..(Len(t) + 1) /\ Len(s) \in (1 - 1)..Len(t)
    BY <1>1, <1>3
  <2>3. u \in Seq(Nat) /\ Len(u) = Len(s) - 1 + 1 /\ \A i \in 1..(Len(s) - 1 + 1) : u[i] = t[1 + i - 1]
    BY <2>1, <2>2, Part
  <2>4. Len(u) = Len(s) /\ \A i \in 1..Len(s) : u[i] = t[i]
    BY <1>1, <2>3
  <2>5. s = u <=> \A j \in 1..Len(s) : s[j] = t[j]
    BY <2>3, <2>4, SeqEqual
  <2> QED
    BY <1>2, <1>3, <2>1, <2>5 DEF IsPrefix
<1> QED
  BY <1>3 DEF IsPrefix

LEMMA PrecedesSomewhere ==
    ASSUME NEW s \in Seq(Nat), NEW t \in Seq(Nat)
    PROVE  Precedes(s, t) <=> \E i \in Nat : PrecedesAt(s, t, i)
<1>1. Len(s) \in Nat /\ Len(t) \in Nat /\ DOMAIN s = 1..Len(s) /\ DOMAIN t = 1..Len(t)
  OBVIOUS
<1>2. ASSUME IsStrictPrefix(s, t) PROVE \E i \in Nat : PrecedesAt(s, t, i)
  <2>1. Len(s) <= Len(t) /\ \A j \in 1..Len(s) : s[j] = t[j]
    BY <1>2, PrefixElements DEF IsStrictPrefix
  <2>2. Len(s) # Len(t)
    BY <1>2, <2>1, SeqEqual DEF IsStrictPrefix
  <2>3. PICK i : i = Len(s) + 1
    OBVIOUS
  <2>4. i \in Nat /\ i \in 1..Len(t) /\ i <= Len(s) + 1 /\ i - 1 = Len(s) /\ ~(i <= Len(s))
    <3>1. PICK m \in Nat : m = Len(s)
      BY <1>1
    <3>2. PICK n \in Nat : n = Len(t)
      BY <1>1
    <3>3. i = m + 1 /\ m <= n /\ m # n
      BY <2>1, <2>2, <2>3, <3>1, <3>2
    <3>4. i \in Nat /\ i \in 1..n /\ i <= m + 1 /\ i - 1 = m /\ ~(i <= m)
      BY <3>3
    <3> QED
      BY <3>1, <3>2, <3>4
  <2>5. PrecedesAt(s, t, i)
    BY <2>1, <2>4 DEF PrecedesAt
  <2> QED
    BY <2>4, <2>5
<1>3. ASSUME NEW i \in Nat, PrecedesAt(s, t, i), i > Len(s) PROVE IsStrictPrefix(s, t)
  <2>1. i = Len(s) + 1 /\ i - 1 = Len(s) /\ Len(s) < Len(t)
    BY <1>1, <1>3 DEF PrecedesAt
  <2>2. \A j \in 1..Len(s) : s[j] = t[j]
    BY <1>3, <2>1 DEF PrecedesAt
  <2>3. s # t /\ Len(s) <= Len(t)
    BY <1>1, <2>1
  <2> QED
    BY <2>2, <2>3, PrefixElements DEF IsStrictPrefix
<1>4. ASSUME NEW i \in Nat, i <= Len(s)
      PROVE  PrecedesAt(s, t, i) <=>
                 i \in DOMAIN s \cap DOMAIN t /\ s[i] < t[i] /\ \A j \in 1..(i - 1) : s[j] = t[j]
  <2>1. i <= Len(s) + 1
    BY <1>1, <1>4
  <2> QED
    BY <1>1, <1>4, <2>1 DEF PrecedesAt
<1>5. ASSUME NEW i \in Nat, PrecedesAt(s, t, i) PROVE Precedes(s, t)
  <2>1. CASE i <= Len(s)
    BY <1>4, <1>5, <2>1 DEF Precedes
  <2>2. CASE i > Len(s)
    BY <1>3, <1>5, <2>2 DEF Precedes
  <2> QED
    BY <1>1, <2>1, <2>2
<1>6. ASSUME NEW i \in DOMAIN s \cap DOMAIN t, s[i] < t[i], \A j \in 1..(i - 1) : s[j] = t[j]
      PROVE  \E n \in Nat : PrecedesAt(s, t, n)
  <2>1. i \in Nat /\ i <= Len(s)
    BY <1>1
  <2> QED
    BY <1>4, <1>6, <2>1
<1> QED
  BY <1>2, <1>5, <1>6 DEF Precedes

LEMMA PrecedesTransitive ==
    ASSUME NEW s \in Seq(Nat), NEW t \in Seq(Nat), NEW u \in Seq(Nat), Precedes(s, t), Precedes(t, u)
    PROVE  Precedes(s, u)
<1>1. PICK i \in Nat : PrecedesAt(s, t, i)
  BY PrecedesSomewhere
<1>2. PICK k \in Nat : PrecedesAt(t, u, k)
  BY PrecedesSomewhere
<1>3. Len(s) \in Nat /\ Len(t) \in Nat /\ Len(u) \in Nat
  OBVIOUS
<1>4. /\ i \in 1..Len(t) /\ i <= Len(s) + 1 /\ (i <= Len(s) => s[i] < t[i])
      /\ \A j \in 1..(i - 1) : s[j] = t[j]
      /\ k \in 1..Len(u) /\ k <= Len(t) + 1 /\ (k <= Len(t) => t[k] < u[k])
      /\ \A j \in 1..(k - 1) : t[j] = u[j]
  BY <1>1, <1>2 DEF PrecedesAt
<1>5. CASE i < k
  <2>1. t[i] = u[i] /\ i \in 1..Len(u) /\ \A j \in 1..(i - 1) : j \in 1..(k - 1)
    BY <1>3, <1>4, <1>5
  <2>2. PrecedesAt(s, u, i)
    BY <1>4, <2>1 DEF PrecedesAt
  <2> QED
    BY <2>2, PrecedesSomewhere
<1>6. CASE k < i
  <2>1. s[k] = t[k] /\ k <= Len(t) /\ k <= Len(s) + 1 /\ \A j \in 1..(k - 1) : j \in 1..(i - 1)
    BY <1>3, <1>4, <1>6
  <2>2. PrecedesAt(s, u, k)
    BY <1>4, <2>1 DEF PrecedesAt
  <2> QED
    BY <2>2, PrecedesSomewhere
<1>7. CASE k = i
  <2>1. \A j \in 1..(i - 1) : s[j] = u[j]
    BY <1>4, <1>7
  <2>2. i <= Len(s) => s[i] < u[i]
    <3> SUFFICES ASSUME i <= Len(s) PROVE s[i] < u[i]
      OBVIOUS
    <3>1. i \in 1..Len(s) /\ i \in 1..Len(t) /\ i \in 1..Len(u) /\ i <= Len(t)
      BY <1>3, <1>4, <1>7
    <3>2. s[i] \in Nat /\ t[i] \in Nat /\ u[i] \in Nat
      BY <3>1
    <3>3. s[i] < t[i] /\ t[i] < u[i]
      BY <1>4, <1>7, <3>1
    <3> QED
      BY <3>2, <3>3
  <2>3. PrecedesAt(s, u, i)
    BY <1>4, <1>7, <2>1, <2>2 DEF PrecedesAt
  <2> QED
    BY <2>3, PrecedesSomewhere
<1> QED
  BY <1>5, <1>6, <1>7

LEMMA PrecedesTotal ==
    ASSUME NEW s \in Seq(Nat), NEW t \in Seq(Nat)
    PROVE  /\ ~Precedes(s, s)
           /\ s # t => Precedes(s, t) \/ Precedes(t, s)
<1>1. Len(s) \in Nat /\ Len(t) \in Nat
  OBVIOUS
<1>2. ~Precedes(s, s)
  <2> SUFFICES ASSUME NEW i \in Nat, PrecedesAt(s, s, i) PROVE FALSE
    BY PrecedesSomewhere
  <2>1. i \in 1..Len(s) /\ i <= Len(s) /\ s[i] < s[i]
    BY <1>1 DEF PrecedesAt
  <2>2. s[i] \in Nat
    BY <2>1
  <2> QED
    BY <2>1, <2>2
<1>3. ASSUME s # t PROVE \E i \in Nat : PrecedesAt(s, t, i) \/ PrecedesAt(t, s, i)
  <2> DEFINE D == {i \in Nat : i >= 1 /\ (i > Len(s) \/ i > Len(t) \/ s[i] # t[i])}
  <2>1. PICK i \in D : \A k \in D : i <= k
    <3>1. D \in SUBSET Nat
      OBVIOUS
    <3>2. Len(s) + 1 \in D
      BY <1>1
    <3> HIDE DEF D
    <3> QED
      BY <3>1, <3>2, Least
  <2>2. i \in Nat /\ i >= 1 /\ (i > Len(s) \/ i > Len(t) \/ s[i] # t[i])
    OBVIOUS
  <2>3. ASSUME NEW j \in 1..(i - 1) PROVE j <= Len(s) /\ j <= Len(t) /\ s[j] = t[j]
    <3>1. j \notin D /\ j \in Nat /\ j >= 1
      BY <2>1
    <3> QED
      BY <1>1, <3>1
  <2>4. i <= Len(s) + 1 /\ i <= Len(t) + 1
    <3>1. CASE i = 1
      BY <1>1, <3>1
    <3>2. CASE i > 1
      <4>1. i - 1 \in 1..(i - 1)
        BY <2>2, <3>2
      <4> QED
        BY <1>1, <2>2, <2>3, <4>1
    <3> QED
      BY <2>2, <3>1, <3>2
  <2>5. CASE i > Len(s) /\ i > Len(t)
    <3>1. Len(s) = Len(t) /\ i - 1 = Len(s)
      BY <1>1, <2>2, <2>4, <2>5
    <3>2. \A j \in 1..Len(s) : s[j] = t[j]
      BY <2>3, <3>1
    <3> QED
      BY <1>3, <3>1, <3>2, SeqEqual
  <2>6. CASE i > Len(s) /\ i <= Len(t)
    <3>1. i \in 1..Len(t) /\ ~(i <= Len(s))
      BY <1>1, <2>2, <2>6
    <3>2. PrecedesAt(s, t, i)
      BY <2>3, <2>4, <3>1 DEF PrecedesAt
    <3> QED
      BY <3>2
  <2>7. CASE i <= Len(s) /\ i > Len(t)
    <3>1. i \in 1..Len(s) /\ ~(i <= Len(t))
      BY <1>1, <2>2, <2>7
    <3>2. PrecedesAt(t, s, i)
      BY <2>3, <2>4, <3>1 DEF PrecedesAt
    <3> QED
      BY <3>2
  <2>8. CASE i <= Len(s) /\ i <= Len(t)
    <3>1. i \in 1..Len(s) /\ i \in 1..Len(t) /\ s[i] # t[i]
      BY <1>1, <2>2, <2>8
    <3>2. s[i] \in Nat /\ t[i] \in Nat
      BY <3>1
    <3>3. CASE s[i] < t[i]
      <4>1. PrecedesAt(s, t, i)
        BY <2>3, <2>4, <3>1, <3>3 DEF PrecedesAt
      <4> QED
        BY <4>1
    <3>4. CASE t[i] < s[i]
      <4>1. PrecedesAt(t, s, i)
        BY <2>3, <2>4, <3>1, <3>4 DEF PrecedesAt
      <4> QED
        BY <4>1
    <3> QED
      BY <3>1, <3>2, <3>3, <3>4
  <2> QED
    BY <1>1, <2>2, <2>5, <2>6, <2>7, <2>8
<1> QED
  BY <1>2, <1>3, PrecedesSomewhere

Below(K, k) == {l \in K : Precedes(l, k)}

LEMMA RankInjective ==
    ASSUME NEW K \in SUBSET Seq(Nat), IsFiniteSet(K), NEW n, n = Cardinality(K)
    PROVE  /\ n \in Nat
           /\ \A k \in K : Cardinality(Below(K, k)) \in 0..(n - 1)
           /\ \A k, l \in K : k # l => Cardinality(Below(K, k)) # Cardinality(Below(K, l))
<1>1. n \in Nat
  BY FS_CardinalityType
<1>2. ASSUME NEW k \in K
      PROVE  /\ Below(K, k) \in SUBSET K /\ IsFiniteSet(Below(K, k))
             /\ Cardinality(Below(K, k)) \in 0..(n - 1)
  <2>1. PICK b : b = Below(K, k)
    OBVIOUS
  <2>2. b \in SUBSET K /\ k \notin b
    <3>1. k \in Seq(Nat)
      OBVIOUS
    <3> QED
      BY <2>1, <3>1, PrecedesTotal DEF Below
  <2>3. IsFiniteSet(b) /\ Cardinality(b) <= n /\ Cardinality(b) # n
    BY <2>2, FS_Subset
  <2>4. Cardinality(b) \in Nat
    BY <2>3, FS_CardinalityType
  <2> QED
    BY <1>1, <2>1, <2>2, <2>3, <2>4
<1>3. ASSUME NEW k \in K, NEW l \in K, Precedes(k, l)
      PROVE  Cardinality(Below(K, k)) # Cardinality(Below(K, l))
  <2>1. PICK b : b = Below(K, k)
    OBVIOUS
  <2>2. PICK c : c = Below(K, l)
    OBVIOUS
  <2>3. b \in SUBSET c
    <3>1. ASSUME NEW m \in K, Precedes(m, k) PROVE Precedes(m, l)
      <4>1. m \in Seq(Nat) /\ k \in Seq(Nat) /\ l \in Seq(Nat)
        OBVIOUS
      <4> QED
        BY <1>3, <3>1, <4>1, PrecedesTransitive
    <3> QED
      BY <2>1, <2>2, <3>1 DEF Below
  <2>4. k \in c /\ k \notin b
    <3>1. k \in Seq(Nat)
      OBVIOUS
    <3> QED
      BY <1>3, <2>1, <2>2, <3>1, PrecedesTotal DEF Below
  <2>5. IsFiniteSet(c)
    BY <1>2, <2>2
  <2> QED
    BY <2>1, <2>2, <2>3, <2>4, <2>5, FS_Subset
<1>4. ASSUME NEW k \in K, NEW l \in K, k # l
      PROVE  Cardinality(Below(K, k)) # Cardinality(Below(K, l))
  <2>1. k \in Seq(Nat) /\ l \in Seq(Nat)
    OBVIOUS
  <2>2. Precedes(k, l) \/ Precedes(l, k)
    BY <1>4, <2>1, PrecedesTotal
  <2> QED
    BY <1>3, <2>2
<1> QED
  BY <1>1, <1>2, <1>4

\* KeyAt enumerates the keys.
LEMMA KeysInOrder ==
    ASSUME NEW items, DOMAIN items \in SUBSET Seq(Nat), IsFiniteSet(DOMAIN items),
           NEW n, n = Cardinality(DOMAIN items)
    PROVE  /\ n \in Nat
           /\ \A i \in 1..n : KeyAt(items, i) \in DOMAIN items
           /\ \A k \in DOMAIN items : \E i \in 1..n : KeyAt(items, i) = k
           /\ \A i, j \in 1..n : i # j => KeyAt(items, i) # KeyAt(items, j)
<1>1. PICK K : K = DOMAIN items
  OBVIOUS
<1>2. /\ n \in Nat
      /\ \A k \in K : Cardinality(Below(K, k)) \in 0..(n - 1)
      /\ \A k, l \in K : k # l => Cardinality(Below(K, k)) # Cardinality(Below(K, l))
  BY <1>1, RankInjective
<1> DEFINE f == [k \in K |-> Cardinality(Below(K, k)) + 1]
<1>3. \A k \in K : f[k] \in 1..n /\ f[k] - 1 = Cardinality(Below(K, k))
  BY <1>2
<1>4. f \in Injection(K, 1..n)
  <2>1. f \in [K -> 1..n]
    BY <1>3
  <2>2. \A k, l \in K : f[k] = f[l] => k = l
    BY <1>2, <1>3
  <2> HIDE DEF f
  <2> QED
    BY <2>1, <2>2 DEF Injection, IsInjective
<1>5. IsFiniteSet(1..n) /\ Cardinality(1..n) = n
  BY <1>2, FS_Interval
<1>6. f \in Surjection(K, 1..n)
  <2> HIDE DEF f
  <2> QED
    BY <1>1, <1>4, <1>5, FS_Injection
<1>7. \A i \in 1..n : \E k \in K : f[k] = i
  <2> HIDE DEF f
  <2> QED
    BY <1>6 DEF Surjection
<1>8. ASSUME NEW i \in 1..n
      PROVE  KeyAt(items, i) \in K /\ Cardinality(Below(K, KeyAt(items, i))) = i - 1
  <2>1. PICK k \in K : Cardinality(Below(K, k)) = i - 1
    <3> HIDE DEF f
    <3> QED
      BY <1>3, <1>7
  <2>2. \E x \in K : Cardinality({l \in DOMAIN items : Precedes(l, x)}) = i - 1
    BY <1>1, <2>1 DEF Below
  <2> QED
    BY <1>1, <2>2 DEF KeyAt, Below
<1>9. ASSUME NEW k \in K PROVE \E i \in 1..n : KeyAt(items, i) = k
  <2>1. PICK i \in 1..n : Cardinality(Below(K, k)) = i - 1
    <3>1. f[k] \in 1..n /\ f[k] - 1 = Cardinality(Below(K, k))
      BY <1>3
    <3> HIDE DEF f
    <3> QED
      BY <3>1
  <2>2. KeyAt(items, i) = k
    BY <1>2, <1>8, <2>1
  <2> QED
    BY <2>2
<1>10. ASSUME NEW i \in 1..n, NEW j \in 1..n, KeyAt(items, i) = KeyAt(items, j) PROVE i = j
  BY <1>8, <1>10
<1> QED
  BY <1>1, <1>2, <1>8, <1>9, <1>10


-----------------------------------------------------------------------------
(* A list as it is written *)

\* FlattenSeq adds one text after the other.
Flattens(f, ss) == f = [i \in 1..Len(ss) |-> IF i = 1 THEN ss[i] ELSE f[i - 1] \o ss[i]]
Flattener(ss) == CHOOSE f : Flattens(f, ss)

LEMMA FlattenSeqFlattens ==
    ASSUME NEW ss
    PROVE  FlattenSeq(ss) = IF Len(ss) = 0 THEN ss ELSE Flattener(ss)[Len(ss)]
  BY DEF FlattenSeq, Flattener, Flattens

LEMMA FlattenerFlattens ==
    ASSUME NEW ss, NEW n \in Nat, n = Len(ss), \A i \in 1..n : ss[i] \in Seq(Nat)
    PROVE  /\ \A i \in 1..n : Flattener(ss)[i] = IF i = 1 THEN ss[i] ELSE Flattener(ss)[i - 1] \o ss[i]
           /\ \A i \in 1..n : Flattener(ss)[i] \in Seq(Nat)
<1> DEFINE base == [i \in {1} |-> ss[1]]
           prev == [i \in 2..n |-> i - 1]
           step == [i \in 2..n |-> [v \in Seq(Nat) |-> v \o ss[i]]]
<1>1. PICK f : Obeys(f, 1, n, {1}, base, prev, step)
  <2>1. ASSUME NEW i \in (1..n) \ {1} PROVE prev[i] \in 1..(i - 1)
    <3>1. i \in 2..n /\ i - 1 \in 1..(i - 1)
      OBVIOUS
    <3> QED
      BY <3>1
  <2> HIDE DEF base, prev, step
  <2> QED
    BY <2>1, RecursionExists
<1>2. ASSUME NEW i \in 1..n
      PROVE  \/ i = 1 /\ f[i] = ss[i]
             \/ i # 1 /\ i - 1 \in 1..n /\ (f[i - 1] \in Seq(Nat) => f[i] = f[i - 1] \o ss[i])
  <2>1. CASE i = 1
    <3>1. f[i] = base[i]
      BY <1>1, <2>1 DEF Obeys
    <3> QED
      BY <2>1, <3>1
  <2>2. CASE i # 1
    <3>1. i \in 2..n /\ i \notin {1} /\ i - 1 \in 1..n
      BY <2>2
    <3>2. f[i] = step[i][f[prev[i]]]
      BY <1>1, <3>1 DEF Obeys
    <3> QED
      BY <2>2, <3>1, <3>2
  <2> QED
    BY <2>1, <2>2
<1>3. \A i \in 1..n : f[i] \in Seq(Nat)
  <2> DEFINE T == {i \in Nat : i \in 1..n => f[i] \in Seq(Nat)}
  <2> HIDE DEF base, prev, step
  <2>1. ASSUME NEW i \in Nat, \A j \in 0..(i - 1) : j \in T PROVE i \in T
    <3>1. CASE i \in 1..n /\ i # 1
      <4>1. i - 1 \in 0..(i - 1) /\ i - 1 \in 1..n
        BY <3>1
      <4>2. f[i - 1] \in Seq(Nat)
        BY <2>1, <4>1
      <4>3. f[i] = f[i - 1] \o ss[i] /\ ss[i] \in Seq(Nat)
        BY <1>2, <3>1, <4>2
      <4>4. f[i] \in Seq(Nat)
        BY <4>2, <4>3, ConcatProperties
      <4> QED
        BY <4>4
    <3>2. CASE i \in 1..n /\ i = 1
      <4>1. f[i] = ss[i] /\ ss[i] \in Seq(Nat)
        BY <1>2, <3>2
      <4> QED
        BY <4>1
    <3> QED
      BY <3>1, <3>2
  <2>2. \A i \in Nat : i \in T
    <3> HIDE DEF T
    <3> QED
      BY <2>1, Induction
  <2> QED
    BY <2>2
<1>4. Flattens(f, ss)
  <2> HIDE DEF base, prev, step
  <2>1. f = [i \in 1..n |-> f[i]]
    BY <1>1 DEF Obeys
  <2>2. ASSUME NEW i \in 1..n
        PROVE  f[i] = IF i = 1 THEN ss[i] ELSE f[i - 1] \o ss[i]
    <3>1. CASE i = 1
      BY <1>2, <3>1
    <3>2. CASE i # 1
      BY <1>2, <1>3, <3>2
    <3> QED
      BY <3>1, <3>2
  <2> QED
    BY <2>1, <2>2 DEF Flattens
<1>5. PICK g : g = Flattener(ss)
  OBVIOUS
<1>6. Flattens(g, ss)
  BY <1>4, <1>5 DEF Flattener
<1>7. \A i \in 1..n : g[i] = IF i = 1 THEN ss[i] ELSE g[i - 1] \o ss[i]
  BY <1>6 DEF Flattens
<1>8. \A i \in 1..n : g[i] \in Seq(Nat)
  <2> DEFINE T == {i \in Nat : i \in 1..n => g[i] \in Seq(Nat)}
  <2> HIDE DEF base, prev, step
  <2>1. ASSUME NEW i \in Nat, \A j \in 0..(i - 1) : j \in T PROVE i \in T
    <3>1. CASE i \in 1..n /\ i # 1
      <4>1. i - 1 \in 0..(i - 1) /\ i - 1 \in 1..n
        BY <3>1
      <4>2. g[i - 1] \in Seq(Nat)
        BY <2>1, <4>1
      <4>3. g[i] = g[i - 1] \o ss[i] /\ ss[i] \in Seq(Nat)
        BY <1>7, <3>1
      <4>4. g[i] \in Seq(Nat)
        BY <4>2, <4>3, ConcatProperties
      <4> QED
        BY <4>4
    <3>2. CASE i \in 1..n /\ i = 1
      <4>1. g[i] = ss[i] /\ ss[i] \in Seq(Nat)
        BY <1>7, <3>2
      <4> QED
        BY <4>1
    <3> QED
      BY <3>1, <3>2
  <2>2. \A i \in Nat : i \in T
    <3> HIDE DEF T
    <3> QED
      BY <2>1, Induction
  <2> QED
    BY <2>2
<1> QED
  BY <1>5, <1>7, <1>8


\* Parameters as a packet has them.
IsItems(items) ==
    /\ IsFiniteSet(DOMAIN items) /\ items = [k \in DOMAIN items |-> items[k]]
    /\ \A k \in DOMAIN items : IsKey(k) /\ IsValue(items[k])

LEMMA WrittenType ==
    ASSUME NEW k, NEW v, IsKey(k), IsValue(v)
    PROVE  Written(k, v) \in Seq(Nat)
<1>1. PICK w : w = IF v = Naked THEN <<>> ELSE <<Equal>> \o v
  OBVIOUS
<1>2. w \in Seq(Nat)
  <2>1. CASE v = Naked
    BY <1>1, <2>1
  <2>2. CASE v # Naked
    <3>1. <<Equal>> \in Seq(Nat) /\ v \in Seq(Nat)
      BY <2>2 DEF IsValue, Equal
    <3> QED
      BY <1>1, <2>2, <3>1, ConcatProperties
  <2> QED
    BY <2>1, <2>2
<1>3. k \in Seq(Nat) /\ <<Comma>> \in Seq(Nat)
  BY DEF IsKey, Comma
<1>4. PICK x : x = <<Comma>> \o k
  OBVIOUS
<1>5. x \in Seq(Nat)
  BY <1>3, <1>4, ConcatProperties
<1>6. x \o w \in Seq(Nat)
  BY <1>2, <1>5, ConcatProperties
<1> QED
  BY <1>1, <1>4, <1>6 DEF Written

LEMMA SerializedIsRead ==
    ASSUME NEW p, p.ident \in 1..MaxIdent, IsItems(p.items)
    PROVE  Lists(Serialized(p), p.ident, p.items)
<1>1. PICK id \in 1..MaxIdent : id = p.ident
  OBVIOUS
<1>2. PICK items : items = p.items
  OBVIOUS
<1>3. PICK n : n = Cardinality(DOMAIN items)
  OBVIOUS
<1>4. /\ IsFiniteSet(DOMAIN items) /\ items = [k \in DOMAIN items |-> items[k]]
      /\ \A k \in DOMAIN items : IsKey(k) /\ IsValue(items[k])
  BY <1>2 DEF IsItems
<1>5. /\ n \in Nat
      /\ \A i \in 1..n : KeyAt(items, i) \in DOMAIN items
      /\ \A k \in DOMAIN items : \E i \in 1..n : KeyAt(items, i) = k
  <2>1. DOMAIN items \in SUBSET Seq(Nat)
    BY <1>4 DEF IsKey
  <2> QED
    BY <1>3, <1>4, <2>1, KeysInOrder
<1>6. PICK ss : ss = [i \in 1..n |-> Written(KeyAt(items, i), items[KeyAt(items, i)])]
  OBVIOUS
<1>7. \A i \in 1..n : ss[i] \in Seq(Nat) /\ ss[i] = Written(KeyAt(items, i), items[KeyAt(items, i)])
  <2> TAKE i \in 1..n
  <2>1. Written(KeyAt(items, i), items[KeyAt(items, i)]) \in Seq(Nat)
    BY <1>4, <1>5, WrittenType
  <2> QED
    BY <1>6, <2>1
<1>8. ss \in Seq(Seq(Nat)) /\ Len(ss) = n
  BY <1>5, <1>6, <1>7
<1>9. Serialized(p) = Itoa(id) \o FlattenSeq(ss)
  BY <1>1, <1>2, <1>3, <1>6 DEF Serialized, Listed
<1>10. PICK s : s = Itoa(id)
  OBVIOUS
<1>11. s \in Seq(Nat) /\ Lists(s, id, [k \in {} |-> <<>>])
  BY <1>10, ListsOfItoa DEF Lists, Closed
<1>12. CASE n = 0
  <2>1. ss = <<>>
    BY <1>8, <1>12, EmptySeq
  <2>2. FlattenSeq(ss) = <<>>
    BY <1>8, <1>12, <2>1, FlattenSeqFlattens
  <2>3. Serialized(p) = s
    BY <1>9, <1>10, <1>11, <2>2, ConcatEmptySeq
  <2>4. DOMAIN items = {}
    <3>1. 1..n = {}
      BY <1>12
    <3> QED
      BY <1>5, <3>1
  <2>5. items = [k \in {} |-> <<>>]
    BY <1>4, <2>4
  <2> QED
    BY <1>1, <1>2, <1>11, <2>3, <2>5
<1>13. CASE n # 0
  <2>1. PICK g : g = Flattener(ss)
    OBVIOUS
  <2>2. /\ \A i \in 1..n : g[i] = IF i = 1 THEN ss[i] ELSE g[i - 1] \o ss[i]
        /\ \A i \in 1..n : g[i] \in Seq(Nat)
    <3>1. \A i \in 1..n : ss[i] \in Seq(Nat)
      BY <1>7
    <3> QED
      BY <1>5, <1>8, <2>1, <3>1, FlattenerFlattens
  <2>3. Serialized(p) = s \o g[n]
    BY <1>8, <1>9, <1>10, <1>13, <2>1, FlattenSeqFlattens
  <2> DEFINE u(m) == IF m = 0 THEN s ELSE s \o g[m]
             first(m) == [k \in {KeyAt(items, i) : i \in 1..m} |-> items[k]]
             T == {m \in Nat : m <= n => Lists(u(m), id, first(m))}
  <2>4. ASSUME NEW m \in Nat, \A j \in 0..(m - 1) : j \in T PROVE m \in T
    <3>1. CASE m = 0
      <4>1. {KeyAt(items, i) : i \in 1..m} = {}
        BY <3>1
      <4>2. first(m) = [k \in {} |-> <<>>]
        BY <4>1
      <4> QED
        BY <1>11, <3>1, <4>2
    <3>2. CASE m \in 1..n
      <4>1. PICK k : k = KeyAt(items, m)
        OBVIOUS
      <4>2. k \in DOMAIN items /\ IsKey(k) /\ IsValue(items[k])
        BY <1>4, <1>5, <3>2, <4>1
      <4>3. Lists(u(m - 1), id, first(m - 1))
        <5>1. m - 1 \in 0..(m - 1) /\ m - 1 <= n
          <6> HIDE DEF T, u, first
          <6> QED
            BY <1>5, <3>2
        <5>2. m - 1 \in T
          <6> HIDE DEF T
          <6> QED
            BY <2>4, <5>1
        <5> QED
          BY <5>1, <5>2
      <4>4. u(m) = u(m - 1) \o Written(k, items[k])
        <5>1. ss[m] = Written(k, items[k]) /\ ss[m] \in Seq(Nat)
          BY <1>7, <3>2, <4>1
        <5>2. CASE m = 1
          <6>1. g[m] = ss[m] /\ m # 0 /\ m - 1 = 0
            <7> HIDE DEF T, u, first
            <7> QED
              BY <2>2, <3>2, <5>2
          <6> QED
            BY <5>1, <6>1
        <5>3. CASE m # 1
          <6>1. m - 1 \in 1..n /\ m # 0 /\ m - 1 # 0
            <7> HIDE DEF T, u, first
            <7> QED
              BY <1>5, <3>2, <5>3
          <6>3. g[m - 1] \in Seq(Nat) /\ g[m] = g[m - 1] \o ss[m]
            <7> HIDE DEF T, u, first
            <7> QED
              BY <2>2, <3>2, <5>3, <6>1
          <6>2. s \o (g[m - 1] \o ss[m]) = s \o g[m - 1] \o ss[m]
            <7> HIDE DEF T, u, first
            <7>1. PICK a \in Seq(Nat) : a = g[m - 1]
              BY <6>3
            <7>2. PICK b \in Seq(Nat) : b = ss[m]
              BY <5>1
            <7>3. s \in Seq(Nat)
              BY <1>11
            <7>4. (s \o a) \o b = s \o (a \o b)
              BY <7>3, ConcatAssociative
            <7> QED
              BY <7>1, <7>2, <7>4
          <6> QED
            BY <5>1, <6>1, <6>2, <6>3
        <5> QED
          BY <5>2, <5>3
      <4>5. first(m) = With(first(m - 1), k, items[k])
        <5>1. {KeyAt(items, i) : i \in 1..m} = {KeyAt(items, i) : i \in 1..(m - 1)} \cup {k}
          <6>1. 1..m = 1..(m - 1) \cup {m}
            BY <3>2
          <6> QED
            BY <4>1, <6>1
        <5> QED
          BY <5>1 DEF With
      <4>6. Lists(u(m), id, first(m))
        <5> HIDE DEF u, first
        <5> QED
          BY <4>2, <4>3, <4>4, <4>5, ListsSnoc
      <4> QED
        BY <4>6
    <3> QED
      BY <3>1, <3>2
  <2>5. \A m \in Nat : m \in T
    <3> HIDE DEF T
    <3> QED
      BY <2>4, Induction
  <2>6. Lists(u(n), id, first(n))
    BY <1>5, <2>5
  <2>7. first(n) = items
    <3>1. {KeyAt(items, i) : i \in 1..n} = DOMAIN items
      BY <1>5
    <3> QED
      BY <1>4, <3>1
  <2> QED
    BY <1>1, <1>2, <1>13, <2>3, <2>6, <2>7
<1> QED
  BY <1>12, <1>13


\* What is written of the parameters of a packet is read as them.
LEMMA ParamsAreRead ==
    ASSUME NEW p, p = [valid |-> TRUE, ident |-> p.ident, items |-> p.items],
           p.ident \in 1..MaxIdent, IsItems(p.items)
    PROVE  /\ Serialized(p) \in Seq(Nat) /\ Without(Space, Serialized(p))
           /\ ParamsOf(Serialized(p)) = p
<1>1. PICK s : s = Serialized(p)
  OBVIOUS
<1>2. Lists(s, p.ident, p.items)
  BY <1>1, SerializedIsRead
<1>3. /\ s \in Seq(Nat) /\ Valid(s) /\ Without(Space, s)
      /\ Numerals(s) = {1} /\ PieceAt(s, 1) = Itoa(p.ident) /\ ItemsOf(s) = p.items
  BY <1>2 DEF Lists, Closed
<1>4. Max(Numerals(s)) = 1
  <2>1. Numerals(s) \in SUBSET (1..1) /\ 1 \in Numerals(s) /\ \A k \in Numerals(s) : k <= 1
    BY <1>3
  <2> QED
    BY <2>1, GreatestIs
<1>5. IdentOf(Itoa(p.ident)) = p.ident
  BY IdentOfItoa
<1>6. ParamsOf(s) = [valid |-> TRUE, ident |-> p.ident, items |-> p.items]
  <2>1. Numerals(s) # {}
    BY <1>3
  <2> QED
    BY <1>3, <1>4, <1>5, <2>1, ParamsOfParts
<1> QED
  BY <1>1, <1>3, <1>6

-----------------------------------------------------------------------------
(* What can be read at all *)

LEMMA SymbolParts ==
    ASSUME NEW t \in Seq(Nat), Len(t) # 0, IsSymbol(t)
    PROVE  IsKey(KeyOf(t)) /\ IsValue(ValueOf(t))
<1>1. /\ t[1] \in Upper \cup Lower
      /\ AllIn(Before(Equal, t), Digits \cup Upper \cup Lower)
      /\ AllIn(After(Equal, t), Free)
  BY DEF IsSymbol, Free
<1>2. PICK b : b = Before(Equal, t)
  OBVIOUS
<1>3. PICK e : e = IndexOf(Equal, t)
  OBVIOUS
<1>4. /\ b \in Seq(Nat) /\ \A i \in 1..Len(b) : b[i] = t[i]
      /\ e = 0 => b = t
      /\ e # 0 => Len(b) = e - 1
  BY <1>2, <1>3, BeforeType
<1>5. e \in 0..Len(t) /\ (e # 0 => t[e] = Equal)
  BY <1>3, IndexOfFirst
<1>6. Len(b) \in Nat \ {0}
  <2>1. Equal \notin Upper \cup Lower
    BY DEF Equal, Upper, Lower
  <2>2. e # 1
    BY <1>1, <1>5, <2>1
  <2> QED
    BY <1>4, <1>5, <2>2
<1>7. IsKey(KeyOf(t))
  <2>1. PICK u : u = Uppercase(b)
    OBVIOUS
  <2>2. /\ u \in Seq(Nat) /\ Len(u) = Len(b)
        /\ \A i \in 1..Len(b) : u[i] = IF b[i] \in Lower THEN b[i] - 32 ELSE b[i]
    BY <1>4, <2>1, UppercaseType
  <2>3. \A i \in 1..Len(b) : b[i] \in Digits \cup Upper \cup Lower
    BY <1>1, <1>2, <1>4, AllInSeq
  <2>4. ASSUME NEW i \in 1..Len(b)
        PROVE  u[i] \in Digits \cup Upper /\ (b[i] \in Upper \cup Lower => u[i] \in Upper)
    BY <2>2, <2>3, Alphabet
  <2>5. AllIn(u, Digits \cup Upper)
    BY <2>2, <2>4, AllInSeq
  <2>6. u[1] \in Upper
    <3>1. 1 \in 1..Len(b)
      BY <1>6
    <3> QED
      BY <1>1, <1>4, <2>4, <3>1
  <2>7. KeyOf(t) = u
    BY <1>2, <2>1 DEF KeyOf
  <2> QED
    BY <1>6, <2>2, <2>5, <2>6, <2>7 DEF IsKey
<1>8. IsValue(ValueOf(t))
  <2>1. CASE e = 0
    BY <1>3, <2>1 DEF ValueOf, IsValue
  <2>2. CASE e # 0
    <3>1. ValueOf(t) = After(Equal, t)
      BY <1>3, <2>2 DEF ValueOf
    <3>2. After(Equal, t) \in Seq(Nat)
      BY AfterType
    <3> QED
      BY <1>1, <3>1, <3>2 DEF IsValue
  <2> QED
    BY <2>1, <2>2
<1> QED
  BY <1>7, <1>8

\* The parameters of a text, if it has some.
LEMMA ParamsType ==
    ASSUME NEW s \in Seq(Nat), NEW p, p = ParamsOf(s), p # Invalid
    PROVE  /\ p = [valid |-> TRUE, ident |-> p.ident, items |-> p.items]
           /\ IsItems(p.items)
           /\ p.ident # 0 =>
                 /\ p.ident \in 1..MaxIdent
                 /\ \E i \in Starts(s) : /\ AllIn(PieceAt(s, i), Digits)
                                         /\ Decimal(PieceAt(s, i)) = p.ident
                                         /\ Len(PieceAt(s, i)) # 0
<1>1. /\ Valid(s)
      /\ p = [valid |-> TRUE,
              ident |-> IF Numerals(s) = {} THEN 0 ELSE IdentOf(PieceAt(s, Max(Numerals(s)))),
              items |-> ItemsOf(s)]
  BY ParamsOfParts
<1>2. p.ident = (IF Numerals(s) = {} THEN 0 ELSE IdentOf(PieceAt(s, Max(Numerals(s))))) /\ p.items = ItemsOf(s)
  BY <1>1
<1>3. Starts(s) \subseteq 1..Len(s) /\ IsFiniteSet(Starts(s)) /\ Len(s) \in Nat
  BY StartsType
<1>4. ASSUME NEW i \in Starts(s)
      PROVE  PieceAt(s, i) \in Seq(Nat) /\ Len(PieceAt(s, i)) # 0 /\ IsParam(PieceAt(s, i))
  <2>1. i \in 1..Len(s)
    BY <1>3
  <2>2. PieceAt(s, i) \in Seq(Nat)
    BY <2>1, PieceType DEF IsPieceAt
  <2>3. IsParam(PieceAt(s, i))
    BY <1>1 DEF Valid
  <2> QED
    BY <2>2, <2>3 DEF IsParam
<1>5. ASSUME NEW i \in Keyed(s)
      PROVE  IsKey(KeyOf(PieceAt(s, i))) /\ IsValue(ValueOf(PieceAt(s, i)))
  <2>1. i \in Starts(s) /\ ~IsNumeral(PieceAt(s, i))
    BY DEF Keyed, Numerals
  <2>2. IsSymbol(PieceAt(s, i))
    BY <1>4, <2>1 DEF IsParam
  <2> QED
    BY <1>4, <2>1, <2>2, SymbolParts
<1>6. IsFiniteSet(KeysOf(s))
  <2> DEFINE f == [i \in Keyed(s) |-> KeyOf(PieceAt(s, i))]
  <2>1. IsFiniteSet(Keyed(s))
    BY <1>3, FS_Subset DEF Keyed
  <2>2. f \in [Keyed(s) -> KeysOf(s)] /\ \A k \in KeysOf(s) : \E i \in Keyed(s) : f[i] = k
    BY DEF KeysOf
  <2> HIDE DEF f
  <2>3. f \in Surjection(Keyed(s), KeysOf(s))
    BY <2>2 DEF Surjection
  <2> QED
    BY <2>1, <2>3, FS_Surjection
<1>7. IsItems(p.items)
  <2>1. PICK items : items = ItemsOf(s)
    OBVIOUS
  <2>2. items = [k \in KeysOf(s) |-> ValueOf(PieceAt(s, Max(Of(s, k))))]
    BY <2>1 DEF ItemsOf
  <2>3. DOMAIN items = KeysOf(s) /\ items = [k \in DOMAIN items |-> items[k]]
    BY <2>2
  <2>4. ASSUME NEW k \in KeysOf(s) PROVE IsKey(k) /\ IsValue(items[k])
    <3>1. Of(s, k) # {} /\ Of(s, k) \in SUBSET (1..Len(s))
      BY <1>3 DEF Of, KeysOf, Keyed
    <3>2. Max(Of(s, k)) \in Of(s, k)
      BY <1>3, <3>1, Greatest
    <3>3. Max(Of(s, k)) \in Keyed(s) /\ KeyOf(PieceAt(s, Max(Of(s, k)))) = k
      BY <3>2 DEF Of
    <3> QED
      BY <1>5, <2>2, <3>3
  <2> QED
    BY <1>2, <1>6, <2>1, <2>3, <2>4 DEF IsItems
<1>8. ASSUME p.ident # 0
      PROVE  /\ p.ident \in 1..MaxIdent
             /\ \E i \in Starts(s) : /\ AllIn(PieceAt(s, i), Digits)
                                     /\ Decimal(PieceAt(s, i)) = p.ident
                                     /\ Len(PieceAt(s, i)) # 0
  <2>1. Numerals(s) # {} /\ p.ident = IdentOf(PieceAt(s, Max(Numerals(s))))
    BY <1>2, <1>8
  <2>2. Numerals(s) \in SUBSET (1..Len(s))
    BY <1>3 DEF Numerals
  <2>3. Max(Numerals(s)) \in Starts(s)
    BY <1>3, <2>1, <2>2, Greatest DEF Numerals
  <2>4. PICK t : t = PieceAt(s, Max(Numerals(s)))
    OBVIOUS
  <2>5. t \in Seq(Nat) /\ Len(t) # 0
    BY <1>4, <2>3, <2>4
  <2>6. IdentOf(t) \in 0..MaxIdent /\ AllIn(t, Digits) /\ Decimal(t) = IdentOf(t)
    BY <1>8, <2>1, <2>4, <2>5, IdentOfNumber
  <2> QED
    BY <1>8, <2>1, <2>3, <2>4, <2>5, <2>6
<1> QED
  BY <1>1, <1>2, <1>7, <1>8


-----------------------------------------------------------------------------
(* What is left of a text that is cut *)

\* u is what is left of s.
Begins(u, s) ==
    /\ u \in Seq(Nat) /\ Len(u) <= Len(s)
    /\ \A i \in 1..Len(u) : u[i] = s[i]

LEMMA SymbolBegins ==
    ASSUME NEW t \in Seq(Nat), IsSymbol(t), NEW u, Begins(u, t), Len(u) # 0
    PROVE  IsSymbol(u)
<1>1. /\ t[1] \in Upper \cup Lower
      /\ AllIn(Before(Equal, t), Digits \cup Upper \cup Lower)
      /\ AllIn(After(Equal, t), Free)
  BY DEF IsSymbol, Free
<1>2. /\ u \in Seq(Nat) /\ Len(u) \in Nat \ {0} /\ Len(t) \in Nat /\ Len(u) <= Len(t)
      /\ \A i \in 1..Len(u) : i \in 1..Len(t) /\ u[i] = t[i]
  BY DEF Begins
<1>3. PICK e : e = IndexOf(Equal, t)
  OBVIOUS
<1>4. PICK d : d = IndexOf(Equal, u)
  OBVIOUS
<1>5. /\ e \in 0..Len(t) /\ (e # 0 => t[e] = Equal)
      /\ \A i \in 1..Len(t) : t[i] = Equal => e # 0 /\ e <= i
  BY <1>3, IndexOfFirst
<1>6. /\ d \in 0..Len(u) /\ (d # 0 => u[d] = Equal)
      /\ \A i \in 1..Len(u) : u[i] = Equal => d # 0 /\ d <= i
  BY <1>2, <1>4, IndexOfFirst
<1>7. PICK b : b = Before(Equal, t)
  OBVIOUS
<1>8. PICK a : a = After(Equal, t)
  OBVIOUS
<1>9. PICK bu : bu = Before(Equal, u)
  OBVIOUS
<1>10. PICK au : au = After(Equal, u)
  OBVIOUS
<1>11. /\ b \in Seq(Nat) /\ \A i \in 1..Len(b) : b[i] = t[i]
       /\ e = 0 => b = t
       /\ e # 0 => Len(b) = e - 1
  BY <1>3, <1>7, BeforeType
<1>12. /\ bu \in Seq(Nat) /\ \A i \in 1..Len(bu) : bu[i] = u[i]
       /\ d = 0 => bu = u
       /\ d # 0 => Len(bu) = d - 1
  BY <1>2, <1>4, <1>9, BeforeType
<1>13. /\ a \in Seq(Nat)
       /\ e # 0 => Len(a) = Len(t) - e /\ \A i \in 1..Len(a) : a[i] = t[e + i]
  BY <1>3, <1>8, AfterType
<1>14. /\ au \in Seq(Nat) /\ (d = 0 => au = <<>>)
       /\ d # 0 => Len(au) = Len(u) - d /\ \A i \in 1..Len(au) : au[i] = u[d + i]
  BY <1>2, <1>4, <1>10, AfterType
<1>15. d # 0 => e = d
  <2> SUFFICES ASSUME d # 0 PROVE e = d
    OBVIOUS
  <2>1. d \in 1..Len(u) /\ u[d] = Equal
    BY <1>6
  <2>2. e # 0 /\ e <= d
    BY <1>2, <1>5, <2>1
  <2>3. e \in 1..Len(u) /\ u[e] = Equal
    BY <1>2, <1>5, <2>1, <2>2
  <2>4. d <= e
    BY <1>6, <2>3
  <2> QED
    BY <1>5, <1>6, <2>2, <2>4
<1>16. d = 0 => e = 0 \/ e > Len(u)
  <2> SUFFICES ASSUME d = 0, e # 0, e <= Len(u) PROVE FALSE
    BY <1>2, <1>5
  <2>1. e \in 1..Len(u)
    BY <1>2, <1>5
  <2> QED
    BY <1>2, <1>5, <1>6, <2>1
<1>17. ASSUME NEW i \in 1..Len(bu) PROVE bu[i] \in Digits \cup Upper \cup Lower
  <2>1. i \in 1..Len(u) /\ bu[i] = t[i] /\ i \in 1..Len(t)
    <3>1. CASE d = 0
      BY <1>2, <1>12, <3>1
    <3>2. CASE d # 0
      BY <1>2, <1>6, <1>12, <3>2
    <3> QED
      BY <3>1, <3>2
  <2>2. i \in 1..Len(b)
    <3>1. CASE e = 0
      BY <1>11, <2>1, <3>1
    <3>2. CASE e # 0
      <4>1. i < e
        <5>1. CASE d = 0
          BY <1>2, <1>5, <1>16, <2>1, <3>2, <5>1
        <5>2. CASE d # 0
          BY <1>6, <1>12, <1>15, <5>2
        <5> QED
          BY <5>1, <5>2
      <4> QED
        BY <1>5, <1>11, <2>1, <3>2, <4>1
    <3> QED
      BY <3>1, <3>2
  <2>3. b[i] \in Digits \cup Upper \cup Lower
    BY <1>1, <1>7, <1>11, <2>2, AllInSeq
  <2> QED
    BY <1>11, <2>1, <2>2, <2>3
<1>18. ASSUME NEW i \in 1..Len(au) PROVE au[i] \in Free
  <2>1. d # 0
    <3>1. Len(<<>>) = 0
      OBVIOUS
    <3> QED
      BY <1>14, <3>1
  <2>2. d + i \in 1..Len(u) /\ au[i] = u[d + i] /\ i \in 1..(Len(t) - e)
    <3>1. PICK m \in Nat : m = Len(u)
      BY <1>2
    <3>2. PICK n \in Nat : n = Len(t)
      BY <1>2
    <3>3. m <= n /\ d \in 1..m /\ i \in 1..(m - d) /\ e = d
      BY <1>2, <1>6, <1>14, <1>15, <2>1, <3>1, <3>2
    <3>4. d + i \in 1..m /\ i \in 1..(n - e)
      BY <3>3
    <3>5. au[i] = u[d + i]
      BY <1>14, <2>1
    <3> QED
      BY <3>1, <3>2, <3>4, <3>5
  <2>3. i \in 1..Len(a) /\ a[i] = t[e + i]
    BY <1>13, <1>15, <2>1, <2>2
  <2>4. au[i] = a[i]
    BY <1>2, <1>15, <2>1, <2>2, <2>3
  <2> QED
    BY <1>1, <1>8, <1>13, <2>3, <2>4, AllInSeq
<1>19. u[1] \in Upper \cup Lower
  <2>1. 1 \in 1..Len(u)
    BY <1>2
  <2> QED
    BY <1>1, <1>2, <2>1
<1>20. AllIn(bu, Digits \cup Upper \cup Lower) /\ AllIn(au, Free)
  BY <1>12, <1>14, <1>17, <1>18, AllInSeq
<1> QED
  BY <1>9, <1>10, <1>19, <1>20 DEF IsSymbol, Free

\* A list that is cut behind its id has that id.
LEMMA ListBegins ==
    ASSUME NEW s \in Seq(Nat), Valid(s), Numerals(s) = {1},
           NEW u, Begins(u, s), Len(PieceAt(s, 1)) <= Len(u)
    PROVE  Valid(u) /\ Numerals(u) = {1} /\ PieceAt(u, 1) = PieceAt(s, 1)
<1>1. /\ u \in Seq(Nat) /\ Len(u) \in Nat /\ Len(s) \in Nat /\ Len(u) <= Len(s)
      /\ \A i \in 1..Len(u) : i \in 1..Len(s) /\ u[i] = s[i]
  BY DEF Begins
<1>2. Starts(u) \subseteq Starts(s) /\ \A i \in Starts(u) : i \in 1..Len(u)
  <2>1. ASSUME NEW i \in Starts(u) PROVE i \in Starts(s) /\ i \in 1..Len(u)
    <3>1. i \in 1..Len(u) /\ (i = 1 \/ u[i - 1] = Comma)
      BY DEF Starts
    <3>2. i # 1 => i - 1 \in 1..Len(u)
      BY <1>1, <3>1
    <3> QED
      BY <1>1, <3>1, <3>2 DEF Starts
  <2> QED
    BY <2>1
<1>3. ASSUME NEW i \in Starts(u), NEW p, p = PieceAt(s, i)
      PROVE  /\ p \in Seq(Nat) /\ Len(p) \in Nat \ {0}
             /\ Len(p) <= Len(u) - i + 1 => PieceAt(u, i) = p
             /\ Begins(PieceAt(u, i), p) /\ Len(PieceAt(u, i)) # 0
  <2>1. i \in 1..Len(u) /\ i \in 1..Len(s) /\ i \in Starts(s)
    BY <1>1, <1>2
  <2>2. IsPieceAt(s, i, p)
    BY <1>3, <2>1, PieceType
  <2>3. IsParam(p)
    BY <1>3, <2>1 DEF Valid
  <2>4. p \in Seq(Nat) /\ Len(p) \in Nat \ {0} /\ Len(p) <= Len(s) - i + 1
    BY <1>1, <2>1, <2>2, <2>3 DEF IsPieceAt, IsParam
  <2>5. \A j \in 1..Len(p) : p[j] = s[i - 1 + j] /\ p[j] # Comma
    BY <2>2 DEF IsPieceAt
  <2>6. PICK n \in Nat : n = Len(p)
    BY <2>4
  <2>7. CASE n <= Len(u) - i + 1
    <3>1. \A j \in 1..n : p[j] = u[i - 1 + j]
      <4> TAKE j \in 1..n
      <4>1. i - 1 + j \in 1..Len(u)
        BY <1>1, <2>1, <2>7
      <4> QED
        BY <1>1, <2>5, <2>6, <4>1
    <3>2. n # Len(u) - i + 1 => u[i + n] = Comma
      <4> SUFFICES ASSUME n # Len(u) - i + 1 PROVE u[i + n] = Comma
        OBVIOUS
      <4>1. i + n \in 1..Len(u) /\ n # Len(s) - i + 1
        <5>1. PICK l \in Nat : l = Len(u)
          BY <1>1
        <5>2. PICK m \in Nat : m = Len(s)
          BY <1>1
        <5>3. i \in 1..l /\ l <= m /\ n <= l - i + 1 /\ n # l - i + 1
          BY <1>1, <2>1, <2>7, <5>1, <5>2
        <5>4. i + n \in 1..l /\ n # m - i + 1
          BY <5>3
        <5> QED
          BY <5>1, <5>2, <5>4
      <4>2. s[i + n] = Comma
        BY <2>2, <2>6, <4>1 DEF IsPieceAt
      <4> QED
        BY <1>1, <4>1, <4>2
    <3>3. n \in 0..(Len(u) - i + 1)
      BY <1>1, <2>1, <2>7
    <3>4. IsPieceAt(u, i, p)
      BY <2>4, <2>5, <2>6, <3>1, <3>2, <3>3 DEF IsPieceAt
    <3>5. PieceAt(u, i) = p
      BY <1>1, <2>1, <3>4, PieceUnique
    <3>6. Begins(p, p)
      BY <2>4 DEF Begins
    <3> QED
      BY <2>4, <3>5, <3>6
  <2>8. CASE n > Len(u) - i + 1
    <3>1. PICK m : m = Len(u) - i + 1
      OBVIOUS
    <3>2. m \in Nat \ {0} /\ m <= n
      BY <1>1, <2>1, <2>8, <3>1
    <3>3. PICK q : q = SubSeq(p, 1, m)
      OBVIOUS
    <3>4. q \in Seq(Nat) /\ Len(q) = m /\ \A j \in 1..m : q[j] = p[j]
      <4>1. 1 \in 1..(Len(p) + 1) /\ m \in (1 - 1)..Len(p)
        BY <2>6, <3>2
      <4>2. q \in Seq(Nat) /\ Len(q) = m - 1 + 1 /\ \A j \in 1..(m - 1 + 1) : q[j] = p[1 + j - 1]
        BY <2>4, <3>3, <4>1, Part
      <4> QED
        BY <3>2, <4>2
    <3>5. \A j \in 1..m : q[j] = u[i - 1 + j] /\ q[j] # Comma
      <4> TAKE j \in 1..m
      <4>1. i - 1 + j \in 1..Len(u) /\ j \in 1..n
        BY <1>1, <2>1, <3>1, <3>2
      <4> QED
        BY <1>1, <2>5, <2>6, <3>4, <4>1
    <3>6. IsPieceAt(u, i, q)
      BY <3>1, <3>2, <3>4, <3>5 DEF IsPieceAt
    <3>7. PieceAt(u, i) = q
      BY <1>1, <2>1, <3>6, PieceUnique
    <3>8. Begins(q, p)
      BY <2>6, <3>2, <3>4 DEF Begins
    <3>9. ~(Len(p) <= Len(u) - i + 1)
      BY <1>1, <2>1, <2>6, <2>8
    <3> QED
      BY <2>4, <3>2, <3>4, <3>7, <3>8, <3>9
  <2> QED
    BY <1>1, <2>1, <2>6, <2>7, <2>8
<1>4. 1 \in Starts(u) /\ PieceAt(u, 1) = PieceAt(s, 1)
  <2>1. PICK p : p = PieceAt(s, 1)
    OBVIOUS
  <2>2. 1 \in Starts(s) /\ 1 \in 1..Len(s)
    BY DEF Numerals, Starts
  <2>3. p \in Seq(Nat) /\ Len(p) \in Nat \ {0}
    <3>1. IsParam(p) /\ IsPieceAt(s, 1, p)
      BY <2>1, <2>2, PieceType DEF Valid
    <3> QED
      BY <3>1 DEF IsPieceAt, IsParam
  <2>4. 1 \in 1..Len(u) /\ Len(p) <= Len(u) - 1 + 1
    BY <1>1, <2>1, <2>3
  <2>5. 1 \in Starts(u)
    BY <2>4 DEF Starts
  <2> QED
    BY <1>3, <2>1, <2>4, <2>5
<1>5. ASSUME NEW i \in Starts(u), i # 1
      PROVE  IsParam(PieceAt(u, i)) /\ ~IsNumeral(PieceAt(u, i))
  <2>1. PICK p : p = PieceAt(s, i)
    OBVIOUS
  <2>2. PICK q : q = PieceAt(u, i)
    OBVIOUS
  <2>3. p \in Seq(Nat) /\ Begins(q, p) /\ Len(q) # 0
    BY <1>3, <2>1, <2>2
  <2>4. i \in Starts(s) /\ ~IsNumeral(p) /\ IsParam(p)
    <3>1. i \in Starts(s) /\ i \notin Numerals(s)
      BY <1>2, <1>5
    <3> QED
      BY <2>1, <3>1 DEF Numerals, Valid
  <2>5. IsSymbol(q)
    BY <2>3, <2>4, SymbolBegins DEF IsParam
  <2>6. q[1] = p[1]
    <3>1. 1 \in 1..Len(q)
      BY <2>3 DEF Begins
    <3> QED
      BY <2>3, <3>1 DEF Begins
  <2>7. ~IsNumeral(q) /\ Len(q) > 0
    <3>1. Len(q) \in Nat
      BY <2>3 DEF Begins
    <3> QED
      BY <2>3, <2>4, <2>6, <3>1 DEF IsNumeral
  <2> QED
    BY <2>2, <2>5, <2>7 DEF IsParam
<1>6. IsParam(PieceAt(s, 1)) /\ IsNumeral(PieceAt(s, 1))
  BY DEF Numerals, Valid
<1> QED
  BY <1>4, <1>5, <1>6 DEF Valid, Numerals


-----------------------------------------------------------------------------
(* Callsigns *)

LEMMA StripType ==
    ASSUME NEW s \in Seq(Nat)
    PROVE  /\ LStrip(s) \in Seq(Nat) /\ Strip(s) \in Seq(Nat)
           /\ Len(s) # 0 /\ Without(Space, s) => Strip(s) = s
<1>1. Len(s) \in Nat /\ DOMAIN s = 1..Len(s)
  OBVIOUS
<1>2. PICK f : f = SelectInSeq(s, LAMBDA c : ~IsSpace(c))
  OBVIOUS
<1> DEFINE I == {i \in 1..Len(s) : s[i] # Space}
<1>3. f = IF I # {} THEN Min(I) ELSE 0
  BY <1>2 DEF SelectInSeq, IsSpace
<1>4. AllIn(s, {Space}) <=> I = {}
  BY <1>1 DEF AllIn
<1>5. I # {} => f \in I /\ \A k \in I : f <= k
  <2>1. I \in SUBSET Nat
    OBVIOUS
  <2> HIDE DEF I
  <2> QED
    BY <1>3, <2>1, Least DEF Min
<1>6. PICK t : t = LStrip(s)
  OBVIOUS
<1>7. t = IF I = {} THEN <<>> ELSE Cut(f - 1, s)
  <2> HIDE DEF I
  <2> QED
    BY <1>2, <1>4, <1>6 DEF LStrip
<1>8. t \in Seq(Nat)
  <2>1. CASE I = {}
    BY <1>7, <2>1
  <2>2. CASE I # {}
    <3>1. f \in 1..Len(s)
      BY <1>5, <2>2
    <3>2. f - 1 \in 0..Len(s) /\ t = Cut(f - 1, s)
      BY <1>1, <1>7, <2>2, <3>1
    <3> QED
      BY <3>2, CutType
  <2> QED
    BY <2>1, <2>2
<1>9. Len(t) \in Nat
  BY <1>8
<1>10. PICK l : l = SelectLastInSeq(t, LAMBDA c : ~IsSpace(c))
  OBVIOUS
<1> DEFINE J == {i \in 1..Len(t) : t[i] # Space}
<1>11. l = IF J # {} THEN Max(J) ELSE 0
  BY <1>10 DEF SelectLastInSeq, IsSpace
<1>12. l \in 0..Len(t) /\ (J # {} => l \in J /\ \A k \in J : k <= l)
  <2>1. J \in SUBSET (1..Len(t))
    OBVIOUS
  <2> HIDE DEF J
  <2>2. CASE J = {}
    BY <1>9, <1>11, <2>2
  <2>3. CASE J # {}
    <3>1. Max(J) \in J /\ \A k \in J : k <= Max(J)
      BY <1>9, <2>1, <2>3, Greatest
    <3>2. l \in J /\ \A k \in J : k <= l
      BY <1>11, <2>3, <3>1
    <3>3. l \in 1..Len(t)
      BY <2>1, <3>2
    <3> QED
      BY <1>9, <3>2, <3>3
  <2> QED
    BY <2>2, <2>3
<1>13. Strip(s) = SubSeq(t, 1, l)
  BY <1>6, <1>10 DEF Strip, RStrip
<1>14. Strip(s) \in Seq(Nat)
  <2>1. 1 \in 1..(Len(t) + 1) /\ l \in (1 - 1)..Len(t)
    BY <1>9, <1>12
  <2> QED
    BY <1>8, <1>13, <2>1, Part
<1>15. ASSUME Len(s) # 0, Without(Space, s) PROVE Strip(s) = s
  <2>1. 1 \in I
    BY <1>1, <1>15 DEF Without
  <2>2. f = 1
    BY <1>5, <2>1
  <2>3. t = s
    <3>1. t = Cut(0, s)
      BY <1>7, <2>1, <2>2
    <3>2. t = SubSeq(s, 1, Len(s))
      BY <3>1 DEF Cut
    <3> QED
      BY <3>2, SubSeqFull
  <2>4. Len(t) \in J
    BY <1>1, <1>15, <2>3 DEF Without
  <2>5. l = Len(t)
    BY <1>9, <1>12, <2>4
  <2> QED
    BY <1>13, <2>3, <2>5, SubSeqFull
<1> QED
  BY <1>6, <1>8, <1>14, <1>15

\* The name of a station.
IsName(c) == c \in Seq(Nat) /\ IsCallsign(c)

LEMMA NameType ==
    ASSUME NEW c, IsName(c)
    PROVE  /\ c \in Seq(Nat) /\ Len(c) \in 2..10 /\ c # NoCallsign
           /\ AllIn(c, Digits \cup Upper \cup {Dash})
           /\ Without(Space, c) /\ Without(Less, c) /\ Without(Colon, c)
           /\ CallsignOf(c) = c
<1>1. PICK p : p = Before(Dash, c)
  OBVIOUS
<1>2. PICK a : a = After(Dash, c)
  OBVIOUS
<1>3. PICK k : k = IndexOf(Dash, c)
  OBVIOUS
<1>4. /\ c \in Seq(Nat) /\ Len(c) >= 2 /\ Len(c) \in Nat
      /\ k # 0 => Len(a) \in 1..2 /\ AllIn(a, Digits)
      /\ Len(p) \in 2..7 /\ AllIn(p, Digits \cup Upper)
  BY <1>1, <1>2, <1>3 DEF IsName, IsCallsign
<1>5. /\ p \in Seq(Nat) /\ \A i \in 1..Len(p) : p[i] = c[i]
      /\ k = 0 => p = c
      /\ k # 0 => Len(p) = k - 1
  BY <1>1, <1>3, <1>4, BeforeType
<1>6. a \in Seq(Nat) /\ (k # 0 => Len(a) = Len(c) - k /\ \A i \in 1..Len(a) : a[i] = c[k + i])
  BY <1>2, <1>3, <1>4, AfterType
<1>7. k \in 0..Len(c) /\ (k # 0 => c[k] = Dash)
  BY <1>3, <1>4, IndexOfFirst
<1>8. Len(c) \in 2..10
  <2>1. CASE k = 0
    BY <1>4, <1>5, <2>1
  <2>2. CASE k # 0
    <3>1. PICK n \in Nat : n = Len(c)
      BY <1>4
    <3>4. n >= 2 /\ k \in Nat
      BY <1>4, <1>7, <3>1
    <3>5. n - k \in 1..2
      BY <1>4, <1>6, <2>2, <3>1
    <3>6. k - 1 \in 2..7
      BY <1>4, <1>5, <2>2
    <3>2. n >= 2 /\ n - k \in 1..2 /\ k - 1 \in 2..7 /\ k \in Nat
      BY <3>4, <3>5, <3>6
    <3>3. n \in 2..10
      BY <3>2
    <3> QED
      BY <3>1, <3>3
  <2> QED
    BY <2>1, <2>2
<1>9. ASSUME NEW i \in 1..Len(c) PROVE c[i] \in Digits \cup Upper \cup {Dash}
  <2>1. CASE i \in 1..Len(p)
    <3>1. p[i] \in Digits \cup Upper
      BY <1>4, <1>5, <2>1, AllInSeq
    <3> QED
      BY <1>5, <2>1, <3>1
  <2>2. CASE i \notin 1..Len(p)
    <3>1. k # 0 /\ i >= k
      BY <1>4, <1>5, <1>7, <2>2
    <3>2. CASE i = k
      BY <1>7, <3>1, <3>2
    <3>3. CASE i # k
      <4>1. PICK j : j = i - k
        OBVIOUS
      <4>2. j \in 1..Len(a) /\ i = k + j
        <5>1. PICK n \in Nat : n = Len(c)
          BY <1>4
        <5>2. Len(a) = n - k /\ i \in 1..n /\ k \in 0..n
          BY <1>6, <1>7, <3>1, <5>1
        <5>3. j \in 1..(n - k) /\ i = k + j
          BY <3>1, <3>3, <4>1, <5>2
        <5> QED
          BY <5>2, <5>3
      <4>3. a[j] \in Digits
        BY <1>4, <1>6, <3>1, <4>2, AllInSeq
      <4> QED
        BY <1>6, <3>1, <4>2, <4>3
    <3> QED
      BY <3>2, <3>3
  <2> QED
    BY <2>1, <2>2
<1>10. AllIn(c, Digits \cup Upper \cup {Dash})
  BY <1>4, <1>9, AllInSeq
<1>11. Without(Space, c) /\ Without(Less, c) /\ Without(Colon, c)
  <2>1. \A x \in Digits \cup Upper \cup {Dash} : x # Space /\ x # Less /\ x # Colon
    BY DEF Digits, Upper, Dash, Space, Less, Colon
  <2> QED
    BY <1>9, <2>1 DEF Without
<1>12. CallsignOf(c) = c
  <2>1. Uppercase(c) = c
    BY <1>4, <1>10, UppercaseSame
  <2>2. Strip(c) = c
    BY <1>4, <1>11, StripType
  <2> QED
    BY <2>1, <2>2 DEF CallsignOf, IsName
<1>13. c # NoCallsign
  BY <1>8 DEF NoCallsign
<1> QED
  BY <1>4, <1>8, <1>10, <1>11, <1>12, <1>13

LEMMA CallsignType ==
    ASSUME NEW s \in Seq(Nat)
    PROVE  CallsignOf(s) = NoCallsign \/ IsName(CallsignOf(s))
<1>1. PICK t : t = Uppercase(s)
  OBVIOUS
<1>2. t \in Seq(Nat)
  BY <1>1, UppercaseType
<1>3. PICK u : u = Strip(t)
  OBVIOUS
<1>4. u \in Seq(Nat)
  BY <1>2, <1>3, StripType
<1> QED
  BY <1>1, <1>3, <1>4 DEF CallsignOf, IsName


-----------------------------------------------------------------------------
(* Packets *)

WellFormed(p) ==
    /\ p = [to |-> p.to, from |-> p.from, params |-> p.params, msg |-> p.msg]
    /\ IsName(p.to) /\ IsName(p.from) /\ p.msg \in Seq(Nat)
    /\ p.params = [valid |-> TRUE, ident |-> p.params.ident, items |-> p.params.items]
    /\ p.params.ident \in 1..MaxIdent /\ IsItems(p.params.items)

\* w begins with the callsigns of a packet.
Headed(w, to, from) ==
    /\ w \in Seq(Nat) /\ Len(to) + Len(from) + 2 <= Len(w)
    /\ \A i \in 1..Len(to) : w[i] = to[i]
    /\ w[Len(to) + 1] = Less
    /\ \A i \in 1..Len(from) : w[Len(to) + 1 + i] = from[i]
    /\ w[Len(to) + Len(from) + 2] = Colon

LEMMA HeaderIsRead ==
    ASSUME NEW to, NEW from, IsName(to), IsName(from), NEW w, Headed(w, to, from),
           NEW less, less = IndexOf(Less, w), NEW colon, colon = IndexOf(Colon, w)
    PROVE  /\ less = Len(to) + 1 /\ colon = Len(to) + Len(from) + 2
           /\ SubSeq(w, 1, less - 1) = to /\ SubSeq(w, less + 1, colon - 1) = from
<1>1. /\ to \in Seq(Nat) /\ from \in Seq(Nat)
      /\ Without(Less, to) /\ Without(Colon, to) /\ Without(Colon, from)
  BY NameType
<1>2. PICK m \in Nat : m = Len(to)
  BY <1>1
<1>3. PICK n \in Nat : n = Len(from)
  BY <1>1
<1>4. PICK l : l = Len(w)
  OBVIOUS
<1>5. /\ w \in Seq(Nat) /\ l \in Nat /\ m + n + 2 <= l
      /\ \A i \in 1..m : w[i] = to[i] /\ to[i] # Less /\ to[i] # Colon
      /\ w[m + 1] = Less
      /\ \A i \in 1..n : w[m + 1 + i] = from[i] /\ from[i] # Colon
      /\ w[m + n + 2] = Colon
  <2>1. w \in Seq(Nat) /\ l \in Nat /\ m + n + 2 <= l
    BY <1>2, <1>3, <1>4 DEF Headed
  <2>2. \A i \in 1..m : w[i] = to[i] /\ to[i] # Less /\ to[i] # Colon
    BY <1>1, <1>2 DEF Headed, Without
  <2>3. w[m + 1] = Less /\ w[m + n + 2] = Colon
    BY <1>2, <1>3 DEF Headed
  <2>4. \A i \in 1..n : w[m + 1 + i] = from[i] /\ from[i] # Colon
    BY <1>1, <1>2, <1>3 DEF Headed, Without
  <2> QED
    BY <2>1, <2>2, <2>3, <2>4
<1>6. less = m + 1
  <2>1. PICK k : k = m + 1
    OBVIOUS
  <2>2. k \in 1..Len(w) /\ w[k] = Less
    BY <1>4, <1>5, <2>1
  <2>3. \A j \in 1..(k - 1) : w[j] # Less
    <3>1. \A j \in 1..(k - 1) : j \in 1..m
      BY <2>1
    <3> QED
      BY <1>5, <3>1
  <2>4. IndexOf(Less, w) = k
    BY <1>5, <2>2, <2>3, IndexOfIs
  <2> QED
    BY <2>1, <2>4
<1>7. colon = m + n + 2
  <2>1. m + n + 2 \in 1..Len(w)
    BY <1>4, <1>5
  <2>2. ASSUME NEW j \in 1..((m + n + 2) - 1) PROVE w[j] # Colon
    <3>1. CASE j \in 1..m
      BY <1>5, <3>1
    <3>2. CASE j = m + 1
      BY <1>5, <3>2 DEF Less, Colon
    <3>3. CASE j > m + 1
      <4>1. PICK i : i = j - (m + 1)
        OBVIOUS
      <4>2. i \in 1..n /\ j = m + 1 + i
        BY <3>3, <4>1
      <4> QED
        BY <1>5, <4>2
    <3> QED
      BY <3>1, <3>2, <3>3
  <2> QED
    BY <1>5, <2>1, <2>2, IndexOfIs
<1>8. SubSeq(w, 1, less - 1) = to
  <2>1. PICK t : t = SubSeq(w, 1, m)
    OBVIOUS
  <2>2. 1 \in 1..(Len(w) + 1) /\ m \in (1 - 1)..Len(w)
    BY <1>4, <1>5
  <2>3. t \in Seq(Nat) /\ Len(t) = m - 1 + 1 /\ \A i \in 1..(m - 1 + 1) : t[i] = w[1 + i - 1]
    BY <1>5, <2>1, <2>2, Part
  <2>4. Len(t) = Len(to) /\ \A i \in 1..Len(t) : t[i] = to[i]
    BY <1>2, <1>5, <2>3
  <2>5. t = to
    BY <1>1, <2>3, <2>4, SeqEqual
  <2> QED
    BY <1>6, <2>1, <2>5
<1>9. SubSeq(w, less + 1, colon - 1) = from
  <2>1. PICK t : t = SubSeq(w, m + 2, m + n + 1)
    OBVIOUS
  <2>2. m + 2 \in 1..(Len(w) + 1) /\ m + n + 1 \in ((m + 2) - 1)..Len(w)
    BY <1>4, <1>5
  <2>3. /\ t \in Seq(Nat) /\ Len(t) = (m + n + 1) - (m + 2) + 1
        /\ \A i \in 1..((m + n + 1) - (m + 2) + 1) : t[i] = w[(m + 2) + i - 1]
    BY <1>5, <2>1, <2>2, Part
  <2>4. Len(t) = n /\ \A i \in 1..n : t[i] = from[i]
    <3>1. (m + n + 1) - (m + 2) + 1 = n /\ \A i \in 1..n : (m + 2) + i - 1 = m + 1 + i
      OBVIOUS
    <3> QED
      BY <1>5, <2>3, <3>1
  <2>5. t = from
    BY <1>1, <1>3, <2>3, <2>4, SeqEqual
  <2>6. less + 1 = m + 2 /\ colon - 1 = m + n + 1
    BY <1>6, <1>7
  <2> QED
    BY <2>1, <2>5, <2>6
<1> QED
  BY <1>2, <1>3, <1>6, <1>7, <1>8, <1>9

LEMMA DecodeOfParts ==
    ASSUME NEW to, NEW from, IsName(to), IsName(from),
           NEW w, NEW preamble, preamble = Before(Space, w), Headed(preamble, to, from),
           NEW params, params = ParamsOf(Cut(Len(to) + Len(from) + 2, preamble)), params.ident # 0
    PROVE  DecodeL3(w) = [to |-> to, from |-> from, params |-> params, msg |-> After(Space, w)]
<1>1. PICK less : less = IndexOf(Less, preamble)
  OBVIOUS
<1>2. PICK colon : colon = IndexOf(Colon, preamble)
  OBVIOUS
<1>3. /\ less = Len(to) + 1 /\ colon = Len(to) + Len(from) + 2
      /\ SubSeq(preamble, 1, less - 1) = to /\ SubSeq(preamble, less + 1, colon - 1) = from
  BY <1>1, <1>2, HeaderIsRead
<1>4. CallsignOf(to) = to /\ CallsignOf(from) = from /\ to # NoCallsign /\ from # NoCallsign
      /\ Len(to) \in Nat /\ Len(from) \in Nat
  BY NameType
<1>5. less # 0 /\ ~(colon < less)
  BY <1>3, <1>4
<1>6. CallsignOf(SubSeq(preamble, 1, less - 1)) = to /\ CallsignOf(SubSeq(preamble, less + 1, colon - 1)) = from
  BY <1>3, <1>4
<1>7. params = ParamsOf(Cut(colon, preamble))
  BY <1>3
<1> QED
  BY <1>1, <1>2, <1>4, <1>5, <1>6, <1>7 DEF DecodeL3


\* Joined without a character, the joined text is without it.
LEMMA JoinWithout ==
    ASSUME NEW s \in Seq(Nat), NEW c, NEW u \in Seq(Nat), NEW t, Joins(t, s, c, u),
           NEW d, d # c, Without(d, s), Without(d, u)
    PROVE  Without(d, t)
<1>1. PICK m \in Nat : m = Len(s)
  OBVIOUS
<1>2. PICK n \in Nat : n = Len(u)
  OBVIOUS
<1>3. Len(t) = m + 1 + n
  BY <1>1, <1>2 DEF Joins
<1>4. ASSUME NEW i \in 1..(m + 1 + n) PROVE t[i] # d
  <2>1. CASE i \in 1..m
    BY <1>1, <2>1 DEF Joins, Without
  <2>2. CASE i = m + 1
    BY <1>1, <2>2 DEF Joins
  <2>3. CASE i > m + 1
    <3>1. PICK j : j = i - (m + 1)
      OBVIOUS
    <3>2. j \in 1..n /\ i = m + 1 + j
      BY <2>3, <3>1
    <3> QED
      BY <1>1, <1>2, <3>2 DEF Joins, Without
  <2> QED
    BY <2>1, <2>2, <2>3
<1> QED
  BY <1>3, <1>4 DEF Without

\* The parts of what is written of a packet, where s is written of its parameters.
IsPreamble(pre, p, s) ==
    /\ Joins(Whole(p), pre, Space, p.msg)
    /\ pre \in Seq(Nat) /\ Headed(pre, p.to, p.from) /\ Without(Space, pre)
    /\ s \in Seq(Nat) /\ Len(pre) = Len(p.to) + Len(p.from) + 2 + Len(s)
    /\ \A i \in 1..Len(s) : pre[Len(p.to) + Len(p.from) + 2 + i] = s[i]

LEMMA WholeParts ==
    ASSUME NEW p, WellFormed(p), NEW s, s = Serialized(p.params)
    PROVE  \E preamble : IsPreamble(preamble, p, s)
<1>1. PICK to : to = p.to
  OBVIOUS
<1>2. PICK from : from = p.from
  OBVIOUS
<1>3. /\ to \in Seq(Nat) /\ Without(Space, to) /\ from \in Seq(Nat) /\ Without(Space, from)
      /\ p.msg \in Seq(Nat)
  BY <1>1, <1>2, NameType DEF WellFormed
<1>4. s \in Seq(Nat) /\ Without(Space, s)
  <2>1. PICK q : q = p.params
    OBVIOUS
  <2>2. q = [valid |-> TRUE, ident |-> q.ident, items |-> q.items] /\ q.ident \in 1..MaxIdent /\ IsItems(q.items)
    BY <2>1 DEF WellFormed
  <2> QED
    BY <2>1, <2>2, ParamsAreRead
<1>5. Less \in Nat /\ Colon \in Nat /\ Space \in Nat /\ Space # Less /\ Space # Colon
  BY DEF Less, Colon, Space
<1>6. PICK t : t = to \o <<Less>> \o from
  OBVIOUS
<1>7. Joins(t, to, Less, from)
  BY <1>3, <1>5, <1>6, JoinOfThree
<1>8. t \in Seq(Nat) /\ Without(Space, t)
  <2>1. t \in Seq(Nat)
    BY <1>7 DEF Joins
  <2>2. Without(Space, t)
    BY <1>3, <1>5, <1>7, JoinWithout
  <2> QED
    BY <2>1, <2>2
<1>9. PICK r : r = t \o <<Colon>> \o s
  OBVIOUS
<1>10. Joins(r, t, Colon, s)
  BY <1>4, <1>5, <1>8, <1>9, JoinOfThree
<1>11. r \in Seq(Nat) /\ Without(Space, r)
  <2>1. r \in Seq(Nat)
    BY <1>10 DEF Joins
  <2>2. Without(Space, r)
    BY <1>4, <1>5, <1>8, <1>10, JoinWithout
  <2> QED
    BY <2>1, <2>2
<1>12. Whole(p) = r \o <<Space>> \o p.msg
  BY <1>1, <1>2, <1>6, <1>9 DEF Whole
<1>13. Joins(Whole(p), r, Space, p.msg)
  BY <1>3, <1>5, <1>11, <1>12, JoinOfThree
<1>14. PICK m \in Nat : m = Len(to)
  BY <1>3
<1>15. PICK n \in Nat : n = Len(from)
  BY <1>3
<1>16. PICK l \in Nat : l = Len(s)
  BY <1>4
<1>17. /\ Len(t) = m + 1 + n /\ t[m + 1] = Less
       /\ \A i \in 1..m : t[i] = to[i]
       /\ \A i \in 1..n : t[m + 1 + i] = from[i]
  BY <1>7, <1>14, <1>15 DEF Joins
<1>18. PICK k : k = m + n + 1
  OBVIOUS
<1>19. /\ Len(t) = k /\ k \in Nat /\ Len(r) = k + 1 + l /\ r[k + 1] = Colon
       /\ \A i \in 1..k : r[i] = t[i]
       /\ \A i \in 1..l : r[k + 1 + i] = s[i]
  <2>1. Len(t) = k /\ k \in Nat
    BY <1>17, <1>18
  <2> QED
    BY <1>10, <1>16, <2>1 DEF Joins
<1>20. Headed(r, to, from)
  <2>1. m + n + 2 <= Len(r) /\ k + 1 = m + n + 2
    BY <1>18, <1>19
  <2>2. \A i \in 1..m : r[i] = to[i]
    BY <1>17, <1>18, <1>19
  <2>3. r[m + 1] = Less
    <3>1. m + 1 \in 1..k
      BY <1>18
    <3> QED
      BY <1>17, <1>19, <3>1
  <2>4. \A i \in 1..n : r[m + 1 + i] = from[i]
    <3> TAKE i \in 1..n
    <3>1. m + 1 + i \in 1..k
      BY <1>18
    <3> QED
      BY <1>17, <1>19, <3>1
  <2>5. r[m + n + 2] = Colon
    BY <1>19, <2>1
  <2> QED
    BY <1>11, <1>14, <1>15, <2>1, <2>2, <2>3, <2>4, <2>5 DEF Headed
<1>21. Len(r) = Len(to) + Len(from) + 2 + Len(s)
  BY <1>14, <1>15, <1>16, <1>18, <1>19
<1>22. \A i \in 1..Len(s) : r[Len(to) + Len(from) + 2 + i] = s[i]
  <2>1. k + 1 = Len(to) + Len(from) + 2
    BY <1>14, <1>15, <1>18
  <2> QED
    BY <1>16, <1>19, <2>1
<1>23. IsPreamble(r, p, s)
  BY <1>1, <1>2, <1>4, <1>11, <1>13, <1>20, <1>21, <1>22 DEF IsPreamble
<1> QED
  BY <1>23

\* What is heard of a packet whose text may have lost its end.
Hears(h, p) ==
    /\ WellFormed(h) /\ h.to = p.to /\ h.from = p.from /\ h.params.ident = p.params.ident
    /\ Begins(h.msg, p.msg)
    /\ h.msg # <<>> => h.params = p.params

LEMMA WellFormedOfParts ==
    ASSUME NEW to, NEW from, NEW params, NEW msg, NEW p,
           p = [to |-> to, from |-> from, params |-> params, msg |-> msg],
           IsName(to), IsName(from), msg \in Seq(Nat),
           params = [valid |-> TRUE, ident |-> params.ident, items |-> params.items],
           params.ident \in 1..MaxIdent, IsItems(params.items)
    PROVE  WellFormed(p)
<1>1. p.to = to /\ p.from = from /\ p.params = params /\ p.msg = msg
  OBVIOUS
<1> QED
  BY <1>1 DEF WellFormed

LEMMA TextIsHeard ==
    ASSUME NEW p, WellFormed(p), NEW w, Begins(w, Whole(p)),
           Len(p.to) + Len(p.from) + 2 + Len(Itoa(p.params.ident)) <= Len(w)
    PROVE  /\ Hears(DecodeL3(w), p)
           /\ w = Whole(p) => DecodeL3(w) = p
<1>1. PICK s : s = Serialized(p.params)
  OBVIOUS
<1>17. PICK pre : IsPreamble(pre, p, s)
  BY <1>1, WholeParts
<1>2. /\ Joins(Whole(p), pre, Space, p.msg)
      /\ pre \in Seq(Nat) /\ Headed(pre, p.to, p.from) /\ Without(Space, pre)
      /\ s \in Seq(Nat) /\ Len(pre) = Len(p.to) + Len(p.from) + 2 + Len(s)
      /\ \A i \in 1..Len(s) : pre[Len(p.to) + Len(p.from) + 2 + i] = s[i]
  BY <1>17 DEF IsPreamble
<1>3. /\ p = [to |-> p.to, from |-> p.from, params |-> p.params, msg |-> p.msg]
      /\ IsName(p.to) /\ IsName(p.from) /\ p.msg \in Seq(Nat)
      /\ p.params = [valid |-> TRUE, ident |-> p.params.ident, items |-> p.params.items]
      /\ p.params.ident \in 1..MaxIdent /\ IsItems(p.params.items)
  BY DEF WellFormed
<1>4. Len(p.to) \in Nat /\ Len(p.from) \in Nat
  BY <1>3, NameType
<1>18. PICK lt \in Nat : lt = Len(p.to)
  BY <1>4
<1>20. PICK lf \in Nat : lf = Len(p.from)
  BY <1>4
<1>21. PICK h \in Nat : h = lt + lf + 2
  OBVIOUS
<1>5. h = Len(p.to) + Len(p.from) + 2
  BY <1>18, <1>20, <1>21
<1>6. PICK W : W = Whole(p)
  OBVIOUS
<1>19. pre \in Seq(Nat)
  BY <1>2
<1>7. PICK lp \in Nat : lp = Len(pre)
  BY <1>19
<1>8. PICK lm \in Nat : lm = Len(p.msg)
  BY <1>3
<1>9. PICK lw : lw = Len(w)
  OBVIOUS
<1>10. PICK ls \in Nat : ls = Len(s)
  BY <1>2
<1>11. /\ lp = h + ls /\ Len(W) = lp + 1 + lm /\ \A i \in 1..ls : pre[h + i] = s[i]
       /\ \A i \in 1..lp : W[i] = pre[i]
       /\ W[lp + 1] = Space
       /\ \A i \in 1..lm : W[lp + 1 + i] = p.msg[i]
  BY <1>2, <1>5, <1>6, <1>7, <1>8, <1>10 DEF Joins
<1>12. w \in Seq(Nat) /\ lw \in Nat /\ lw <= lp + 1 + lm /\ \A i \in 1..lw : w[i] = W[i]
  BY <1>6, <1>9, <1>11 DEF Begins
<1>13. Lists(s, p.params.ident, p.params.items)
  BY <1>1, <1>3, SerializedIsRead
<1>14. ParamsOf(s) = p.params
  <2>1. PICK q : q = p.params
    OBVIOUS
  <2>2. q = [valid |-> TRUE, ident |-> q.ident, items |-> q.items] /\ q.ident \in 1..MaxIdent /\ IsItems(q.items)
    BY <1>3, <2>1
  <2> QED
    BY <1>1, <2>1, <2>2, ParamsAreRead
<1>15. CASE lw > lp
  <2>1. PICK n : n = lw - (lp + 1)
    OBVIOUS
  <2>2. n \in Nat /\ lw = lp + 1 + n /\ n <= lm
    BY <1>12, <1>15, <2>1
  <2>3. PICK msg : msg = SubSeq(p.msg, 1, n)
    OBVIOUS
  <2>4. msg \in Seq(Nat) /\ Len(msg) = n /\ \A i \in 1..n : msg[i] = p.msg[i]
    <3>1. 1 \in 1..(Len(p.msg) + 1) /\ n \in (1 - 1)..Len(p.msg)
      BY <1>8, <2>2
    <3>2. msg \in Seq(Nat) /\ Len(msg) = n - 1 + 1 /\ \A i \in 1..(n - 1 + 1) : msg[i] = p.msg[1 + i - 1]
      BY <1>3, <2>3, <3>1, Part
    <3> QED
      BY <2>2, <3>2
  <2>5. Joins(w, pre, Space, msg)
    <3>1. Len(w) = Len(pre) + 1 + Len(msg)
      BY <1>7, <1>9, <2>2, <2>4
    <3>2. \A i \in 1..lp : w[i] = pre[i]
      BY <1>11, <1>12, <2>2
    <3>3. w[lp + 1] = Space
      <4>1. lp + 1 \in 1..lw
        BY <2>2
      <4> QED
        BY <1>11, <1>12, <4>1
    <3>4. \A i \in 1..n : w[lp + 1 + i] = msg[i]
      <4> TAKE i \in 1..n
      <4>1. lp + 1 + i \in 1..lw /\ i \in 1..lm
        BY <2>2
      <4> QED
        BY <1>11, <1>12, <2>4, <4>1
    <3> QED
      BY <1>7, <1>12, <2>4, <3>1, <3>2, <3>3, <3>4 DEF Joins
  <2>6. Before(Space, w) = pre /\ After(Space, w) = msg
    BY <1>2, <2>4, <2>5, Around DEF Space
  <2>7. Cut(h, pre) = s
    <3>1. PICK t : t = Cut(h, pre)
      OBVIOUS
    <3>2. h \in 0..Len(pre)
      BY <1>7, <1>11
    <3>3. t \in Seq(Nat) /\ Len(t) = Len(pre) - h /\ \A i \in 1..Len(t) : t[i] = pre[h + i]
      BY <1>2, <3>1, <3>2, CutType
    <3>4. Len(t) = ls /\ \A i \in 1..ls : t[i] = s[i]
      <4>1. Len(t) = ls
        <5>1. lp = h + ls
          BY <1>11
        <5>2. Len(t) = lp - h
          BY <1>7, <3>3
        <5> QED
          BY <5>1, <5>2
      <4> QED
        BY <1>11, <3>3, <4>1
    <3> QED
      BY <1>2, <1>10, <3>1, <3>3, <3>4, SeqEqual
  <2>8. DecodeL3(w) = [to |-> p.to, from |-> p.from, params |-> p.params, msg |-> msg]
    <3>1. p.params = ParamsOf(Cut(Len(p.to) + Len(p.from) + 2, pre))
      BY <1>5, <1>14, <2>7
    <3>2. p.params.ident # 0
      BY <1>3, IdentAssumption
    <3>3. pre = Before(Space, w) /\ Headed(pre, p.to, p.from)
      BY <1>2, <2>6
    <3> QED
      BY <1>3, <2>6, <3>1, <3>2, <3>3, DecodeOfParts
  <2>9. PICK d : d = DecodeL3(w)
    OBVIOUS
  <2>10. d.to = p.to /\ d.from = p.from /\ d.params = p.params /\ d.msg = msg
    BY <2>8, <2>9
  <2>11. WellFormed(d)
    BY <1>3, <2>4, <2>8, <2>9, WellFormedOfParts
  <2>12. Begins(msg, p.msg)
    BY <1>8, <2>2, <2>4 DEF Begins
  <2>13. Hears(d, p)
    BY <2>10, <2>11, <2>12 DEF Hears
  <2>14. ASSUME w = Whole(p) PROVE d = p
    <3>1. n = lm
      <4>1. lw = lp + 1 + lm
        BY <1>6, <1>9, <1>11, <2>14
      <4>2. n \in Nat /\ lp + 1 + n = lp + 1 + lm
        BY <2>2, <4>1
      <4> QED
        BY <4>2
    <3>2. msg = p.msg
      BY <1>3, <1>8, <2>4, <3>1, SeqEqual
    <3> QED
      BY <1>3, <2>8, <2>9, <3>2
  <2> QED
    BY <2>9, <2>13, <2>14
<1>16. CASE lw <= lp
  <2>1. PICK id : id = p.params.ident
    OBVIOUS
  <2>25. Itoa(id) \in Seq(Nat)
    <3>1. id \in Nat
      BY <1>3, <2>1, IdentAssumption
    <3> QED
      BY <3>1, ItoaType
  <2>2. PICK li \in Nat : li = Len(Itoa(id))
    BY <2>25
  <2>3. h + li <= lw
    BY <1>5, <1>9, <2>1, <2>2
  <2>4. \A i \in 1..lw : w[i] = pre[i]
    BY <1>11, <1>12, <1>16
  <2>5. Without(Space, w)
    <3>1. \A i \in 1..lp : pre[i] # Space
      BY <1>2, <1>7 DEF Without
    <3>2. \A i \in 1..lw : i \in 1..lp
      BY <1>7, <1>12, <1>16
    <3> QED
      BY <1>9, <2>4, <3>1, <3>2 DEF Without
  <2>6. Before(Space, w) = w /\ After(Space, w) = <<>>
    BY <1>12, <2>5, NoneThere
  <2>7. Headed(w, p.to, p.from)
    <3>1. PICK m \in Nat : m = Len(p.to) /\ m = lt
      BY <1>18
    <3>2. PICK n \in Nat : n = Len(p.from) /\ n = lf
      BY <1>20
    <3>3. h = m + n + 2 /\ h <= lw
      BY <1>12, <1>21, <2>3, <3>1, <3>2
    <3>4. /\ \A i \in 1..m : pre[i] = p.to[i]
          /\ pre[m + 1] = Less
          /\ \A i \in 1..n : pre[m + 1 + i] = p.from[i]
          /\ pre[m + n + 2] = Colon
      BY <1>2, <3>1, <3>2 DEF Headed
    <3>5. \A i \in 1..m : w[i] = p.to[i]
      BY <1>12, <2>4, <3>3, <3>4
    <3>6. w[m + 1] = Less /\ w[m + n + 2] = Colon
      <4>1. m + 1 \in 1..lw /\ m + n + 2 \in 1..lw
        BY <1>12, <3>3
      <4> QED
        BY <2>4, <3>4, <4>1
    <3>7. \A i \in 1..n : w[m + 1 + i] = p.from[i]
      <4> TAKE i \in 1..n
      <4>1. m + 1 + i \in 1..lw
        BY <1>12, <3>3
      <4> QED
        BY <2>4, <3>4, <4>1
    <3> QED
      BY <1>9, <1>12, <3>1, <3>2, <3>3, <3>5, <3>6, <3>7 DEF Headed
  <2>8. PICK u : u = Cut(h, w)
    OBVIOUS
  <2>9. u \in Seq(Nat) /\ Len(u) = lw - h /\ \A i \in 1..(lw - h) : u[i] = w[h + i]
    <3>1. h \in 0..Len(w)
      BY <1>9, <1>12, <2>3
    <3>2. u \in Seq(Nat) /\ Len(u) = Len(w) - h /\ \A i \in 1..Len(u) : u[i] = w[h + i]
      BY <1>12, <2>8, <3>1, CutType
    <3> QED
      BY <1>9, <3>2
  <2>10. Begins(u, s)
    <3>1. lw - h <= ls /\ lw - h \in Nat
      BY <1>11, <1>12, <1>16, <2>3
    <3>2. \A i \in 1..(lw - h) : u[i] = s[i]
      <4> TAKE i \in 1..(lw - h)
      <4>1. h + i \in 1..lw /\ i \in 1..ls
        BY <1>12, <2>3, <3>1
      <4> QED
        BY <1>11, <2>4, <2>9, <4>1
    <3> QED
      BY <1>10, <2>9, <3>1, <3>2 DEF Begins
  <2>11. /\ s \in Seq(Nat) /\ Valid(s) /\ Numerals(s) = {1} /\ PieceAt(s, 1) = Itoa(id)
    BY <1>13, <2>1 DEF Lists, Closed
  <2>12. Len(PieceAt(s, 1)) <= Len(u)
    BY <1>12, <2>2, <2>3, <2>9, <2>11
  <2>13. Valid(u) /\ Numerals(u) = {1} /\ PieceAt(u, 1) = Itoa(id)
    BY <2>10, <2>11, <2>12, ListBegins
  <2>14. PICK q : q = ParamsOf(u)
    OBVIOUS
  <2>15. q.ident = id /\ q.valid
    <3>1. Max(Numerals(u)) = 1
      <4>1. Numerals(u) \in SUBSET (1..1) /\ 1 \in Numerals(u) /\ \A k \in Numerals(u) : k <= 1
        BY <2>13
      <4> QED
        BY <4>1, GreatestIs
    <3>2. IdentOf(Itoa(id)) = id
      BY <1>3, <2>1, IdentOfItoa
    <3>3. Numerals(u) # {}
      BY <2>13
    <3>4. q = [valid |-> TRUE, ident |-> IdentOf(PieceAt(u, Max(Numerals(u)))), items |-> ItemsOf(u)]
      BY <2>13, <2>14, <3>3, ParamsOfParts
    <3> QED
      BY <2>13, <3>1, <3>2, <3>4
  <2>16. q # Invalid /\ id # 0
    BY <1>3, <2>1, <2>15, IdentAssumption DEF Invalid
  <2>17. q = [valid |-> TRUE, ident |-> q.ident, items |-> q.items] /\ IsItems(q.items)
    BY <2>9, <2>14, <2>16, ParamsType
  <2>18. DecodeL3(w) = [to |-> p.to, from |-> p.from, params |-> q, msg |-> <<>>]
    <3>1. q = ParamsOf(Cut(Len(p.to) + Len(p.from) + 2, w)) /\ q.ident # 0
      BY <1>5, <2>8, <2>14, <2>15, <2>16
    <3> QED
      BY <1>3, <2>6, <2>7, <3>1, DecodeOfParts
  <2>19. PICK d : d = DecodeL3(w)
    OBVIOUS
  <2>20. d.to = p.to /\ d.from = p.from /\ d.params = q /\ d.msg = <<>>
    BY <2>18, <2>19
  <2>21. WellFormed(d)
    <3>1. q.ident \in 1..MaxIdent /\ <<>> \in Seq(Nat)
      BY <1>3, <2>1, <2>15
    <3> QED
      BY <1>3, <2>17, <2>18, <2>19, <3>1, WellFormedOfParts
  <2>22. Begins(<<>>, p.msg)
    BY <1>8 DEF Begins
  <2>23. Hears(d, p)
    BY <2>1, <2>15, <2>20, <2>21, <2>22 DEF Hears
  <2>24. w # Whole(p)
    BY <1>6, <1>9, <1>11, <1>16
  <2> QED
    BY <2>19, <2>23, <2>24
<1> QED
  BY <1>12, <1>15, <1>16


LEMMA ValueWith ==
    ASSUME NEW items, IsItems(items), NEW k, NEW v, IsKey(k), IsValue(v)
    PROVE  /\ IsItems(With(items, k, v))
           /\ With(With(items, k, v), k, v) = With(items, k, v)
<1>1. PICK t : t = With(items, k, v)
  OBVIOUS
<1>2. PICK D : D = DOMAIN items \cup {k}
  OBVIOUS
<1>3. t = [x \in D |-> IF x = k THEN v ELSE items[x]]
  BY <1>1, <1>2 DEF With
<1>4. DOMAIN t = D /\ \A x \in D : t[x] = IF x = k THEN v ELSE items[x]
  BY <1>3
<1>5. IsFiniteSet(D)
  BY <1>2, FS_AddElement DEF IsItems
<1>6. \A x \in D : IsKey(x) /\ IsValue(t[x])
  BY <1>2, <1>4 DEF IsItems
<1>7. IsItems(t)
  <2>1. t = [x \in D |-> t[x]]
    BY <1>3, <1>4
  <2> QED
    BY <1>4, <1>5, <1>6, <2>1 DEF IsItems
<1>8. With(t, k, v) = t
  <2>1. With(t, k, v) = [x \in D \cup {k} |-> IF x = k THEN v ELSE t[x]]
    BY <1>4 DEF With
  <2>2. D \cup {k} = D
    BY <1>2
  <2>3. \A x \in D : (IF x = k THEN v ELSE t[x]) = IF x = k THEN v ELSE items[x]
    BY <1>4
  <2> QED
    BY <1>3, <2>1, <2>2, <2>3
<1> QED
  BY <1>1, <1>7, <1>8

LEMMA Earmark == IsKey(<<82>>) /\ IsValue(Naked) /\ Uppercase(<<82>>) = <<82>>
<1>1. PICK k : k = <<82>>
  OBVIOUS
<1>2. k \in Seq(Nat) /\ Len(k) = 1 /\ k[1] = 82
  BY <1>1
<1>3. 82 \in Upper
  BY DEF Upper
<1>4. \A i \in 1..Len(k) : k[i] = 82
  BY <1>2
<1>5. AllIn(k, Digits \cup Upper) /\ AllIn(k, Digits \cup Upper \cup {Dash})
  BY <1>2, <1>3, <1>4, AllInSeq
<1>6. Uppercase(k) = k
  BY <1>2, <1>5, UppercaseSame
<1> QED
  BY <1>1, <1>2, <1>3, <1>5, <1>6 DEF IsKey, IsValue

\* A repeater's packet.
LEMMA EarmarkedType ==
    ASSUME NEW p, WellFormed(p), NEW q, q = WithR(p)
    PROVE  /\ WellFormed(q) /\ WithR(q) = q
           /\ q.to = p.to /\ q.from = p.from /\ q.msg = p.msg
           /\ q.params.ident = p.params.ident
           /\ \A r : WellFormed(r) /\ r.params = p.params => WithR(r).params = q.params
<1>1. ASSUME NEW r, WellFormed(r)
      PROVE  WithR(r) = [to |-> r.to, from |-> r.from,
                         params |-> [valid |-> TRUE, ident |-> r.params.ident,
                                     items |-> With(r.params.items, <<82>>, Naked)],
                         msg |-> r.msg]
  <2>1. PICK v : v = r.params
    OBVIOUS
  <2>2. r = [to |-> r.to, from |-> r.from, params |-> v, msg |-> r.msg]
        /\ v = [valid |-> TRUE, ident |-> v.ident, items |-> v.items]
    BY <1>1, <2>1 DEF WellFormed
  <2>3. PICK i : i = Put(v.items, <<82>>, Naked)
    OBVIOUS
  <2>4. i = With(v.items, <<82>>, Naked)
    BY <2>3, Earmark DEF Put, With
  <2>5. WithR(r) = [r EXCEPT !.params = [@ EXCEPT !.items = i]]
    BY <2>1, <2>3 DEF WithR
  <2>6. [v EXCEPT !.items = i] = [valid |-> TRUE, ident |-> v.ident, items |-> i]
    <3>1. PICK n : n = v.ident
      OBVIOUS
    <3>2. PICK j : j = v.items
      OBVIOUS
    <3>3. v = [valid |-> TRUE, ident |-> n, items |-> j]
      BY <2>2, <3>1, <3>2
    <3>4. [v EXCEPT !.items = i] = [valid |-> TRUE, ident |-> n, items |-> i]
      <4>1. PICK b : b = TRUE
        OBVIOUS
      <4>2. v = [valid |-> b, ident |-> n, items |-> j]
        BY <3>3, <4>1
      <4>3. [v EXCEPT !.items = i] = [valid |-> b, ident |-> n, items |-> i]
        BY <4>2
      <4> QED
        BY <4>1, <4>3
    <3> QED
      BY <3>1, <3>4
  <2>7. WithR(r) = [to |-> r.to, from |-> r.from, params |-> [v EXCEPT !.items = i], msg |-> r.msg]
    BY <2>1, <2>2, <2>5
  <2> QED
    BY <2>1, <2>4, <2>6, <2>7
<1>2. PICK items : items = With(p.params.items, <<82>>, Naked)
  OBVIOUS
<1>3. IsItems(items) /\ With(items, <<82>>, Naked) = items
  BY <1>2, Earmark, ValueWith DEF WellFormed
<1>4. PICK params : params = [valid |-> TRUE, ident |-> p.params.ident, items |-> items]
  OBVIOUS
<1>5. params.ident = p.params.ident /\ params.items = items
  BY <1>4
<1>6. q = [to |-> p.to, from |-> p.from, params |-> params, msg |-> p.msg]
  BY <1>1, <1>2, <1>4
<1>7. q.to = p.to /\ q.from = p.from /\ q.msg = p.msg /\ q.params = params
  BY <1>6
<1>8. WellFormed(q)
  BY <1>3, <1>4, <1>5, <1>6, WellFormedOfParts DEF WellFormed
<1>9. WithR(q) = q
  <2>1. WithR(q) = [to |-> q.to, from |-> q.from,
                    params |-> [valid |-> TRUE, ident |-> q.params.ident,
                                items |-> With(q.params.items, <<82>>, Naked)],
                    msg |-> q.msg]
    BY <1>1, <1>8
  <2> QED
    BY <1>3, <1>4, <1>5, <1>6, <1>7, <2>1
<1>10. ASSUME NEW r, WellFormed(r), r.params = p.params PROVE WithR(r).params = q.params
  <2>1. WithR(r) = [to |-> r.to, from |-> r.from, params |-> params, msg |-> r.msg]
    BY <1>1, <1>2, <1>4, <1>10
  <2> QED
    BY <1>7, <2>1
<1> QED
  BY <1>5, <1>7, <1>8, <1>9, <1>10

-----------------------------------------------------------------------------
(* On the air *)

LEMMA EncodedType ==
    ASSUME NEW p, WellFormed(p), NEW w, w = EncodeL3(p)
    PROVE  /\ w \in Seq(Nat) /\ Begins(w, Whole(p))
           /\ Len(p.to) + Len(p.from) + 2 + Len(Itoa(p.params.ident)) <= Len(w)
           /\ Fits(p) => w = Whole(p)
<1>1. PICK s : s = Serialized(p.params)
  OBVIOUS
<1>2. PICK pre : IsPreamble(pre, p, s)
  BY <1>1, WholeParts
<1>3. PICK W : W = Whole(p)
  OBVIOUS
<1>4. IsName(p.to) /\ IsName(p.from) /\ p.msg \in Seq(Nat) /\ p.params.ident \in 1..MaxIdent
      /\ IsItems(p.params.items)
  BY DEF WellFormed
<1>5. PICK id : id = p.params.ident
  OBVIOUS
<1>6. id \in Nat /\ MaxIdent \in Nat /\ id <= MaxIdent /\ id # 0
  BY <1>4, <1>5, IdentAssumption
<1>7. Itoa(id) \in Seq(Nat) /\ Itoa(MaxIdent) \in Seq(Nat) /\ Len(Itoa(id)) <= Len(Itoa(MaxIdent))
  BY <1>6, ItoaType, ItoaMonotonic
<1>8. PICK li \in Nat : li = Len(Itoa(id))
  BY <1>7
<1>9. PICK lx \in Nat : lx = Len(Itoa(MaxIdent))
  BY <1>7
<1>22. Len(p.to) \in 2..10 /\ Len(p.from) \in 2..10
  BY <1>4, NameType
<1>10. PICK lt \in 2..10 : lt = Len(p.to)
  BY <1>22
<1>11. PICK lf \in 2..10 : lf = Len(p.from)
  BY <1>22
<1>23. PICK mp \in Nat : mp = MaxPayload
  BY RelayAssumption
<1>12. li <= lx /\ MaxPayload \in Nat /\ mp >= 22 + lx
  BY <1>7, <1>8, <1>9, <1>23, RelayAssumption
<1>13. lt + lf + 2 + li <= mp
  <2>1. lt \in Nat /\ lf \in Nat /\ lt <= 10 /\ lf <= 10
    OBVIOUS
  <2>2. li <= lx /\ mp >= 22 + lx
    BY <1>12
  <2> QED
    BY <2>1, <2>2
<1>14. s \in Seq(Nat)
  BY <1>2 DEF IsPreamble
<1>15. PICK ls \in Nat : ls = Len(s)
  BY <1>14
<1>16. li <= ls
  <2>1. Lists(s, id, p.params.items)
    BY <1>1, <1>4, <1>5, SerializedIsRead
  <2>2. PieceAt(s, 1) = Itoa(id) /\ 1 \in 1..Len(s)
    <3>1. 1 \in Numerals(s) /\ PieceAt(s, 1) = Itoa(id)
      BY <2>1 DEF Lists
    <3> QED
      BY <3>1 DEF Numerals, Starts
  <2>3. Len(Itoa(id)) <= Len(s) - 1 + 1
    <3>1. IsPieceAt(s, 1, Itoa(id))
      BY <1>14, <2>2, PieceType
    <3> QED
      BY <3>1 DEF IsPieceAt
  <2> QED
    BY <1>8, <1>15, <2>3
<1>17. W \in Seq(Nat) /\ \E lm \in Nat : Len(W) = lt + lf + 2 + ls + 1 + lm
  <2>1. Joins(W, pre, Space, p.msg) /\ Len(pre) = Len(p.to) + Len(p.from) + 2 + Len(s)
    BY <1>2, <1>3 DEF IsPreamble
  <2>2. PICK lm \in Nat : lm = Len(p.msg)
    BY <1>4
  <2>3. W \in Seq(Nat) /\ Len(W) = Len(pre) + 1 + lm
    BY <2>1, <2>2 DEF Joins
  <2>4. Len(pre) = lt + lf + 2 + ls
    BY <1>10, <1>11, <1>15, <2>1
  <2> QED
    BY <2>3, <2>4
<1>18. PICK lw \in Nat : lw = Len(W)
  BY <1>17
<1>19. lt + lf + 2 + li <= lw
  BY <1>16, <1>17, <1>18
<1>20. CASE lw <= mp
  <2>1. w = W
    BY <1>3, <1>18, <1>20, <1>23 DEF EncodeL3, Fits
  <2>2. Begins(w, W)
    BY <1>17, <1>18, <2>1 DEF Begins
  <2> QED
    BY <1>3, <1>5, <1>8, <1>10, <1>11, <1>17, <1>18, <1>19, <2>1, <2>2
<1>21. CASE lw > mp
  <2>1. ~Fits(p) /\ w = SubSeq(W, 1, mp)
    BY <1>3, <1>18, <1>21, <1>23 DEF EncodeL3, Fits
  <2>2. 1 \in 1..(Len(W) + 1) /\ mp \in (1 - 1)..Len(W)
    BY <1>12, <1>18, <1>21
  <2>3. /\ w \in Seq(Nat) /\ Len(w) = mp - 1 + 1
        /\ \A i \in 1..(mp - 1 + 1) : w[i] = W[1 + i - 1]
    BY <1>17, <2>1, <2>2, Part
  <2>4. Len(w) = mp /\ \A i \in 1..Len(w) : w[i] = W[i]
    BY <1>12, <2>3
  <2>5. Begins(w, W)
    BY <1>12, <1>18, <1>21, <2>3, <2>4 DEF Begins
  <2> QED
    BY <1>3, <1>5, <1>8, <1>10, <1>11, <1>13, <1>23, <2>1, <2>3, <2>4, <2>5
<1>24. lw <= mp \/ lw > mp
  OBVIOUS
<1> QED
  BY <1>20, <1>21, <1>24

\* A station hears a packet that another has encoded, or its beginning.
LEMMA EncodedIsHeard ==
    ASSUME NEW p, WellFormed(p)
    PROVE  /\ Hears(DecodeL3(EncodeL3(p)), p)
           /\ Fits(p) => DecodeL3(EncodeL3(p)) = p
<1>1. PICK w : w = EncodeL3(p)
  OBVIOUS
<1>2. /\ Begins(w, Whole(p)) /\ (Fits(p) => w = Whole(p))
      /\ Len(p.to) + Len(p.from) + 2 + Len(Itoa(p.params.ident)) <= Len(w)
  BY <1>1, EncodedType
<1> QED
  BY <1>1, <1>2, TextIsHeard


\* id is a number that the text w has.
HasNumber(w, id) ==
    \E i, j \in DOMAIN w :
        AllIn(SubSeq(w, i, j), Digits) /\ i <= j /\ Decimal(SubSeq(w, i, j)) = id
        /\ (j = Len(w) \/ w[j + 1] \notin Digits) /\ (i = 1 \/ w[i - 1] \notin Digits)

\* What any text on the air is heard as.
LEMMA DecodedType ==
    ASSUME NEW w \in Seq(Nat), NEW d, d = DecodeL3(w), d # NoPacket
    PROVE  WellFormed(d) /\ HasNumber(w, d.params.ident)
<1>1. PICK pre : pre = Before(Space, w)
  OBVIOUS
<1>2. PICK less : less = IndexOf(Less, pre)
  OBVIOUS
<1>3. PICK colon : colon = IndexOf(Colon, pre)
  OBVIOUS
<1>4. PICK t : t = Cut(colon, pre)
  OBVIOUS
<1>5. PICK params : params = ParamsOf(t)
  OBVIOUS
<1>6. PICK to : to = CallsignOf(SubSeq(pre, 1, less - 1))
  OBVIOUS
<1>7. PICK from : from = CallsignOf(SubSeq(pre, less + 1, colon - 1))
  OBVIOUS
<1>8. /\ less # 0 /\ ~(colon < less) /\ to # NoCallsign /\ from # NoCallsign /\ params.ident # 0
      /\ d = [to |-> to, from |-> from, params |-> params, msg |-> After(Space, w)]
  BY <1>1, <1>2, <1>3, <1>4, <1>5, <1>6, <1>7 DEF DecodeL3
<1>9. PICK k : k = IndexOf(Space, w)
  OBVIOUS
<1>10. /\ pre \in Seq(Nat) /\ Len(pre) \in 0..Len(w) /\ \A i \in 1..Len(pre) : pre[i] = w[i]
       /\ k = 0 => pre = w
       /\ k # 0 => Len(pre) = k - 1
  BY <1>1, <1>9, BeforeType
<1>11. PICK lw \in Nat : lw = Len(w)
  OBVIOUS
<1>12. PICK lp \in 0..lw : lp = Len(pre)
  BY <1>10, <1>11
<1>13. k \in 0..lw /\ (k # 0 => w[k] = Space)
  BY <1>9, <1>11, IndexOfFirst
<1>14. lp = lw \/ w[lp + 1] = Space
  <2>1. CASE k = 0
    BY <1>10, <1>11, <1>12, <2>1
  <2>2. CASE k # 0
    <3>1. lp + 1 = k
      BY <1>10, <1>12, <1>13, <2>2
    <3> QED
      BY <1>13, <2>2, <3>1
  <2> QED
    BY <2>1, <2>2
<1>15. less \in 1..lp /\ pre[less] = Less
  <2>1. less \in 0..Len(pre) /\ (less # 0 => pre[less] = Less)
    BY <1>2, <1>10, IndexOfFirst
  <2> QED
    BY <1>8, <1>12, <2>1
<1>16. colon \in 1..lp /\ pre[colon] = Colon /\ less < colon
  <2>1. colon \in 0..Len(pre) /\ (colon # 0 => pre[colon] = Colon)
    BY <1>3, <1>10, IndexOfFirst
  <2>2. colon \in 0..lp /\ less <= colon
    BY <1>8, <1>12, <1>15, <2>1
  <2>3. colon # 0
    BY <1>15, <2>2
  <2>4. colon # less
    BY <1>15, <2>1, <2>3 DEF Less, Colon
  <2> QED
    BY <1>15, <2>1, <2>2, <2>3, <2>4
<1>17. IsName(to) /\ IsName(from)
  <2>1. 1 \in 1..(Len(pre) + 1) /\ less - 1 \in (1 - 1)..Len(pre)
    BY <1>12, <1>15
  <2>2. less + 1 \in 1..(Len(pre) + 1) /\ colon - 1 \in ((less + 1) - 1)..Len(pre)
    BY <1>12, <1>15, <1>16
  <2>3. SubSeq(pre, 1, less - 1) \in Seq(Nat)
    BY <1>10, <2>1, Part
  <2>4. SubSeq(pre, less + 1, colon - 1) \in Seq(Nat)
    BY <1>10, <2>2, Part
  <2> QED
    BY <1>6, <1>7, <1>8, <2>3, <2>4, CallsignType
<1>18. t \in Seq(Nat) /\ Len(t) = lp - colon /\ \A i \in 1..(lp - colon) : t[i] = w[colon + i]
  <2>1. colon \in 0..Len(pre)
    BY <1>12, <1>16
  <2>4. pre \in Seq(Nat)
    BY <1>10
  <2>2. t \in Seq(Nat) /\ Len(t) = Len(pre) - colon /\ \A i \in 1..Len(t) : t[i] = pre[colon + i]
    BY <1>4, <2>1, <2>4, CutType
  <2>3. ASSUME NEW i \in 1..(lp - colon) PROVE t[i] = w[colon + i]
    <3>1. colon + i \in 1..lp
      BY <1>16
    <3> QED
      BY <1>10, <1>12, <2>2, <3>1
  <2> QED
    BY <1>12, <2>2, <2>3
<1>19. params # Invalid
  BY <1>8 DEF Invalid
<1>20. /\ params = [valid |-> TRUE, ident |-> params.ident, items |-> params.items]
       /\ IsItems(params.items) /\ params.ident \in 1..MaxIdent
       /\ \E i \in Starts(t) : /\ AllIn(PieceAt(t, i), Digits)
                               /\ Decimal(PieceAt(t, i)) = params.ident
                               /\ Len(PieceAt(t, i)) # 0
  BY <1>5, <1>8, <1>18, <1>19, ParamsType
<1>21. WellFormed(d)
  <2>1. After(Space, w) \in Seq(Nat)
    BY AfterType
  <2> QED
    BY <1>8, <1>17, <1>20, <2>1, WellFormedOfParts
<1>22. PICK i \in Starts(t) : /\ AllIn(PieceAt(t, i), Digits)
                              /\ Decimal(PieceAt(t, i)) = params.ident
                              /\ Len(PieceAt(t, i)) # 0
  BY <1>20
<1>23. PICK q : q = PieceAt(t, i)
  OBVIOUS
<1>24. i \in 1..(lp - colon) /\ (i = 1 \/ t[i - 1] = Comma)
  BY <1>18 DEF Starts
<1>25. IsPieceAt(t, i, q)
  <2>1. i \in 1..Len(t)
    BY <1>18, <1>24
  <2> QED
    BY <1>18, <1>23, <2>1, PieceType
<1>26. PICK n \in Nat : n = Len(q)
  BY <1>25 DEF IsPieceAt
<1>27. /\ q \in Seq(Nat) /\ n \in 1..(lp - colon - i + 1)
       /\ \A j \in 1..n : q[j] = t[i - 1 + j]
       /\ n # lp - colon - i + 1 => t[i + n] = Comma
  <2>1. n \in 0..(lp - colon - i + 1) /\ n # 0
    BY <1>18, <1>22, <1>23, <1>25, <1>26 DEF IsPieceAt
  <2> QED
    BY <1>18, <1>25, <1>26, <2>1 DEF IsPieceAt
<1>28. PICK a \in Nat : a = colon + i
  BY <1>16, <1>24
<1>29. PICK b \in Nat : b = colon + i + n - 1
  BY <1>16, <1>24
<1>30. /\ a \in 2..lw /\ b \in 1..lp /\ b \in 1..lw /\ a <= b
       /\ b - a + 1 = n /\ b + 1 = colon + (i + n)
  BY <1>16, <1>24, <1>27, <1>28, <1>29
<1>31. SubSeq(w, a, b) = q
  <2>1. PICK u : u = SubSeq(w, a, b)
    OBVIOUS
  <2>2. a \in 1..(Len(w) + 1) /\ b \in (a - 1)..Len(w)
    BY <1>11, <1>30
  <2>3. u \in Seq(Nat) /\ Len(u) = b - a + 1 /\ \A j \in 1..(b - a + 1) : u[j] = w[a + j - 1]
    BY <2>1, <2>2, Part
  <2>4. ASSUME NEW j \in 1..n PROVE u[j] = q[j]
    <3>1. i - 1 + j \in 1..(lp - colon) /\ colon + (i - 1 + j) = a + j - 1
      <4>1. PICK c \in Nat : c = colon
        BY <1>16
      <4>2. PICK m \in Nat : m = i
        BY <1>24
      <4>3. c \in 1..lp /\ m \in 1..(lp - c) /\ n <= lp - c - m + 1 /\ a = c + m
        BY <1>16, <1>24, <1>27, <1>28, <4>1, <4>2
      <4>4. m - 1 + j \in 1..(lp - c) /\ c + (m - 1 + j) = a + j - 1
        BY <4>3
      <4> QED
        BY <4>1, <4>2, <4>4
    <3> QED
      BY <1>18, <1>27, <1>30, <2>3, <3>1
  <2> QED
    BY <1>26, <1>27, <1>30, <2>1, <2>3, <2>4, SeqEqual
<1>32. Comma \notin Digits /\ Space \notin Digits /\ Colon \notin Digits
  BY DEF Comma, Space, Colon, Digits
<1>33. b = lw \/ w[b + 1] \notin Digits
  <2>1. CASE n # lp - colon - i + 1
    <3>1. i + n \in 1..(lp - colon)
      BY <1>16, <1>24, <1>27, <2>1
    <3>2. w[b + 1] = Comma
      BY <1>18, <1>27, <1>30, <2>1, <3>1
    <3> QED
      BY <1>32, <3>2
  <2>2. CASE n = lp - colon - i + 1
    <3>1. b = lp
      BY <1>16, <1>24, <1>29, <2>2
    <3> QED
      BY <1>14, <1>32, <3>1
  <2> QED
    BY <2>1, <2>2
<1>34. w[a - 1] \notin Digits
  <2>1. CASE i = 1
    <3>1. a - 1 = colon
      BY <1>16, <1>28, <2>1
    <3>2. w[colon] = Colon
      BY <1>10, <1>12, <1>16
    <3> QED
      BY <1>32, <3>1, <3>2
  <2>2. CASE i # 1
    <3>1. i - 1 \in 1..(lp - colon) /\ colon + (i - 1) = a - 1
      BY <1>16, <1>24, <1>28, <2>2
    <3>2. w[a - 1] = Comma
      BY <1>18, <1>24, <2>2, <3>1
    <3> QED
      BY <1>32, <3>2
  <2> QED
    BY <2>1, <2>2
<1>35. HasNumber(w, params.ident)
  <2>1. a \in DOMAIN w /\ b \in DOMAIN w
    BY <1>11, <1>30
  <2>2. AllIn(SubSeq(w, a, b), Digits) /\ Decimal(SubSeq(w, a, b)) = params.ident
    BY <1>22, <1>23, <1>31
  <2> QED
    BY <1>11, <1>30, <1>33, <1>34, <2>1, <2>2 DEF HasNumber
<1> QED
  BY <1>8, <1>21, <1>35


-----------------------------------------------------------------------------
(* What an operator types *)

LEMMA FromHexType ==
    ASSUME NEW s \in Seq(Nat)
    PROVE  FromHex(s) \in Seq(Nat)
<1>1. ASSUME NEW c \in Nat PROVE HexDigit(c) \in -1..15
  BY DEF HexDigit, Digits
<1>2. ASSUME NEW a \in Nat, NEW b \in Nat PROVE HexByte(a, b) \in Nat
  <2>1. PICK x \in -1..15 : x = HexDigit(a)
    BY <1>1
  <2>2. PICK y \in -1..15 : y = HexDigit(b)
    BY <1>1
  <2>3. HexByte(a, b) = IF x = -1 THEN 0 ELSE IF y = -1 THEN x ELSE 16 * x + y
    BY <2>1, <2>2 DEF HexByte
  <2> QED
    BY <2>3
<1>3. PICK n \in Nat : n = Len(s)
  OBVIOUS
<1>4. n \div 2 \in Nat /\ 2 * (n \div 2) <= n
  OBVIOUS
<1>5. ASSUME NEW i \in 1..(n \div 2) PROVE HexByte(s[2 * i - 1], s[2 * i]) \in Nat
  <2>1. 2 * i - 1 \in 1..n /\ 2 * i \in 1..n
    BY <1>4
  <2>2. s[2 * i - 1] \in Nat /\ s[2 * i] \in Nat
    BY <1>3, <2>1
  <2> QED
    BY <1>2, <2>2
<1>6. FromHex(s) = [i \in 1..(n \div 2) |-> HexByte(s[2 * i - 1], s[2 * i])]
  BY <1>3 DEF FromHex
<1> QED
  BY <1>4, <1>5, <1>6

LEMMA PacketTextType ==
    ASSUME NEW s \in Seq(Nat)
    PROVE  PacketText(s) \in Seq(Nat)
<1>1. PICK cmd : cmd = LStrip(s)
  OBVIOUS
<1>2. cmd \in Seq(Nat)
  BY <1>1, StripType
<1>3. CASE IsPrefix(Pktx, cmd)
  <2>1. Pktx \in Seq(Nat) /\ Len(Pktx) = 6
    BY DEF Pktx, Bang, Space
  <2>2. Len(Pktx) <= Len(cmd)
    BY <1>2, <1>3, <2>1, PrefixElements
  <2>3. 6 \in 0..Len(cmd)
    BY <1>2, <2>1, <2>2
  <2>4. Cut(6, cmd) \in Seq(Nat)
    BY <1>2, <2>3, CutType
  <2>5. Strip(Cut(6, cmd)) \in Seq(Nat)
    BY <2>4, StripType
  <2>6. FromHex(Strip(Cut(6, cmd))) \in Seq(Nat)
    BY <2>5, FromHexType
  <2> QED
    BY <1>1, <1>3, <2>1, <2>6 DEF PacketText
<1>4. CASE ~IsPrefix(Pktx, cmd)
  BY <1>1, <1>2, <1>4 DEF PacketText
<1> QED
  BY <1>3, <1>4

LEMMA TypedType ==
    ASSUME NEW cmd \in Seq(Nat), NEW r, r = ParsePacket(cmd), r # NoPacket,
           NEW id \in 1..MaxIdent, IsName(Me)
    PROVE  WellFormed(Originated(r, Me, id))
<1>1. PICK pre : pre = Before(Space, cmd)
  OBVIOUS
<1>2. PICK dest : dest = CallsignOf(Before(Colon, pre))
  OBVIOUS
<1>3. PICK params : params = ParamsOf(After(Colon, pre))
  OBVIOUS
<1>4. /\ dest # NoCallsign /\ params.valid
      /\ r = [to |-> dest, from |-> NoCallsign, params |-> params, msg |-> After(Space, cmd)]
  BY <1>1, <1>2, <1>3 DEF ParsePacket
<1>5. pre \in Seq(Nat)
  BY <1>1, BeforeType
<1>6. Before(Colon, pre) \in Seq(Nat) /\ After(Colon, pre) \in Seq(Nat) /\ After(Space, cmd) \in Seq(Nat)
  BY <1>5, BeforeType, AfterType
<1>7. IsName(dest)
  BY <1>2, <1>4, <1>6, CallsignType
<1>8. params # Invalid
  BY <1>4 DEF Invalid
<1>9. params = [valid |-> TRUE, ident |-> params.ident, items |-> params.items] /\ IsItems(params.items)
  BY <1>3, <1>6, <1>8, ParamsType
<1>10. PICK items : items = params.items
  OBVIOUS
<1>11. PICK b : b = TRUE
  OBVIOUS
<1>12. PICK v : v = [valid |-> b, ident |-> id, items |-> items]
  OBVIOUS
<1>13. [params EXCEPT !.ident = id] = v
  <2>1. PICK n : n = params.ident
    OBVIOUS
  <2>2. params = [valid |-> b, ident |-> n, items |-> items]
    BY <1>9, <1>10, <1>11, <2>1
  <2> QED
    BY <1>12, <2>2
<1>14. PICK msg : msg = After(Space, cmd)
  OBVIOUS
<1>15. r = [to |-> dest, from |-> NoCallsign, params |-> params, msg |-> msg]
  BY <1>4, <1>14
<1>16. Originated(r, Me, id) = [to |-> dest, from |-> Me, params |-> v, msg |-> msg]
  <2>1. Originated(r, Me, id) = [r EXCEPT !.from = Me, !.params = [@ EXCEPT !.ident = id]]
    BY DEF Originated
  <2>2. r.params = params
    BY <1>15
  <2>3. Originated(r, Me, id) = [r EXCEPT !.from = Me, !.params = v]
    BY <1>13, <2>1, <2>2
  <2>4. PICK n : n = NoCallsign
    OBVIOUS
  <2>5. r = [to |-> dest, from |-> n, params |-> params, msg |-> msg]
    BY <1>15, <2>4
  <2>6. [r EXCEPT !.from = Me, !.params = v] = [to |-> dest, from |-> Me, params |-> v, msg |-> msg]
    <3>1. PICK u : u = [r EXCEPT !.from = Me]
      OBVIOUS
    <3>2. u = [to |-> dest, from |-> Me, params |-> params, msg |-> msg]
      BY <2>5, <3>1
    <3>3. [u EXCEPT !.params = v] = [to |-> dest, from |-> Me, params |-> v, msg |-> msg]
      <4>1. [u EXCEPT !.params = v] = [f \in {"to", "from", "params", "msg"} |-> IF f = "params" THEN v ELSE u[f]]
        BY <3>2
      <4>2. u.to = dest /\ u.from = Me /\ u.msg = msg
        BY <3>2
      <4> QED
        BY <4>1, <4>2
    <3>4. [r EXCEPT !.from = Me, !.params = v] = [u EXCEPT !.params = v]
      BY <3>1
    <3> QED
      BY <3>3, <3>4
  <2> QED
    BY <2>3, <2>6
<1>17. v.ident = id /\ v.items = items /\ v = [valid |-> TRUE, ident |-> v.ident, items |-> v.items]
  BY <1>11, <1>12
<1> QED
  BY <1>6, <1>7, <1>9, <1>10, <1>14, <1>16, <1>17, WellFormedOfParts


-----------------------------------------------------------------------------
(* From hop to hop *)

Passed(p, n) == IF n = 0 THEN p ELSE WithR(p)
Intact(p, n) == Fits(p) /\ Fits(Passed(p, n))

\* h is what is left of p after n hops.
Travels(h, p, n) ==
    /\ WellFormed(h) /\ WellFormed(p)
    /\ Hears(h, Passed(p, n))
    /\ Intact(p, n) => h = Passed(p, n)

LEMMA NoPacketType == ~WellFormed(NoPacket)
<1>1. NoPacket.to = NoCallsign
  BY DEF NoPacket
<1> QED
  BY <1>1, NameType DEF WellFormed

LEMMA BeginsSelf ==
    ASSUME NEW s \in Seq(Nat)
    PROVE  Begins(s, s)
  BY DEF Begins

LEMMA BeginsTransitive ==
    ASSUME NEW s, NEW t, NEW u \in Seq(Nat), Begins(s, t), Begins(t, u)
    PROVE  Begins(s, u) /\ (s # <<>> => t # <<>>)
<1>1. s \in Seq(Nat) /\ t \in Seq(Nat)
  BY DEF Begins
<1>2. PICK m \in Nat : m = Len(s)
  BY <1>1
<1>3. PICK n \in Nat : n = Len(t)
  BY <1>1
<1>4. PICK l \in Nat : l = Len(u)
  OBVIOUS
<1>5. m <= n /\ n <= l /\ (\A i \in 1..m : s[i] = t[i]) /\ (\A i \in 1..n : t[i] = u[i])
  BY <1>2, <1>3, <1>4 DEF Begins
<1>6. \A i \in 1..m : s[i] = u[i]
  BY <1>5
<1>7. Begins(s, u)
  BY <1>1, <1>2, <1>4, <1>5, <1>6 DEF Begins
<1>8. s # <<>> => t # <<>>
  <2>1. m = 0 <=> s = <<>>
    BY <1>1, <1>2, EmptySeq
  <2>2. n = 0 <=> t = <<>>
    BY <1>1, <1>3, EmptySeq
  <2> QED
    BY <1>5, <2>1, <2>2
<1> QED
  BY <1>7, <1>8

LEMMA PassedType ==
    ASSUME NEW p, WellFormed(p), NEW n
    PROVE  /\ WellFormed(Passed(p, n))
           /\ Passed(p, n).to = p.to /\ Passed(p, n).from = p.from /\ Passed(p, n).msg = p.msg
           /\ Passed(p, n).params.ident = p.params.ident
  BY EarmarkedType DEF Passed

LEMMA SentTravels ==
    ASSUME NEW p, WellFormed(p)
    PROVE  Travels(p, p, 0)
<1>1. Begins(p.msg, p.msg)
  BY BeginsSelf DEF WellFormed
<1> QED
  BY <1>1 DEF Travels, Hears, Passed

LEMMA HeardTravels ==
    ASSUME NEW p, NEW q, NEW n, Travels(q, p, n), NEW h, h = DecodeL3(EncodeL3(q))
    PROVE  Travels(h, p, n)
<1>1. PICK r : r = Passed(p, n)
  OBVIOUS
<1>2. /\ WellFormed(q) /\ WellFormed(p) /\ WellFormed(r)
      /\ q.to = r.to /\ q.from = r.from /\ q.params.ident = r.params.ident
      /\ Begins(q.msg, r.msg) /\ (q.msg # <<>> => q.params = r.params)
      /\ Intact(p, n) => q = r /\ Fits(r)
  BY <1>1, PassedType DEF Travels, Hears, Intact
<1>3. /\ WellFormed(h) /\ h.to = q.to /\ h.from = q.from /\ h.params.ident = q.params.ident
      /\ Begins(h.msg, q.msg) /\ (h.msg # <<>> => h.params = q.params)
      /\ Fits(q) => h = q
  BY <1>2, EncodedIsHeard DEF Hears
<1>4. Begins(h.msg, r.msg) /\ (h.msg # <<>> => q.msg # <<>>)
  <2>1. r.msg \in Seq(Nat)
    BY <1>2 DEF WellFormed
  <2> QED
    BY <1>2, <1>3, <2>1, BeginsTransitive
<1>5. Hears(h, r)
  BY <1>2, <1>3, <1>4 DEF Hears
<1> QED
  BY <1>1, <1>2, <1>3, <1>5 DEF Travels

LEMMA RepeatedTravels ==
    ASSUME NEW p, NEW h, NEW n \in Nat, Travels(h, p, n)
    PROVE  Travels(WithR(h), p, n + 1)
<1>1. PICK r : r = Passed(p, n)
  OBVIOUS
<1>2. /\ WellFormed(h) /\ WellFormed(p) /\ WellFormed(r)
      /\ h.to = r.to /\ h.from = r.from /\ h.params.ident = r.params.ident
      /\ Begins(h.msg, r.msg) /\ (h.msg # <<>> => h.params = r.params)
      /\ Intact(p, n) => h = r
  BY <1>1, PassedType DEF Travels, Hears
<1>3. PICK s : s = WithR(p)
  OBVIOUS
<1>4. Passed(p, n + 1) = s /\ WithR(r) = s
  <2>1. WithR(s) = s
    BY <1>2, <1>3, EarmarkedType
  <2> QED
    BY <1>1, <1>3, <2>1 DEF Passed
<1>5. PICK g : g = WithR(h)
  OBVIOUS
<1>6. /\ WellFormed(g) /\ g.to = h.to /\ g.from = h.from /\ g.msg = h.msg
      /\ g.params.ident = h.params.ident
  BY <1>2, <1>5, EarmarkedType
<1>7. /\ s.to = r.to /\ s.from = r.from /\ s.msg = r.msg /\ s.params.ident = r.params.ident
      /\ h.params = r.params => g.params = s.params
  BY <1>2, <1>4, <1>5, EarmarkedType
<1>8. Hears(g, s)
  BY <1>2, <1>6, <1>7 DEF Hears
<1>9. Intact(p, n + 1) => g = s
  <2> SUFFICES ASSUME Intact(p, n + 1) PROVE g = s
    OBVIOUS
  <2>1. Intact(p, n)
    BY <1>3, <1>4 DEF Intact, Passed
  <2> QED
    BY <1>2, <1>4, <1>5, <2>1
<1> QED
  BY <1>2, <1>4, <1>5, <1>6, <1>8, <1>9 DEF Travels


-----------------------------------------------------------------------------
(* What an operator writes for a request *)

\* Around the first c, which is at a known place.
LEMMA SplitAt ==
    ASSUME NEW s \in Seq(Nat), NEW c \in Nat, NEW i \in Nat, i < Len(s), s[i + 1] = c,
           \A j \in 1..i : s[j] # c
    PROVE  Before(c, s) = SubSeq(s, 1, i) /\ After(c, s) = Cut(i + 1, s)
<1>1. PICK n \in Nat : n = Len(s)
  OBVIOUS
<1>2. PICK b : b = SubSeq(s, 1, i)
  OBVIOUS
<1>3. PICK a : a = Cut(i + 1, s)
  OBVIOUS
<1>4. b \in Seq(Nat) /\ Len(b) = i /\ \A j \in 1..i : b[j] = s[j]
  <2>1. 1 \in 1..(Len(s) + 1) /\ i \in (1 - 1)..Len(s)
    BY <1>1
  <2> QED
    BY <1>2, <2>1, Part
<1>5. a \in Seq(Nat) /\ Len(a) = n - (i + 1) /\ \A j \in 1..Len(a) : a[j] = s[i + 1 + j]
  <2>1. i + 1 \in 0..Len(s)
    BY <1>1
  <2> QED
    BY <1>1, <1>3, <2>1, CutType
<1>6. Joins(s, b, c, a)
  <2>1. n = i + 1 + (n - (i + 1))
    BY <1>1
  <2> QED
    BY <1>1, <1>4, <1>5, <2>1 DEF Joins
<1>7. Without(c, b)
  BY <1>4 DEF Without
<1>8. b \in Seq(Nat) /\ a \in Seq(Nat)
  BY <1>4, <1>5
<1>9. Before(c, s) = b /\ After(c, s) = a
  BY <1>6, <1>7, <1>8, Around
<1> QED
  BY <1>2, <1>3, <1>9

LEMMA LStripIs ==
    ASSUME NEW s \in Seq(Nat), NEW n \in Nat, n < Len(s), s[n + 1] # Space,
           \A i \in 1..n : s[i] = Space
    PROVE  LStrip(s) = Cut(n, s)
<1>1. Len(s) \in Nat /\ DOMAIN s = 1..Len(s) /\ n + 1 \in 1..Len(s)
  OBVIOUS
<1>2. PICK f : f = SelectInSeq(s, LAMBDA c : ~IsSpace(c))
  OBVIOUS
<1> DEFINE I == {i \in 1..Len(s) : s[i] # Space}
<1>3. n + 1 \in I /\ I \in SUBSET Nat
  BY <1>1
<1>4. f = Min(I)
  BY <1>2, <1>3 DEF SelectInSeq, IsSpace
<1>5. f \in I /\ \A k \in I : f <= k
  <2> HIDE DEF I
  <2> QED
    BY <1>3, <1>4, Least DEF Min
<1>6. f \in 1..Len(s) /\ s[f] # Space /\ f <= n + 1
  BY <1>3, <1>5
<1>7. f - 1 = n
  BY <1>1, <1>6
<1>8. ~AllIn(s, {Space})
  BY <1>1 DEF AllIn
<1> QED
  BY <1>2, <1>7, <1>8 DEF LStrip

LEMMA ToHexType ==
    ASSUME NEW s \in Seq(Nat), NEW t, t = ToHex(s)
    PROVE  t \in Seq(Nat) /\ Len(t) = 2 * Len(s) /\ Without(Space, t)
<1> DEFINE HexOf(n) == IF n < 10 THEN 48 + n ELSE 87 + n
<1> DEFINE Half(i) == LET c == s[(i + 1) \div 2] IN IF i % 2 = 1 THEN c \div 16 ELSE c % 16
<1>1. PICK l \in Nat : l = Len(s)
  OBVIOUS
<1>2. t = [i \in 1..(2 * l) |-> HexOf(Half(i))]
  BY <1>1 DEF ToHex
<1>3. ASSUME NEW n \in Nat PROVE HexOf(n) \in Nat /\ HexOf(n) # Space
  BY DEF Space
<1>4. ASSUME NEW i \in 1..(2 * l) PROVE Half(i) \in Nat
  <2>1. PICK h : h = (i + 1) \div 2
    OBVIOUS
  <2>2. h \in 1..l
    BY <2>1
  <2>3. PICK c \in Nat : c = s[h]
    BY <1>1, <2>2
  <2>4. c \div 16 \in Nat /\ c % 16 \in Nat
    OBVIOUS
  <2> QED
    BY <2>1, <2>3, <2>4
<1> HIDE DEF HexOf, Half
<1>5. \A i \in 1..(2 * l) : t[i] \in Nat /\ t[i] # Space
  BY <1>2, <1>3, <1>4
<1>6. 2 * l \in Nat
  OBVIOUS
<1>7. t \in Seq(Nat) /\ Len(t) = 2 * l
  BY <1>2, <1>5, <1>6
<1> QED
  BY <1>1, <1>5, <1>7 DEF Without

\* A key in any case is read in capitals, with its value.
LEMMA SpelledIsRead ==
    ASSUME NEW k, NEW v, IsKey(k), IsValue(v), NEW p \in Seq(Nat), Spells(p, k, v)
    PROVE  IsParam(p) /\ ~IsNumeral(p) /\ KeyOf(p) = k /\ ValueOf(p) = v
<1>1. k \in Seq(Nat) /\ k[1] \in Upper /\ \A i \in 1..Len(k) : k[i] \in Digits \cup Upper
  BY AllInSeq DEF IsKey
<1>2. PICK n \in Nat : n = Len(k)
  BY <1>1
<1>3. PICK m \in Nat : m = Len(p)
  OBVIOUS
<1>4. n # 0 /\ n <= m /\ n \in 1..m
  BY <1>2, <1>3 DEF IsKey, Spells
<1>5. PICK name : name = SubSeq(p, 1, n)
  OBVIOUS
<1>6. PICK a : a = Cut(n, p)
  OBVIOUS
<1>7. Uppercase(name) = k /\ a = IF v = Naked THEN <<>> ELSE <<Equal>> \o v
  BY <1>2, <1>5, <1>6 DEF Spells
<1>8. name \in Seq(Nat) /\ Len(name) = n /\ \A i \in 1..n : name[i] = p[i]
  <2>1. 1 \in 1..(Len(p) + 1) /\ n \in (1 - 1)..Len(p)
    BY <1>3, <1>4
  <2> QED
    BY <1>5, <2>1, Part
<1>9. a \in Seq(Nat) /\ Len(a) = m - n /\ \A i \in 1..Len(a) : a[i] = p[n + i]
  <2>1. n \in 0..Len(p)
    BY <1>3, <1>4
  <2> QED
    BY <1>3, <1>6, <2>1, CutType
<1>10. ASSUME NEW i \in 1..n PROVE name[i] \in Lower \/ name[i] = k[i]
  BY <1>7, <1>8, <1>10, UppercaseType
<1>11. AllIn(name, Digits \cup Upper \cup Lower) /\ Without(Equal, name)
  <2>1. \A i \in 1..n : name[i] \in Digits \cup Upper \cup Lower
    BY <1>1, <1>2, <1>10
  <2>2. Equal \notin Digits \cup Upper \cup Lower
    BY DEF Equal, Digits, Upper, Lower
  <2> QED
    BY <1>8, <2>1, <2>2, AllInSeq DEF Without
<1>12. p[1] \in Upper \cup Lower
  <2>1. 1 \in 1..n
    BY <1>4
  <2> QED
    BY <1>1, <1>8, <1>10, <2>1
<1>13. ~IsNumeral(p)
  <2>1. PICK c : c = p[1]
    OBVIOUS
  <2>2. c \in Upper \cup Lower
    BY <1>12, <2>1
  <2>3. c \notin Digits
    BY <2>2 DEF Digits, Upper, Lower
  <2> QED
    BY <2>1, <2>3 DEF IsNumeral
<1>14. CASE v = Naked
  <2>1. m = n
    BY <1>7, <1>9, <1>14
  <2>2. p = name
    BY <1>3, <1>5, <2>1, SubSeqFull
  <2>3. IndexOf(Equal, p) = 0 /\ Before(Equal, p) = p /\ After(Equal, p) = <<>>
    BY <1>11, <2>2, NoneThere
  <2>4. AllIn(<<>>, Free)
    BY DEF AllIn
  <2>5. IsSymbol(p)
    BY <1>11, <1>12, <2>2, <2>3, <2>4 DEF IsSymbol, Free
  <2> QED
    BY <1>3, <1>4, <1>7, <1>13, <1>14, <2>2, <2>3, <2>5 DEF IsParam, KeyOf, ValueOf
<1>15. CASE v # Naked
  <2>1. v \in Seq(Nat) /\ AllIn(v, Free) /\ Equal \in Nat
    BY <1>15 DEF IsValue, Equal
  <2>2. PICK l \in Nat : l = Len(v)
    BY <2>1
  <2>3. a = <<Equal>> \o v
    BY <1>7, <1>15
  <2>4. Len(a) = 1 + l /\ a[1] = Equal /\ \A i \in 1..l : a[1 + i] = v[i]
    <3>1. PICK u : u = <<Equal>>
      OBVIOUS
    <3>2. u \in Seq(Nat) /\ Len(u) = 1 /\ u[1] = Equal
      BY <2>1, <3>1
    <3>3. a = u \o v
      BY <2>3, <3>1
    <3>4. Len(a) = Len(u) + Len(v)
          /\ \A i \in 1..(Len(u) + Len(v)) : a[i] = IF i <= Len(u) THEN u[i] ELSE v[i - Len(u)]
      <4>1. v \in Seq(Nat) /\ u \in Seq(Nat)
        BY <2>1, <3>2
      <4> QED
        BY <3>3, <4>1, ConcatProperties
    <3>5. Len(a) = 1 + l /\ \A i \in 1..(1 + l) : a[i] = IF i <= 1 THEN u[i] ELSE v[i - 1]
      BY <2>2, <3>2, <3>4
    <3>6. a[1] = Equal
      BY <3>2, <3>5
    <3>7. ASSUME NEW i \in 1..l PROVE a[1 + i] = v[i]
      <4>1. PICK j \in Nat : j = 1 + i
        OBVIOUS
      <4>2. j \in 1..(1 + l) /\ ~(j <= 1) /\ j - 1 = i
        BY <4>1
      <4> QED
        BY <3>5, <4>1, <4>2
    <3> QED
      BY <3>5, <3>6, <3>7
  <2>5. n < m /\ p[n + 1] = Equal
    BY <1>9, <2>2, <2>4
  <2>6. \A i \in 1..n : p[i] # Equal
    BY <1>8, <1>11 DEF Without
  <2>7. Before(Equal, p) = SubSeq(p, 1, n) /\ After(Equal, p) = Cut(n + 1, p)
    BY <1>3, <2>1, <2>5, <2>6, SplitAt
  <2>8. IndexOf(Equal, p) # 0
    <3>1. n + 1 \in 1..Len(p)
      BY <1>3, <2>5
    <3> QED
      BY <2>5, <3>1, IndexOfFirst
  <2>9. Cut(n + 1, p) = v
    <3>1. n + 1 \in 0..Len(p)
      BY <1>3, <2>5
    <3>2. PICK b : b = Cut(n + 1, p)
      OBVIOUS
    <3>3. b \in Seq(Nat) /\ Len(b) = m - (n + 1) /\ \A i \in 1..Len(b) : b[i] = p[n + 1 + i]
      BY <1>3, <3>1, <3>2, CutType
    <3>4. Len(b) = l
      BY <1>9, <2>4, <3>3
    <3>5. ASSUME NEW i \in 1..l PROVE b[i] = v[i]
      <4>1. 1 + i \in 1..Len(a) /\ n + 1 + i = n + (1 + i)
        BY <2>4
      <4> QED
        BY <1>9, <2>4, <3>3, <3>4, <4>1
    <3> QED
      BY <2>1, <2>2, <3>2, <3>3, <3>4, <3>5, SeqEqual
  <2>10. IsSymbol(p)
    BY <1>5, <1>11, <1>12, <2>1, <2>7, <2>9 DEF IsSymbol, Free
  <2> QED
    BY <1>3, <1>4, <1>5, <1>7, <1>13, <2>7, <2>8, <2>9, <2>10 DEF IsParam, KeyOf, ValueOf
<1> QED
  BY <1>14, <1>15

\* In any order and case, and with numbers or without.
LEMMA EnumeratedIsRead ==
    ASSUME NEW s \in Seq(Nat), NEW items, items = [k \in DOMAIN items |-> items[k]],
           \A k \in DOMAIN items : IsKey(k) /\ IsValue(items[k]),
           Enumerates(s, items), NEW p, p = ParamsOf(s)
    PROVE  p # Invalid /\ p.valid /\ p.items = items
<1>1. Starts(s) \subseteq 1..Len(s) /\ Len(s) \in Nat
  BY StartsType
<1>2. ASSUME NEW i \in Starts(s) PROVE PieceAt(s, i) \in Seq(Nat)
  BY <1>1, PieceType DEF IsPieceAt
<1>3. ASSUME NEW i \in Starts(s), NEW k \in DOMAIN items, Spells(PieceAt(s, i), k, items[k])
      PROVE  /\ IsParam(PieceAt(s, i)) /\ ~IsNumeral(PieceAt(s, i))
             /\ KeyOf(PieceAt(s, i)) = k /\ ValueOf(PieceAt(s, i)) = items[k]
  BY <1>2, <1>3, SpelledIsRead
<1>4. ASSUME NEW i \in Starts(s), PieceAt(s, i) \in {Itoa(n) : n \in 1..MaxIdent}
      PROVE  IsParam(PieceAt(s, i)) /\ IsNumeral(PieceAt(s, i))
  <2>1. PICK n \in 1..MaxIdent : PieceAt(s, i) = Itoa(n)
    BY <1>4
  <2> QED
    BY <2>1, IdentOfItoa
<1>5. ASSUME NEW i \in Starts(s)
      PROVE  \/ PieceAt(s, i) \in {Itoa(n) : n \in 1..MaxIdent}
             \/ \E k \in DOMAIN items : Spells(PieceAt(s, i), k, items[k])
  BY DEF Enumerates
<1>6. Valid(s)
  BY <1>3, <1>4, <1>5 DEF Valid
<1>7. ASSUME NEW i \in Keyed(s)
      PROVE  /\ i \in Starts(s) /\ KeyOf(PieceAt(s, i)) \in DOMAIN items
             /\ ValueOf(PieceAt(s, i)) = items[KeyOf(PieceAt(s, i))]
  <2>1. i \in Starts(s) /\ ~IsNumeral(PieceAt(s, i))
    BY DEF Keyed, Numerals
  <2>2. PICK k \in DOMAIN items : Spells(PieceAt(s, i), k, items[k])
    BY <1>4, <1>5, <2>1
  <2> QED
    BY <1>3, <2>1, <2>2
<1>8. ASSUME NEW k \in DOMAIN items PROVE \E i \in Keyed(s) : KeyOf(PieceAt(s, i)) = k
  <2>1. PICK i \in Starts(s) : Spells(PieceAt(s, i), k, items[k])
    BY DEF Enumerates
  <2>2. ~IsNumeral(PieceAt(s, i)) /\ KeyOf(PieceAt(s, i)) = k
    BY <1>3, <2>1
  <2> QED
    BY <2>2 DEF Keyed, Numerals
<1>9. KeysOf(s) = DOMAIN items
  BY <1>7, <1>8 DEF KeysOf
<1>10. ASSUME NEW k \in DOMAIN items
       PROVE  ValueOf(PieceAt(s, Max(Of(s, k)))) = items[k]
  <2>1. Of(s, k) \in SUBSET (1..Len(s)) /\ Of(s, k) # {}
    BY <1>1, <1>7, <1>8 DEF Of
  <2>2. Max(Of(s, k)) \in Of(s, k)
    BY <1>1, <2>1, Greatest
  <2>3. PICK i : i = Max(Of(s, k))
    OBVIOUS
  <2>4. i \in Keyed(s) /\ KeyOf(PieceAt(s, i)) = k
    BY <2>2, <2>3 DEF Of
  <2> QED
    BY <1>7, <2>3, <2>4
<1>11. ItemsOf(s) = items
  BY <1>9, <1>10 DEF ItemsOf
<1>12. PICK id : p = [valid |-> TRUE, ident |-> id, items |-> ItemsOf(s)]
  BY <1>6, ParamsOfParts
<1> QED
  BY <1>11, <1>12 DEF Invalid

\* r is m, with any number.
Asks(r, m) ==
    /\ r # NoPacket
    /\ r = [to |-> m.to, from |-> NoCallsign, msg |-> m.msg,
            params |-> [valid |-> TRUE, ident |-> r.params.ident, items |-> m.params.items]]

LEMMA SaidIsParsed ==
    ASSUME NEW cmd \in Seq(Nat), NEW m, IsRequest(m), Says(cmd, m)
    PROVE  /\ Asks(ParsePacket(cmd), m)
           /\ Len(cmd) # 0 /\ cmd[1] \in Upper \cup Lower
<1>1. PICK to : to = m.to
  OBVIOUS
<1>2. PICK items : items = m.params.items
  OBVIOUS
<1>3. /\ IsName(to) /\ to \notin Reserved
      /\ items = [k \in DOMAIN items |-> items[k]]
      /\ \A k \in DOMAIN items : IsKey(k) /\ IsValue(items[k])
  BY <1>1, <1>2 DEF IsRequest, IsName
<1>4. PICK d \in 0..Len(cmd) : Uppercase(SubSeq(cmd, 1, d)) = to /\ \E e \in d..Len(cmd) :
        /\ Space \notin {cmd[i] : i \in 1..e}
        /\ IF d = e THEN items = NoKeys
           ELSE cmd[d + 1] = Colon /\ Enumerates(SubSeq(cmd, d + 2, e), items)
        /\ IF e = Len(cmd) THEN m.msg = <<>>
           ELSE cmd[e + 1] = Space /\ m.msg = Cut(e + 1, cmd)
  BY <1>1, <1>2 DEF Says
<1>5. PICK e \in d..Len(cmd) :
        /\ Space \notin {cmd[i] : i \in 1..e}
        /\ IF d = e THEN items = NoKeys
           ELSE cmd[d + 1] = Colon /\ Enumerates(SubSeq(cmd, d + 2, e), items)
        /\ IF e = Len(cmd) THEN m.msg = <<>>
           ELSE cmd[e + 1] = Space /\ m.msg = Cut(e + 1, cmd)
  BY <1>4
<1>6. PICK n \in Nat : n = Len(cmd)
  OBVIOUS
<1>7. d \in Nat /\ e \in Nat /\ d <= e /\ e <= n
  BY <1>4, <1>5, <1>6
<1>8. Space \in Nat /\ Colon \in Nat
  BY DEF Space, Colon
<1>9. PICK dest : dest = SubSeq(cmd, 1, d)
  OBVIOUS
<1>10. dest \in Seq(Nat) /\ Len(dest) = d /\ \A i \in 1..d : dest[i] = cmd[i]
  <2>1. 1 \in 1..(Len(cmd) + 1) /\ d \in (1 - 1)..Len(cmd)
    BY <1>6, <1>7
  <2> QED
    BY <1>9, <2>1, Part
<1>11. Uppercase(dest) = to /\ to \in Seq(Nat) /\ Len(to) \in 2..10
       /\ AllIn(to, Digits \cup Upper \cup {Dash}) /\ Without(Colon, to) /\ to # NoCallsign
       /\ CallsignOf(to) = to
  BY <1>3, <1>4, <1>9, NameType
<1>12. d \in 2..10 /\ Len(to) = d
  BY <1>10, <1>11, UppercaseType
<1>13. ASSUME NEW i \in 1..d PROVE dest[i] \in Lower \/ dest[i] = to[i]
  BY <1>10, <1>11, UppercaseType
<1>14. CallsignOf(dest) = to
  <2>1. Uppercase(to) = to
    BY <1>11, UppercaseSame
  <2> QED
    BY <1>11, <2>1 DEF CallsignOf
<1>15. \A i \in 1..d : dest[i] # Colon
  <2>1. Colon \notin Lower
    BY DEF Colon, Lower
  <2> QED
    BY <1>11, <1>12, <1>13, <2>1 DEF Without
<1>16. Len(cmd) # 0 /\ cmd[1] \in Upper \cup Lower
  <2>1. 1 \in 1..d
    BY <1>12
  <2>2. to[1] \in Upper
    BY <1>3 DEF IsName, IsCallsign
  <2> QED
    BY <1>6, <1>7, <1>10, <1>12, <1>13, <2>1, <2>2
<1>17. PICK pre : pre = SubSeq(cmd, 1, e)
  OBVIOUS
<1>18. pre \in Seq(Nat) /\ Len(pre) = e /\ \A i \in 1..e : pre[i] = cmd[i]
  <2>1. 1 \in 1..(Len(cmd) + 1) /\ e \in (1 - 1)..Len(cmd)
    BY <1>6, <1>7
  <2> QED
    BY <1>17, <2>1, Part
<1>19. \A i \in 1..e : cmd[i] # Space
  BY <1>5
<1>20. Before(Space, cmd) = pre /\ After(Space, cmd) = m.msg
  <2>1. CASE e = n
    <3>1. pre = cmd
      BY <1>6, <1>17, <2>1, SubSeqFull
    <3>2. Without(Space, cmd)
      BY <1>6, <1>19, <2>1 DEF Without
    <3>3. m.msg = <<>>
      BY <1>5, <1>6, <2>1
    <3> QED
      BY <3>1, <3>2, <3>3, NoneThere
  <2>2. CASE e # n
    <3>1. cmd[e + 1] = Space /\ m.msg = Cut(e + 1, cmd)
      BY <1>5, <1>6, <2>2
    <3>2. e < Len(cmd)
      BY <1>6, <1>7, <2>2
    <3> QED
      BY <1>7, <1>8, <1>17, <1>19, <3>1, <3>2, SplitAt
  <2> QED
    BY <2>1, <2>2
<1>21. PICK list : list = After(Colon, pre)
  OBVIOUS
<1>22. Before(Colon, pre) = dest /\ list \in Seq(Nat) /\ Enumerates(list, items)
  <2>1. CASE d = e
    <3>1. pre = dest
      BY <1>9, <1>17, <2>1
    <3>2. Without(Colon, dest)
      BY <1>10, <1>15 DEF Without
    <3>3. Before(Colon, pre) = dest /\ list = <<>>
      BY <1>10, <1>21, <3>1, <3>2, NoneThere
    <3>4. DOMAIN items = {}
      BY <1>5, <2>1 DEF NoKeys
    <3>5. Starts(<<>>) = {}
      BY DEF Starts
    <3>6. Enumerates(<<>>, items)
      BY <3>4, <3>5 DEF Enumerates
    <3> QED
      BY <3>3, <3>6
  <2>2. CASE d # e
    <3>1. d < e /\ cmd[d + 1] = Colon /\ Enumerates(SubSeq(cmd, d + 2, e), items)
      BY <1>5, <1>7, <2>2
    <3>2. d < Len(pre) /\ pre[d + 1] = Colon
      BY <1>7, <1>18, <3>1
    <3>3. \A j \in 1..d : pre[j] # Colon
      BY <1>7, <1>10, <1>15, <1>18
    <3>4. Before(Colon, pre) = SubSeq(pre, 1, d) /\ list = Cut(d + 1, pre)
      BY <1>7, <1>8, <1>18, <1>21, <3>2, <3>3, SplitAt
    <3>5. SubSeq(pre, 1, d) = dest
      <4>1. PICK b : b = SubSeq(pre, 1, d)
        OBVIOUS
      <4>2. 1 \in 1..(Len(pre) + 1) /\ d \in (1 - 1)..Len(pre)
        BY <1>7, <1>18
      <4>3. b \in Seq(Nat) /\ Len(b) = d - 1 + 1 /\ \A i \in 1..(d - 1 + 1) : b[i] = pre[1 + i - 1]
        BY <1>18, <4>1, <4>2, Part
      <4>4. Len(b) = d
        BY <1>7, <4>3
      <4>5. ASSUME NEW i \in 1..d PROVE b[i] = dest[i]
        <5>1. i \in 1..(d - 1 + 1) /\ 1 + i - 1 = i /\ i \in 1..e
          BY <1>7, <3>1
        <5> QED
          BY <1>10, <1>18, <4>3, <5>1
      <4> QED
        BY <1>10, <4>1, <4>3, <4>4, <4>5, SeqEqual
    <3>6. list \in Seq(Nat) /\ Len(list) = e - (d + 1) /\ \A i \in 1..Len(list) : list[i] = pre[d + 1 + i]
      <4>1. d + 1 \in 0..Len(pre)
        BY <1>7, <1>18, <3>2
      <4> QED
        BY <1>18, <3>4, <4>1, CutType
    <3>7. list = SubSeq(cmd, d + 2, e)
      <4>1. PICK b : b = SubSeq(cmd, d + 2, e)
        OBVIOUS
      <4>2. d + 2 \in 1..(Len(cmd) + 1) /\ e \in ((d + 2) - 1)..Len(cmd)
        BY <1>6, <1>7, <3>1
      <4>3. b \in Seq(Nat) /\ Len(b) = e - (d + 2) + 1
            /\ \A i \in 1..(e - (d + 2) + 1) : b[i] = cmd[(d + 2) + i - 1]
        BY <4>1, <4>2, Part
      <4>4. Len(b) = Len(list)
        BY <1>7, <3>6, <4>3
      <4>5. ASSUME NEW i \in 1..(e - (d + 1)) PROVE list[i] = b[i]
        <5>1. d + 1 + i \in 1..e /\ i \in 1..(e - (d + 2) + 1) /\ (d + 2) + i - 1 = d + 1 + i
          BY <1>7, <3>1
        <5> QED
          BY <1>18, <3>6, <4>3, <5>1
      <4> QED
        BY <3>6, <4>1, <4>3, <4>4, <4>5, SeqEqual
    <3> QED
      BY <3>1, <3>4, <3>5, <3>6, <3>7
  <2> QED
    BY <2>1, <2>2
<1>23. PICK params : params = ParamsOf(list)
  OBVIOUS
<1>24. params # Invalid /\ params.valid /\ params.items = items
  BY <1>3, <1>22, <1>23, EnumeratedIsRead
<1>25. params = [valid |-> TRUE, ident |-> params.ident, items |-> items]
  BY <1>22, <1>23, <1>24, ParamsType
<1>26. PICK r : r = ParsePacket(cmd)
  OBVIOUS
<1>27. r = [to |-> to, from |-> NoCallsign, params |-> params, msg |-> m.msg]
  <2>1. ~(to = NoCallsign \/ to \in Reserved \/ ~params.valid)
    BY <1>3, <1>11, <1>24
  <2> QED
    BY <1>14, <1>20, <1>21, <1>22, <1>23, <1>26, <2>1 DEF ParsePacket
<1>28. r.params = params /\ r.to = to
  BY <1>27
<1>29. r # NoPacket
  BY <1>11, <1>28 DEF NoPacket
<1>30. PICK id : id = params.ident
  OBVIOUS
<1>31. params = [valid |-> TRUE, ident |-> id, items |-> items] /\ r.params.ident = id
  BY <1>25, <1>28, <1>30
<1>32. r = [to |-> to, from |-> NoCallsign, msg |-> m.msg,
            params |-> [valid |-> TRUE, ident |-> id, items |-> items]]
  BY <1>27, <1>31
<1> QED
  BY <1>1, <1>2, <1>16, <1>26, <1>29, <1>31, <1>32 DEF Asks

\* As plain text or in hexadecimal.
LEMMA WrittenIsParsed ==
    ASSUME NEW text \in Seq(Nat), NEW m, IsRequest(m), Writes(text, m)
    PROVE  Asks(ParsePacket(PacketText(text)), m)
<1>1. PICK n \in 0..Len(text) :
        LET cmd    == Cut(n, text)
            packet == FromHex(Cut(Len(Pktx), cmd))
        IN  /\ AllIn(SubSeq(text, 1, n), {Space})
            /\ Says(cmd, m) \/ (cmd = Pktx \o ToHex(packet) /\ Says(packet, m))
  BY DEF Writes
<1>2. PICK cmd : cmd = Cut(n, text)
  OBVIOUS
<1>3. PICK l \in Nat : l = Len(text)
  OBVIOUS
<1>4. n \in Nat /\ n <= l
  BY <1>1, <1>3
<1>5. cmd \in Seq(Nat) /\ Len(cmd) = l - n /\ \A i \in 1..Len(cmd) : cmd[i] = text[n + i]
  BY <1>2, <1>3, CutType
<1>6. \A i \in 1..n : text[i] = Space
  <2>1. PICK u : u = SubSeq(text, 1, n)
    OBVIOUS
  <2>2. 1 \in 1..(Len(text) + 1) /\ n \in (1 - 1)..Len(text)
    BY <1>3, <1>4
  <2>3. u \in Seq(Nat) /\ Len(u) = n - 1 + 1 /\ \A i \in 1..(n - 1 + 1) : u[i] = text[1 + i - 1]
    BY <2>1, <2>2, Part
  <2>4. \A i \in 1..Len(u) : u[i] = Space
    <3>1. AllIn(u, {Space})
      BY <1>1, <2>1
    <3>2. \A i \in 1..Len(u) : u[i] \in {Space}
      BY <2>3, <3>1, AllInSeq
    <3> QED
      BY <3>2
  <2> TAKE i \in 1..n
  <2>5. i \in 1..(n - 1 + 1) /\ i \in 1..Len(u) /\ 1 + i - 1 = i
    BY <1>4, <2>3
  <2> QED
    BY <2>3, <2>4, <2>5
<1>7. PICK body : body = Cut(6, cmd)
  OBVIOUS
<1>8. PICK packet : packet = FromHex(body)
  OBVIOUS
<1>9. Pktx \in Seq(Nat) /\ Len(Pktx) = 6 /\ Pktx[1] = Bang
  BY DEF Pktx, Bang, Space
<1>10. Says(cmd, m) \/ (cmd = Pktx \o ToHex(packet) /\ Says(packet, m))
  BY <1>1, <1>2, <1>7, <1>8, <1>9
<1>11. PICK p : p = PacketText(text)
  OBVIOUS
<1>12. ASSUME Len(cmd) # 0, cmd[1] # Space PROVE LStrip(text) = cmd
  <2>1. 1 \in 1..Len(cmd) /\ n < Len(text)
    BY <1>3, <1>4, <1>5, <1>12
  <2>2. text[n + 1] # Space
    BY <1>5, <1>12, <2>1
  <2> QED
    BY <1>2, <1>4, <1>6, <2>1, <2>2, LStripIs
<1>13. CASE Says(cmd, m)
  <2>1. Asks(ParsePacket(cmd), m) /\ Len(cmd) # 0 /\ cmd[1] \in Upper \cup Lower
    BY <1>5, <1>13, SaidIsParsed
  <2>2. PICK c : c = cmd[1]
    OBVIOUS
  <2>3. c # Space /\ c # Bang
    <3>1. c \in Upper \cup Lower
      BY <2>1, <2>2
    <3> QED
      BY <3>1 DEF Upper, Lower, Space, Bang
  <2>4. ~IsPrefix(Pktx, cmd)
    <3> SUFFICES ASSUME IsPrefix(Pktx, cmd) PROVE FALSE
      OBVIOUS
    <3>1. cmd \in Seq(Nat) /\ Pktx \in Seq(Nat)
      BY <1>5, <1>9
    <3>2. \A j \in 1..Len(Pktx) : Pktx[j] = cmd[j]
      BY <3>1, PrefixElements
    <3>3. 1 \in 1..Len(Pktx)
      BY <1>9
    <3> QED
      BY <1>9, <2>2, <2>3, <3>2, <3>3
  <2>5. ~IsPrefix(<<Bang>>, cmd)
    <3>1. PICK b : b = <<Bang>>
      OBVIOUS
    <3>2. b \in Seq(Nat) /\ Len(b) = 1 /\ b[1] = Bang
      BY <3>1 DEF Bang
    <3> SUFFICES ASSUME IsPrefix(b, cmd) PROVE FALSE
      BY <3>1
    <3>3. cmd \in Seq(Nat) /\ b \in Seq(Nat)
      BY <1>5, <3>2
    <3>4. \A j \in 1..Len(b) : b[j] = cmd[j]
      BY <3>3, PrefixElements
    <3>5. 1 \in 1..Len(b)
      BY <3>2
    <3> QED
      BY <2>2, <2>3, <3>2, <3>4, <3>5
  <2>6. p = cmd
    BY <1>11, <1>12, <2>1, <2>2, <2>3, <2>4, <2>5 DEF PacketText
  <2> QED
    BY <1>11, <2>1, <2>6
<1>14. CASE cmd = Pktx \o ToHex(packet) /\ Says(packet, m)
  <2>1. body \in Seq(Nat)
    <3>1. PICK lc \in Nat : lc = Len(cmd)
      BY <1>5
    <3>2. \A i \in 7..lc : cmd[i] \in Nat
      BY <1>5, <3>1
    <3>3. body = SubSeq(cmd, 7, lc)
      BY <1>7, <3>1 DEF Cut
    <3> QED
      BY <3>2, <3>3, SubSeqProperties
  <2>2. packet \in Seq(Nat)
    BY <1>8, <2>1, FromHexType
  <2>3. Asks(ParsePacket(packet), m) /\ Len(packet) # 0
    BY <1>14, <2>2, SaidIsParsed
  <2>4. PICK h : h = ToHex(packet)
    OBVIOUS
  <2>5. h \in Seq(Nat) /\ Len(h) = 2 * Len(packet) /\ Without(Space, h)
    BY <2>2, <2>4, ToHexType
  <2>6. PICK lh \in Nat : lh = Len(h)
    BY <2>5
  <2>7. lh # 0
    <3>1. PICK lp \in Nat : lp = Len(packet)
      BY <2>2
    <3> QED
      BY <2>3, <2>5, <2>6, <3>1
  <2>8. /\ Len(cmd) = Len(Pktx) + Len(h)
        /\ \A i \in 1..(Len(Pktx) + Len(h)) : cmd[i] = IF i <= Len(Pktx) THEN Pktx[i] ELSE h[i - Len(Pktx)]
    BY <1>9, <1>14, <2>4, <2>5, ConcatProperties
  <2>9. Len(cmd) = 6 + lh /\ \A i \in 1..(6 + lh) : cmd[i] = IF i <= 6 THEN Pktx[i] ELSE h[i - 6]
    BY <1>9, <2>6, <2>8
  <2>10. \A i \in 1..6 : cmd[i] = Pktx[i]
    BY <2>9
  <2>11. IsPrefix(Pktx, cmd)
    <3>1. cmd \in Seq(Nat) /\ Pktx \in Seq(Nat)
      BY <1>5, <1>9
    <3>2. Len(Pktx) <= Len(cmd) /\ \A j \in 1..Len(Pktx) : Pktx[j] = cmd[j]
      BY <1>9, <2>9, <2>10
    <3> QED
      BY <3>1, <3>2, PrefixElements
  <2>12. body = h
    <3>1. 6 \in 0..Len(cmd)
      BY <2>9
    <3>4. cmd \in Seq(Nat)
      BY <1>5
    <3>5. Len(body) = Len(cmd) - 6 /\ \A i \in 1..Len(body) : body[i] = cmd[6 + i]
      BY <1>7, <3>1, <3>4, CutType
    <3>2. Len(body) = lh /\ \A i \in 1..Len(body) : body[i] = cmd[6 + i]
      BY <2>9, <3>5
    <3>3. ASSUME NEW i \in 1..lh PROVE body[i] = h[i]
      <4>1. PICK j \in Nat : j = 6 + i
        OBVIOUS
      <4>2. j \in 1..(6 + lh) /\ ~(j <= 6) /\ j - 6 = i
        BY <4>1
      <4> QED
        BY <2>9, <3>2, <4>1, <4>2
    <3> QED
      BY <2>1, <2>5, <2>6, <3>2, <3>3, SeqEqual
  <2>13. Strip(h) = h
    BY <2>5, <2>6, <2>7, StripType
  <2>14. LStrip(text) = cmd
    <3>1. cmd[1] = Bang
      BY <1>9, <2>10
    <3>2. Bang # Space
      BY DEF Bang, Space
    <3> QED
      BY <1>12, <2>9, <3>1, <3>2
  <2>15. p = packet
    BY <1>7, <1>8, <1>9, <1>11, <2>11, <2>12, <2>13, <2>14 DEF PacketText
  <2> QED
    BY <1>11, <2>3, <2>15
<1> QED
  BY <1>10, <1>13, <1>14

LEMMA AskedIsOriginated ==
    ASSUME NEW r, NEW m, IsRequest(m), Asks(r, m), NEW id
    PROVE  /\ Originated(r, Me, id) = Originated(m, Me, id)
           /\ Originated(m, Me, id).params.ident = id
<1>1. PICK to : to = m.to
  OBVIOUS
<1>2. PICK msg : msg = m.msg
  OBVIOUS
<1>3. PICK items : items = m.params.items
  OBVIOUS
<1>4. PICK b : b = TRUE
  OBVIOUS
<1>5. PICK none : none = NoCallsign
  OBVIOUS
<1>6. PICK v : v = [valid |-> b, ident |-> id, items |-> items]
  OBVIOUS
<1>7. ASSUME NEW q, NEW n,
             q = [to |-> to, from |-> none, msg |-> msg, params |-> [valid |-> b, ident |-> n, items |-> items]]
      PROVE  Originated(q, Me, id) = [to |-> to, from |-> Me, msg |-> msg, params |-> v]
  <2>1. PICK a : a = [q EXCEPT !.from = Me]
    OBVIOUS
  <2>2. a = [to |-> to, from |-> Me, msg |-> msg, params |-> [valid |-> b, ident |-> n, items |-> items]]
    BY <1>7, <2>1
  <2>3. PICK w : w = [valid |-> b, ident |-> n, items |-> items]
    OBVIOUS
  <2>4. [w EXCEPT !.ident = id] = v
    BY <1>6, <2>3
  <2>5. a = [to |-> to, from |-> Me, msg |-> msg, params |-> w] /\ a.params = w
    BY <2>2, <2>3
  <2>6. Originated(q, Me, id) = [a EXCEPT !.params = [w EXCEPT !.ident = id]]
    <3>1. q.params = w
      BY <1>7, <2>3
    <3>2. Originated(q, Me, id) = [q EXCEPT !.from = Me, !.params = [w EXCEPT !.ident = id]]
      BY <3>1 DEF Originated
    <3> QED
      BY <2>1, <3>2
  <2>7. [a EXCEPT !.params = v] = [to |-> to, from |-> Me, msg |-> msg, params |-> v]
    <3>1. [a EXCEPT !.params = v] = [f \in {"to", "from", "msg", "params"} |-> IF f = "params" THEN v ELSE a[f]]
      BY <2>5
    <3>2. a.to = to /\ a.from = Me /\ a.msg = msg
      BY <2>5
    <3> QED
      BY <3>1, <3>2
  <2> QED
    BY <2>4, <2>6, <2>7
<1>8. PICK n : n = r.params.ident
  OBVIOUS
<1>9. r = [to |-> to, from |-> none, msg |-> msg, params |-> [valid |-> b, ident |-> n, items |-> items]]
  BY <1>1, <1>2, <1>3, <1>4, <1>5, <1>8 DEF Asks
<1>10. PICK z : z = 0
  OBVIOUS
<1>11. m = [to |-> to, from |-> none, msg |-> msg, params |-> [valid |-> b, ident |-> z, items |-> items]]
  BY <1>1, <1>2, <1>3, <1>4, <1>5, <1>10 DEF IsRequest
<1>12. Originated(r, Me, id) = [to |-> to, from |-> Me, msg |-> msg, params |-> v]
  BY <1>7, <1>9
<1>13. Originated(m, Me, id) = [to |-> to, from |-> Me, msg |-> msg, params |-> v]
  BY <1>7, <1>11
<1>14. Originated(m, Me, id).params.ident = id
  BY <1>6, <1>13
<1> QED
  BY <1>12, <1>13, <1>14

-----------------------------------------------------------------------------
(* The life of a packet *)

\* A packet that was sent or heard is a packet; nothing is lost that a station
\* has encoded; what is on the air is what was sent or repeated, or a noise; and
\* what is heard is what is left of what was sent.
OnAir ==
    \/ hops = 0 /\ heard = NoPacket /\ origin = DecodeL3(wire)
    \/ \E q \in {origin, WithR(heard)} : wire = EncodeL3(q) /\ Travels(q, origin, hops)

IInv ==
    /\ at \in {"idle", "refused", "air", "heard", "lost"} /\ hops \in 0..MaxHops
    /\ wire \in Seq(Nat)
    /\ \A p \in {origin, heard} : p = NoPacket \/ WellFormed(p)
    /\ at \in {"idle", "refused", "lost"} => origin = NoPacket /\ heard = NoPacket /\ hops = 0
    /\ at = "air" => OnAir
    /\ at = "heard" => Travels(heard, origin, hops)
    /\ at = "heard" /\ hops = 0 => HasNumber(wire, heard.params.ident)

LEMMA MeIsName == IsName(Me)
  BY RelayAssumption DEF IsName

LEMMA InvInit == Init => IInv
<1> SUFFICES ASSUME Init PROVE IInv
  OBVIOUS
<1>1. 0 \in 0..MaxHops /\ <<>> \in Seq(Nat)
  BY RelayAssumption
<1> QED
  BY <1>1 DEF Init, IInv

LEMMA InvTyped ==
    ASSUME IInv, NEW l \in Lines, NEW id \in Idents, Type(l, id)
    PROVE  IInv'
<1>1. PICK text : text = PacketText(l.text)
  OBVIOUS
<1>2. PICK request : request = ParsePacket(text)
  OBVIOUS
<1>3. /\ at = "idle" /\ origin = NoPacket /\ heard = NoPacket /\ hops = 0
      /\ wire \in Seq(Nat) /\ hops \in 0..MaxHops
      /\ heard' = NoPacket /\ hops' = 0
  BY DEF IInv, Type
<1>4. CASE request = NoPacket
  <2>1. at' = "refused" /\ wire' = wire /\ origin' = origin
    BY <1>1, <1>2, <1>4 DEF Type
  <2> QED
    BY <1>3, <2>1 DEF IInv
<1>5. CASE request # NoPacket
  <2>1. at' = "air" /\ origin' = Originated(request, Me, id) /\ wire' = EncodeL3(origin')
    BY <1>1, <1>2, <1>5 DEF Type
  <2>2. l.text \in Seq(Nat) /\ id \in 1..MaxIdent
    BY RelayAssumption
  <2>3. text \in Seq(Nat)
    BY <1>1, <2>2, PacketTextType
  <2>4. WellFormed(origin')
    BY <1>2, <1>5, <2>1, <2>2, <2>3, TypedType, MeIsName
  <2>5. wire' \in Seq(Nat) /\ Travels(origin', origin', 0)
    BY <2>1, <2>4, EncodedType, SentTravels
  <2>6. OnAir'
    BY <1>3, <2>1, <2>5 DEF OnAir
  <2> QED
    BY <1>3, <2>1, <2>4, <2>5, <2>6 DEF IInv
<1> QED
  BY <1>4, <1>5

LEMMA InvNoise ==
    ASSUME IInv, NEW w \in Noises, Noise(w)
    PROVE  IInv'
<1>1. /\ at = "idle" /\ heard = NoPacket /\ hops = 0 /\ hops \in 0..MaxHops
      /\ at' = "air" /\ wire' = w /\ origin' = DecodeL3(w) /\ heard' = NoPacket /\ hops' = 0
  BY DEF IInv, Noise
<1>2. w \in Seq(Nat)
  BY RelayAssumption
<1>3. origin' = NoPacket \/ WellFormed(origin')
  BY <1>1, <1>2, DecodedType
<1>4. OnAir'
  BY <1>1 DEF OnAir
<1> QED
  BY <1>1, <1>2, <1>3, <1>4 DEF IInv

LEMMA InvHeard ==
    ASSUME IInv, Hear
    PROVE  IInv'
<1>1. /\ at = "air" /\ OnAir /\ hops \in 0..MaxHops /\ wire \in Seq(Nat)
      /\ origin = NoPacket \/ WellFormed(origin)
      /\ heard' = DecodeL3(wire)
      /\ at' = IF heard' = NoPacket THEN "lost" ELSE "heard"
      /\ wire' = wire /\ origin' = origin /\ hops' = hops
  BY DEF IInv, Hear
<1>2. \/ hops = 0 /\ heard' = origin
      \/ Travels(heard', origin, hops)
  <2>1. CASE hops = 0 /\ heard = NoPacket /\ origin = DecodeL3(wire)
    BY <1>1, <2>1
  <2>2. CASE \E q \in {origin, WithR(heard)} : wire = EncodeL3(q) /\ Travels(q, origin, hops)
    <3>1. PICK q : wire = EncodeL3(q) /\ Travels(q, origin, hops)
      BY <2>2
    <3>2. Travels(heard', origin, hops)
      BY <1>1, <3>1, HeardTravels
    <3> QED
      BY <3>2
  <2> QED
    BY <1>1, <2>1, <2>2 DEF OnAir
<1>3. heard' # NoPacket => WellFormed(heard') /\ HasNumber(wire, heard'.params.ident)
  BY <1>1, DecodedType
<1>4. heard' = NoPacket => hops = 0 /\ origin = NoPacket
  BY <1>2, NoPacketType DEF Travels
<1>5. heard' # NoPacket => Travels(heard', origin, hops)
  BY <1>1, <1>2, SentTravels
<1>6. CASE heard' = NoPacket
  BY <1>1, <1>4, <1>6 DEF IInv
<1>7. CASE heard' # NoPacket
  BY <1>1, <1>3, <1>5, <1>7 DEF IInv
<1> QED
  BY <1>6, <1>7

LEMMA InvRepeated ==
    ASSUME IInv, Repeat
    PROVE  IInv'
<1>1. /\ at = "heard" /\ Travels(heard, origin, hops) /\ hops \in 0..MaxHops /\ hops < MaxHops
      /\ \A p \in {origin, heard} : p = NoPacket \/ WellFormed(p)
      /\ at' = "air" /\ wire' = EncodeL3(WithR(heard)) /\ hops' = hops + 1
      /\ origin' = origin /\ heard' = heard
  BY DEF IInv, Repeat
<1>2. MaxHops \in Nat
  BY RelayAssumption
<1>3. hops \in Nat /\ hops' \in 0..MaxHops
  BY <1>1, <1>2
<1>4. Travels(WithR(heard), origin, hops + 1)
  BY <1>1, <1>3, RepeatedTravels
<1>5. WellFormed(WithR(heard))
  BY <1>4 DEF Travels
<1>6. wire' \in Seq(Nat)
  BY <1>1, <1>5, EncodedType
<1>7. OnAir'
  BY <1>1, <1>4 DEF OnAir
<1> QED
  BY <1>1, <1>3, <1>6, <1>7 DEF IInv

LEMMA InvNext == IInv /\ [Next]_vars => IInv'
<1> SUFFICES ASSUME IInv, [Next]_vars PROVE IInv'
  OBVIOUS
<1>1. CASE \E l \in Lines, id \in Idents : Type(l, id)
  BY <1>1, InvTyped
<1>2. CASE \E w \in Noises : Noise(w)
  BY <1>2, InvNoise
<1>3. CASE Hear
  BY <1>3, InvHeard
<1>4. CASE Repeat
  BY <1>4, InvRepeated
<1>5. CASE Fade
  <2>1. 0 \in 0..MaxHops /\ <<>> \in Seq(Nat)
    BY RelayAssumption
  <2> QED
    BY <1>5, <2>1 DEF Fade, IInv
<1>6. CASE UNCHANGED vars
  BY <1>6 DEF vars, IInv, OnAir
<1> QED
  BY <1>1, <1>2, <1>3, <1>4, <1>5, <1>6 DEF Next

LEMMA InvAlways == Spec => []IInv
  BY InvInit, InvNext, PTL DEF Spec

LEMMA PassedIsAfterHops == AfterHops(origin) = Passed(origin, hops) /\ (Undivided(origin) <=> Intact(origin, hops))
  BY DEF AfterHops, Passed, Undivided, Intact

\* Type correctness: whatever is typed or on the air, a station makes, hears and
\* repeats packets with names that are callsigns as Callsign::check wants them,
\* that NVRAM has room for and that are read back unchanged, with an id in range
\* and keys in capitals.
THEOREM RelayTypeCorrect == Spec => []TypeOK
<1>1. IInv => TypeOK
  <2> SUFFICES ASSUME IInv PROVE TypeOK
    OBVIOUS
  <2>1. ASSUME NEW p, WellFormed(p)
        PROVE  /\ \A c \in {p.to, p.from} : Len(c) \in 2..10 /\ CallsignOf(c) = c
               /\ p.params.ident \in 1..MaxIdent
               /\ \A k \in DOMAIN p.params.items : k[1] \in Upper /\ Uppercase(k) = k
    <3>1. \A c \in {p.to, p.from} : Len(c) \in 2..10 /\ CallsignOf(c) = c
      BY <2>1, NameType DEF WellFormed
    <3>2. ASSUME NEW k, IsKey(k) PROVE k[1] \in Upper /\ Uppercase(k) = k
      <4>1. AllIn(k, Digits \cup Upper \cup {Dash})
        BY <3>2 DEF IsKey, AllIn
      <4> QED
        BY <3>2, <4>1, UppercaseSame DEF IsKey
    <3> QED
      BY <2>1, <3>1, <3>2 DEF WellFormed, IsItems
  <2>2. \A p \in {origin, heard} \ {NoPacket} : WellFormed(p)
    BY DEF IInv
  <2>3. at \in {"idle", "refused", "air", "heard", "lost"} /\ hops \in 0..MaxHops
    BY DEF IInv
  <2> QED
    BY <2>1, <2>2, <2>3 DEF TypeOK
<1> QED
  BY <1>1, InvAlways, PTL

\* What Packet::encode_l3 writes is what Packet::decode_l3 reads, at every hop:
\* for any callsigns, ids, keys, values and messages, a packet that fits as sent
\* and as repeated is heard with no change but the repeater's earmark.
THEOREM HeardAsSent == Spec => []RepeatedAsHeard
<1>1. IInv => RepeatedAsHeard
  <2> SUFFICES ASSUME IInv, at \in {"heard", "lost"}, Undivided(origin)
               PROVE  heard = AfterHops(origin)
    BY DEF RepeatedAsHeard
  <2>1. CASE at = "heard"
    <3>1. Travels(heard, origin, hops)
      BY <2>1 DEF IInv
    <3> QED
      BY <3>1, PassedIsAfterHops DEF Travels
  <2>2. CASE at = "lost"
    <3>1. origin = NoPacket /\ heard = NoPacket /\ hops = 0
      BY <2>2 DEF IInv
    <3> QED
      BY <3>1 DEF AfterHops
  <2> QED
    BY <2>1, <2>2
<1> QED
  BY <1>1, InvAlways, PTL

\* A packet that encode_l3 cuts at the size of the radio's packets is heard by
\* every station at every hop with the same callsigns and id, and with the
\* beginning of its message; if any of it is left, with all its parameters.
THEOREM CutCostsTheEnd == Spec => []CutAtTheEnd
<1>1. IInv => CutAtTheEnd
  <2> SUFFICES ASSUME IInv, at \in {"heard", "lost"}, origin # NoPacket
               PROVE  /\ heard.to = origin.to /\ heard.from = origin.from
                      /\ heard.params.ident = origin.params.ident
                      /\ IsPrefix(heard.msg, origin.msg)
                      /\ heard.msg # <<>> => heard.params = AfterHops(origin).params
    BY DEF CutAtTheEnd
  <2>1. Travels(heard, origin, hops)
    BY DEF IInv
  <2>2. PICK r : r = Passed(origin, hops)
    OBVIOUS
  <2>3. /\ WellFormed(origin) /\ r = AfterHops(origin)
        /\ heard.to = r.to /\ heard.from = r.from /\ heard.params.ident = r.params.ident
        /\ Begins(heard.msg, r.msg) /\ (heard.msg # <<>> => heard.params = r.params)
    BY <2>1, <2>2, PassedIsAfterHops DEF Travels, Hears
  <2>4. r.to = origin.to /\ r.from = origin.from /\ r.msg = origin.msg
        /\ r.params.ident = origin.params.ident
    <3>1. WellFormed(origin)
      BY <2>3
    <3> QED
      BY <2>2, <3>1, PassedType
  <2>5. heard.msg \in Seq(Nat) /\ origin.msg \in Seq(Nat)
    BY <2>3 DEF Begins, WellFormed
  <2>6. IsPrefix(heard.msg, origin.msg)
    BY <2>3, <2>4, <2>5, PrefixElements DEF Begins
  <2> QED
    BY <2>3, <2>4, <2>6
<1> QED
  BY <1>1, InvAlways, PTL

\* The id that parse_ident_param accepts is the number that the text on the air
\* has between two characters that are no digits, for every length of numeral:
\* strtol() neither wraps nor saturates into an id that nobody has written.
THEOREM IdsAreWritten == Spec => []IdentIsWritten
<1>1. IInv => IdentIsWritten
  <2> SUFFICES ASSUME IInv, at = "heard", hops = 0 PROVE IdentIsWritten
    BY DEF IdentIsWritten
  <2>1. HasNumber(wire, heard.params.ident)
    BY DEF IInv
  <2> QED
    BY <2>1 DEF HasNumber, IdentIsWritten
<1> QED
  BY <1>1, InvAlways, PTL


\* The packet on its way is the one that the operator has asked for.
SentAsMeant ==
    /\ at = "idle" => line = NoLine
    /\ line.meant # NoPacket =>
          /\ at \in {"air", "heard"} /\ origin # NoPacket
          /\ origin = Originated(line.meant, Me, origin.params.ident)

LEMMA MeantNext == IInv /\ IInv' /\ SentAsMeant /\ [Next]_vars => SentAsMeant'
<1> SUFFICES ASSUME IInv, IInv', SentAsMeant, [Next]_vars PROVE SentAsMeant'
  OBVIOUS
<1>1. NoLine.meant = NoPacket
  BY DEF NoLine
<1>2. ASSUME NEW l \in Lines, NEW id \in Idents, Type(l, id) PROVE SentAsMeant'
  <2>1. PICK request : request = ParsePacket(PacketText(l.text))
    OBVIOUS
  <2>2. line' = l /\ at' # "idle"
    BY <1>2 DEF Type
  <2>3. ASSUME l.meant # NoPacket
        PROVE  /\ at' = "air" /\ origin' # NoPacket
               /\ origin' = Originated(l.meant, Me, origin'.params.ident)
    <3>1. l.text \in Seq(Nat) /\ IsRequest(l.meant) /\ Writes(l.text, l.meant)
      BY <2>3, RelayAssumption, LinesAssumption
    <3>2. Asks(request, l.meant)
      BY <2>1, <3>1, WrittenIsParsed
    <3>3. at' = "air" /\ origin' = Originated(request, Me, id)
      BY <1>2, <2>1, <3>2 DEF Type, Asks
    <3>4. origin' = Originated(l.meant, Me, id) /\ origin'.params.ident = id
      BY <3>1, <3>2, <3>3, AskedIsOriginated
    <3>5. OnAir' /\ id \in 1..MaxIdent
      BY <3>3, RelayAssumption DEF IInv
    <3>6. origin' # NoPacket
      <4>1. NoPacket.params.ident = 0
        BY DEF NoPacket, Invalid
      <4> QED
        BY <3>4, <3>5, <4>1, IdentAssumption
    <3> QED
      BY <3>3, <3>4, <3>6
  <2> QED
    BY <2>2, <2>3 DEF SentAsMeant
<1>3. ASSUME NEW w \in Noises, Noise(w) PROVE SentAsMeant'
  BY <1>1, <1>3 DEF SentAsMeant, Noise
<1>4. CASE Hear
  <2>1. at' = IF heard' = NoPacket THEN "lost" ELSE "heard"
    BY <1>4 DEF Hear
  <2>2. line' = line /\ origin' = origin
    BY <1>4 DEF Hear
  <2>3. at' = "lost" => origin' = NoPacket
    BY DEF IInv
  <2> QED
    BY <2>1, <2>2, <2>3 DEF SentAsMeant
<1>5. CASE Repeat
  BY <1>5 DEF SentAsMeant, Repeat
<1>6. CASE Fade
  BY <1>1, <1>6 DEF SentAsMeant, Fade
<1>7. CASE UNCHANGED vars
  BY <1>7 DEF SentAsMeant, vars
<1> QED
  BY <1>2, <1>3, <1>4, <1>5, <1>6, <1>7 DEF Next

\* What an operator types in the documented format, as plain text or in
\* hexadecimal, with keys in any order and case and an id or without, is never
\* refused, and the packet that every station hears is the one that was meant:
\* cli_parse_packet and parse_params read all that PacketFormat.md allows.
THEOREM MeantIsRead == Spec => []MeantIsHeard
<1>1. Init => SentAsMeant
  <2>1. NoLine.meant = NoPacket
    BY DEF NoLine
  <2> QED
    BY <2>1 DEF Init, SentAsMeant
<1>2. IInv /\ SentAsMeant => MeantIsHeard
  <2> SUFFICES ASSUME IInv, SentAsMeant, line.meant # NoPacket,
                      NEW sent, sent = Originated(line.meant, Me, origin.params.ident)
               PROVE  /\ at # "refused"
                      /\ at \in {"heard", "lost"} /\ Undivided(sent) => heard = AfterHops(sent)
    BY DEF MeantIsHeard
  <2>1. at \in {"air", "heard"} /\ origin = sent
    BY DEF SentAsMeant
  <2>2. at = "heard" => Travels(heard, origin, hops)
    BY DEF IInv
  <2> QED
    BY <2>1, <2>2, PassedIsAfterHops DEF Travels
<1> QED
  BY <1>1, <1>2, InvAlways, MeantNext, PTL DEF Spec
=============================================================================
