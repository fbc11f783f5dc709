----------------------------- MODULE DictProofs -----------------------------
(* The associative array is right for every set of keys and values, and    *)
(* whatever the length of the range that is searched one by one.           *)
EXTENDS Dict, TLAPS, SequenceTheorems

-----------------------------------------------------------------------------
(* Vectors *)

\* A sequence is known by its length and its elements.
LEMMA Tabulated ==
    ASSUME NEW S, NEW n \in Nat, NEW f \in [1..n -> S]
    PROVE  f \in Seq(S) /\ Len(f) = n
<1>1. f \in Seq(S)
  BY SeqDef
<1>2. Len(f) \in Nat /\ DOMAIN f = 1..Len(f) /\ DOMAIN f = 1..n
  BY <1>1, LenProperties
<1> QED
  BY <1>1, <1>2

LEMMA Elements ==
    ASSUME NEW S, NEW v \in Vectors(S)
    PROVE  /\ v.elem \in Seq(S) /\ v.space \in Nat /\ Count(v) \in Nat
           /\ \A i \in 1..Count(v) : v.elem[i] \in S
<1>1. v.elem \in Seq(S) /\ v.space \in Nat
  BY DEF Vectors
<1> QED
  BY <1>1, LenProperties, ElementOfSeq DEF Count

LEMMA Inserted ==
    ASSUME NEW S, NEW v \in Vectors(S), NEW x \in S, NEW pos \in 0..Count(v)
    PROVE  LET w == InsertIn(v, pos, x) IN
           /\ w \in Vectors(S) /\ Count(w) = Count(v) + 1
           /\ \A i \in 1..pos : w.elem[i] = v.elem[i]
           /\ w.elem[pos + 1] = x
           /\ \A i \in pos + 2..Count(w) : w.elem[i] = v.elem[i - 1]
           /\ Count(v) <= v.space => Count(w) <= w.space
<1>1. v.elem \in Seq(S) /\ v.space \in Nat /\ Count(v) \in Nat /\ \A i \in 1..Count(v) : v.elem[i] \in S
  BY Elements
<1> DEFINE n == Count(v)
           f == [i \in 1..(n + 1) |->
                   IF i <= pos THEN v.elem[i] ELSE IF i = pos + 1 THEN x ELSE v.elem[i - 1]]
<1>2. n \in Nat /\ pos \in Nat /\ pos <= n
  BY <1>1
<1>3. InsertIn(v, pos, x) = [elem |-> f, space |-> Grown(v)]
  BY DEF InsertIn
<1>4. f \in [1..(n + 1) -> S]
  <2> SUFFICES ASSUME NEW i \in 1..(n + 1)
               PROVE  (IF i <= pos THEN v.elem[i] ELSE IF i = pos + 1 THEN x ELSE v.elem[i - 1]) \in S
    OBVIOUS
  <2>1. CASE i <= pos
    BY <1>1, <1>2, <2>1
  <2>2. CASE i = pos + 1
    BY <1>2, <2>2
  <2>3. CASE i > pos + 1
    <3>1. i - 1 \in 1..n
      BY <1>2, <2>3
    <3> QED
      BY <1>1, <1>2, <2>3, <3>1
  <2> QED
    BY <1>2, <2>1, <2>2, <2>3
<1>5. f \in Seq(S) /\ Len(f) = n + 1
  <2>1. n + 1 \in Nat
    BY <1>2
  <2> HIDE DEF f
  <2> QED
    BY <2>1, <1>4, Tabulated
<1>6. Grown(v) \in Nat /\ (n <= v.space => n + 1 <= Grown(v))
  BY <1>1, <1>2 DEF Grown
<1>7. /\ \A i \in 1..pos : f[i] = v.elem[i]
      /\ f[pos + 1] = x
      /\ \A i \in pos + 2..n + 1 : f[i] = v.elem[i - 1]
  BY <1>2
<1> HIDE DEF f
<1>8. [elem |-> f, space |-> Grown(v)] \in Vectors(S)
  BY <1>5, <1>6 DEF Vectors
<1>9. Count([elem |-> f, space |-> Grown(v)]) = n + 1
  BY <1>5 DEF Count
<1> QED
  BY <1>3, <1>6, <1>7, <1>8, <1>9

LEMMA Removed ==
    ASSUME NEW S, NEW v \in Vectors(S), NEW pos \in 0..(Count(v) - 1)
    PROVE  LET w == RemovFrom(v, pos) IN
           /\ w \in Vectors(S) /\ Count(w) = Count(v) - 1 /\ w.space = v.space
           /\ \A i \in 1..pos : w.elem[i] = v.elem[i]
           /\ \A i \in pos + 1..Count(w) : w.elem[i] = v.elem[i + 1]
<1>1. v.elem \in Seq(S) /\ v.space \in Nat /\ Count(v) \in Nat /\ \A i \in 1..Count(v) : v.elem[i] \in S
  BY Elements
<1> DEFINE n == Count(v)
           f == [i \in 1..(n - 1) |-> IF i <= pos THEN v.elem[i] ELSE v.elem[i + 1]]
<1>2. n \in Nat /\ pos \in Nat /\ pos <= n - 1 /\ n - 1 \in Nat
  BY <1>1
<1>3. RemovFrom(v, pos) = [elem |-> f, space |-> v.space]
  BY DEF RemovFrom
<1>4. f \in [1..(n - 1) -> S]
  <2> SUFFICES ASSUME NEW i \in 1..(n - 1)
               PROVE  (IF i <= pos THEN v.elem[i] ELSE v.elem[i + 1]) \in S
    OBVIOUS
  <2>1. i \in 1..n /\ i + 1 \in 1..n
    BY <1>2
  <2> QED
    BY <1>1, <2>1
<1>5. /\ \A i \in 1..pos : f[i] = v.elem[i]
      /\ \A i \in pos + 1..n - 1 : f[i] = v.elem[i + 1]
  BY <1>2
<1> HIDE DEF f
<1>6. f \in Seq(S) /\ Len(f) = n - 1
  BY <1>2, <1>4, Tabulated
<1>7. [elem |-> f, space |-> v.space] \in Vectors(S)
  BY <1>1, <1>6 DEF Vectors
<1>8. Count([elem |-> f, space |-> v.space]) = n - 1
  BY <1>6 DEF Count
<1> QED
  BY <1>3, <1>5, <1>7, <1>8

LEMMA Assigned ==
    ASSUME NEW S, NEW v \in Vectors(S), NEW x \in S, NEW pos \in 0..(Count(v) - 1)
    PROVE  LET w == Assign(v, pos, x) IN
           /\ w \in Vectors(S) /\ Count(w) = Count(v) /\ w.space = v.space
           /\ w.elem[pos + 1] = x
           /\ \A i \in 1..Count(v) : i # pos + 1 => w.elem[i] = v.elem[i]
<1>1. v.elem \in Seq(S) /\ v.space \in Nat /\ Count(v) \in Nat /\ \A i \in 1..Count(v) : v.elem[i] \in S
  BY Elements
<1> DEFINE f == [v.elem EXCEPT ![pos + 1] = x]
<1>2. Assign(v, pos, x) = [elem |-> f, space |-> v.space]
  BY DEF Assign
<1>3. pos + 1 \in 1..Count(v)
  BY <1>1
<1>4. f \in Seq(S) /\ Len(f) = Count(v) /\ f[pos + 1] = x
      /\ \A i \in 1..Count(v) : i # pos + 1 => f[i] = v.elem[i]
  BY <1>1, <1>3, ExceptSeq DEF Count
<1> HIDE DEF f
<1>5. [elem |-> f, space |-> v.space] \in Vectors(S)
  BY <1>1, <1>4 DEF Vectors
<1>6. Count([elem |-> f, space |-> v.space]) = Count(v)
  BY <1>4 DEF Count
<1> QED
  BY <1>2, <1>4, <1>5, <1>6

-----------------------------------------------------------------------------
(* Vectors of keys in order, and the range that is left to search *)

Sorted(ks) == \A i, j \in 1..Count(ks) : i < j => ks.elem[i] < ks.elem[j]
Has(ks, k) == \E i \in 1..Count(ks) : ks.elem[i] = k

\* k is at one of the positions a..(b - 1), if anywhere.
Around(ks, k, a, b) ==
    /\ a \in Nat /\ b \in Nat /\ a <= b /\ b <= Count(ks)
    /\ \A i \in 1..a : ks.elem[i] < k
    /\ \A i \in b + 1..Count(ks) : k < ks.elem[i]

LEMMA KeyInt ==
    ASSUME NEW v \in Vectors(Keys)
    PROVE  Count(v) \in Nat /\ \A i \in 1..Count(v) : v.elem[i] \in Int /\ v.elem[i] \in Keys
BY Elements, KeysAssumption

LEMMA SortedApart ==
    ASSUME NEW v \in Vectors(Keys), Sorted(v),
           NEW i \in 1..Count(v), NEW j \in 1..Count(v), v.elem[i] = v.elem[j]
    PROVE  i = j
<1>1. Count(v) \in Nat /\ v.elem[i] \in Int /\ v.elem[j] \in Int
  BY KeyInt
<1>2. i \in Int /\ j \in Int
  BY <1>1
<1>3. CASE i < j
  BY <1>1, <1>2, <1>3 DEF Sorted
<1>4. CASE j < i
  BY <1>1, <1>2, <1>4 DEF Sorted
<1> QED
  BY <1>2, <1>3, <1>4

LEMMA Half ==
    ASSUME NEW a \in Nat, NEW b \in Nat, a < b
    PROVE  (a + b) \div 2 \in a..(b - 1)
OBVIOUS

\* Each half of the range is a range.
LEMMA Halved ==
    ASSUME NEW v \in Vectors(Keys), NEW k \in Keys, NEW a, NEW b, Sorted(v), Around(v, k, a, b),
           NEW m \in a..(b - 1)
    PROVE  /\ k < v.elem[m + 1] => Around(v, k, a, m)
           /\ v.elem[m + 1] < k => Around(v, k, m + 1, b)
<1>1. Count(v) \in Nat /\ \A i \in 1..Count(v) : v.elem[i] \in Int
  BY KeyInt
<1>2. a \in Nat /\ b \in Nat /\ a <= b /\ b <= Count(v) /\ k \in Int
  BY KeysAssumption DEF Around
<1>3. m \in Nat /\ a <= m /\ m + 1 <= b /\ m + 1 \in 1..Count(v)
  BY <1>1, <1>2
<1>4. ASSUME k < v.elem[m + 1] PROVE Around(v, k, a, m)
  <2>1. ASSUME NEW i \in m + 1..Count(v) PROVE k < v.elem[i]
    <3>1. i \in 1..Count(v) /\ i \in Int
      BY <1>1, <1>3
    <3>2. v.elem[m + 1] <= v.elem[i]
      BY <1>1, <1>3, <3>1 DEF Sorted
    <3> QED
      BY <1>1, <1>2, <1>3, <1>4, <3>1, <3>2
  <2> QED
    BY <1>1, <1>2, <1>3, <2>1 DEF Around
<1>5. ASSUME v.elem[m + 1] < k PROVE Around(v, k, m + 1, b)
  <2>1. ASSUME NEW i \in 1..(m + 1) PROVE v.elem[i] < k
    <3>1. i \in 1..Count(v) /\ i \in Int
      BY <1>1, <1>3
    <3>2. v.elem[i] <= v.elem[m + 1]
      BY <1>1, <1>3, <3>1 DEF Sorted
    <3> QED
      BY <1>1, <1>2, <1>3, <1>5, <3>1, <3>2
  <2> QED
    BY <1>1, <1>2, <1>3, <2>1 DEF Around
<1> QED
  BY <1>4, <1>5

\* A key that is there is in the range.
LEMMA InRange ==
    ASSUME NEW v \in Vectors(Keys), NEW k \in Keys, NEW a, NEW b, Around(v, k, a, b),
           NEW i \in 1..Count(v), v.elem[i] = k
    PROVE  i - 1 \in a..(b - 1)
<1>1. Count(v) \in Nat /\ v.elem[i] \in Int /\ k \in Int
  BY KeyInt, KeysAssumption
<1>2. a \in Nat /\ b \in Nat /\ a <= b /\ b <= Count(v)
  BY DEF Around
<1>3. ~(i <= a)
  BY <1>1, <1>2 DEF Around
<1>4. ~(b + 1 <= i)
  BY <1>1, <1>2 DEF Around
<1> QED
  BY <1>1, <1>2, <1>3, <1>4

\* A key goes where the search for its place stops, and the keys stay in order.
LEMMA InsertSorted ==
    ASSUME NEW v \in Vectors(Keys), NEW k \in Keys, NEW pos, Sorted(v), Around(v, k, pos, pos)
    PROVE  Sorted(InsertIn(v, pos, k)) /\ Has(InsertIn(v, pos, k), k)
<1>1. Count(v) \in Nat /\ \A i \in 1..Count(v) : v.elem[i] \in Int
  BY KeyInt
<1>2. pos \in Nat /\ pos <= Count(v) /\ pos \in 0..Count(v) /\ k \in Int
  BY <1>1, KeysAssumption DEF Around
<1> DEFINE w == InsertIn(v, pos, k)
<1>3. /\ Count(w) = Count(v) + 1
      /\ \A i \in 1..pos : w.elem[i] = v.elem[i]
      /\ w.elem[pos + 1] = k
      /\ \A i \in pos + 2..Count(w) : w.elem[i] = v.elem[i - 1]
  BY <1>2, Inserted
<1>4. /\ \A i \in 1..pos : v.elem[i] < k
      /\ \A i \in pos + 1..Count(v) : k < v.elem[i]
  BY DEF Around
<1> HIDE DEF w
<1>5. ASSUME NEW i \in 1..Count(w), NEW j \in 1..Count(w), i < j PROVE w.elem[i] < w.elem[j]
  <2>1. CASE j <= pos
    <3>1. i \in 1..pos /\ j \in 1..pos /\ i \in 1..Count(v) /\ j \in 1..Count(v)
      BY <1>1, <1>2, <1>3, <1>5, <2>1
    <3> QED
      BY <1>3, <1>5, <3>1 DEF Sorted
  <2>2. CASE j = pos + 1
    <3>1. i \in 1..pos
      BY <1>2, <1>5, <2>2
    <3> QED
      BY <1>3, <1>4, <2>2, <3>1
  <2>3. CASE j > pos + 1 /\ i = pos + 1
    <3>1. j \in pos + 2..Count(w) /\ j - 1 \in pos + 1..Count(v)
      BY <1>1, <1>2, <1>3, <2>3
    <3> QED
      BY <1>3, <1>4, <2>3, <3>1
  <2>4. CASE j > pos + 1 /\ i <= pos
    <3>1. i \in 1..pos /\ j \in pos + 2..Count(w) /\ j - 1 \in 1..Count(v) /\ i < j - 1
          /\ i \in 1..Count(v)
      BY <1>1, <1>2, <1>3, <2>4
    <3> QED
      BY <1>3, <3>1 DEF Sorted
  <2>5. CASE j > pos + 1 /\ i > pos + 1
    <3>1. i \in pos + 2..Count(w) /\ j \in pos + 2..Count(w) /\ i - 1 < j - 1
          /\ i - 1 \in 1..Count(v) /\ j - 1 \in 1..Count(v)
      BY <1>1, <1>2, <1>3, <1>5, <2>5
    <3> QED
      BY <1>3, <3>1 DEF Sorted
  <2>6. i \in Int /\ j \in Int
    OBVIOUS
  <2> QED
    BY <1>2, <2>1, <2>2, <2>3, <2>4, <2>5, <2>6
<1>6. pos + 1 \in 1..Count(w)
  BY <1>1, <1>2, <1>3
<1> QED
  BY <1>3, <1>5, <1>6 DEF Sorted, Has, w

LEMMA RemoveSorted ==
    ASSUME NEW v \in Vectors(Keys), NEW pos \in 0..(Count(v) - 1), Sorted(v)
    PROVE  Sorted(RemovFrom(v, pos))
<1>1. Count(v) \in Nat /\ pos \in Nat
  BY KeyInt
<1> DEFINE w == RemovFrom(v, pos)
<1>2. /\ Count(w) = Count(v) - 1
      /\ \A i \in 1..pos : w.elem[i] = v.elem[i]
      /\ \A i \in pos + 1..Count(w) : w.elem[i] = v.elem[i + 1]
  BY Removed
<1> HIDE DEF w
<1>3. ASSUME NEW i \in 1..Count(w), NEW j \in 1..Count(w), i < j PROVE w.elem[i] < w.elem[j]
  <2>1. CASE j <= pos
    <3>1. i \in 1..pos /\ j \in 1..pos /\ i \in 1..Count(v) /\ j \in 1..Count(v)
      BY <1>1, <1>2, <1>3, <2>1
    <3> QED
      BY <1>2, <1>3, <3>1 DEF Sorted
  <2>2. CASE j > pos /\ i <= pos
    <3>1. i \in 1..pos /\ j \in pos + 1..Count(w) /\ j + 1 \in 1..Count(v) /\ i < j + 1
          /\ i \in 1..Count(v)
      BY <1>1, <1>2, <1>3, <2>2
    <3> QED
      BY <1>2, <3>1 DEF Sorted
  <2>3. CASE j > pos /\ i > pos
    <3>1. i \in pos + 1..Count(w) /\ j \in pos + 1..Count(w) /\ i + 1 < j + 1
          /\ i + 1 \in 1..Count(v) /\ j + 1 \in 1..Count(v)
      BY <1>1, <1>2, <1>3, <2>3
    <3> QED
      BY <1>2, <3>1 DEF Sorted
  <2>4. i \in Int /\ j \in Int
    OBVIOUS
  <2> QED
    BY <1>1, <2>1, <2>2, <2>3, <2>4
<1> QED
  BY <1>3 DEF Sorted, w

-----------------------------------------------------------------------------
(* The inductive invariant *)

\* What is known while a search is under way: the key is in the range that is
\* left, a place is sought for a key that is not there, and a search repeated
\* after an insertion, or made by get(), finds its key.
SearchOK ==
    /\ Searching => Around(keys, op.key, op.from, op.to)
    /\ op.at = "place" => op.kind \in {"put", "subscript"} /\ ~Has(keys, op.key)
    /\ op.at = "again" => op.kind = "subscript" /\ Has(keys, op.key)
    /\ op.kind = "get" => op.at = "find" /\ Has(keys, op.key)

IInv == TypeOK /\ Sorted(keys) /\ RoomIsEnough /\ SearchOK

\* What a search that is over has found.
Found(pos) ==
    /\ Exact => \/ pos = -1 /\ ~Has(keys, op.key)
                \/ pos \in 0..(Count(keys) - 1) /\ keys.elem[pos + 1] = op.key
    /\ ~Exact => Around(keys, op.key, pos, pos)

LEMMA OpType ==
    ASSUME IInv, Searching
    PROVE  /\ op \in [at : {"find", "place", "again"}, kind : Kinds, key : Keys,
                      value : Values, from : Nat, to : Nat]
           /\ op.at \in {"find", "place", "again"} /\ op.kind \in Kinds /\ op.key \in Keys
           /\ op.value \in Values /\ op.from \in Nat /\ op.to \in Nat
           /\ Count(keys) \in Nat /\ Count(values) = Count(keys)
           /\ op.from <= op.to /\ op.to <= Count(keys)
           /\ keys \in Vectors(Keys) /\ values \in Vectors(Values)
           /\ op.key \in Int
<1>1. op # NoOp
  BY DEF Searching, NoOp
<1>2. keys \in Vectors(Keys) /\ values \in Vectors(Values) /\ Count(values) = Count(keys)
  BY DEF IInv, TypeOK
<1>3. Count(keys) \in Nat
  BY <1>2, KeyInt
<1>4. op \in [at : {"find", "place", "again"}, kind : Kinds, key : Keys,
                      value : Values, from : Nat, to : Nat]
  BY <1>1 DEF IInv, TypeOK
<1>5. Around(keys, op.key, op.from, op.to)
  BY DEF IInv, SearchOK
<1> QED
  BY <1>2, <1>3, <1>4, <1>5, KeysAssumption DEF Around

LEMMA ScanFound ==
    ASSUME IInv, Searching, NEW pos \in -1..Count(keys), Scans(pos)
    PROVE  Found(pos)
<1>1. PICK k \in Keys, a \in Nat, b \in Nat : k = op.key /\ a = op.from /\ b = op.to
  BY OpType
<1>2. Around(keys, k, a, b) /\ keys \in Vectors(Keys) /\ Sorted(keys)
  BY <1>1, OpType DEF IInv, SearchOK
<1>3. a <= b /\ b <= Count(keys) /\ Count(keys) \in Nat /\ k \in Int
      /\ \A i \in 1..Count(keys) : keys.elem[i] \in Int
  BY <1>1, <1>2, KeyInt, OpType
<1>4. CASE pos \in a..(b - 1) /\ Stops(pos) /\ \A j \in a..(b - 1) : j < pos => ~Stops(j)
  <2>1. pos \in 0..(Count(keys) - 1) /\ pos + 1 \in 1..Count(keys)
    BY <1>3, <1>4
  <2>2. CASE keys.elem[pos + 1] = k
    <3>1. ~(op.at = "place")
      BY <1>1, <2>1, <2>2 DEF IInv, SearchOK, Has
    <3> QED
      BY <1>1, <2>1, <2>2, <3>1 DEF Found, Exact
  <2>3. CASE keys.elem[pos + 1] # k
    <3>1. ~Exact /\ k < keys.elem[pos + 1]
      BY <1>1, <1>4, <2>3 DEF Stops, KeyAt
    <3>2. Around(keys, k, a, pos)
      BY <1>2, <1>4, <3>1, Halved
    <3>3. ASSUME NEW i \in 1..pos PROVE keys.elem[i] < k
      <4>1. CASE i <= a
        BY <1>2, <4>1 DEF Around
      <4>2. CASE i > a
        <5>1. i - 1 \in a..(b - 1) /\ i - 1 < pos /\ i \in 1..Count(keys) /\ (i - 1) + 1 = i
          BY <1>3, <1>4, <2>1, <4>2
        <5>2. ~Stops(i - 1)
          BY <1>4, <5>1
        <5>3. ~(keys.elem[i] = k) /\ ~(keys.elem[i] > k)
          BY <1>1, <3>1, <5>1, <5>2 DEF Stops, KeyAt
        <5>4. keys.elem[i] \in Int
          BY <1>3, <5>1
        <5> QED
          BY <1>3, <5>3, <5>4
      <4>3. i \in Int /\ a \in Int
        OBVIOUS
      <4> QED
        BY <4>1, <4>2, <4>3
    <3>4. pos \in Nat /\ pos <= Count(keys) /\ \A i \in pos + 1..Count(keys) : k < keys.elem[i]
      BY <3>2 DEF Around
    <3>5. Around(keys, k, pos, pos)
      BY <3>3, <3>4 DEF Around
    <3> QED
      BY <1>1, <3>1, <3>5 DEF Found
  <2> QED
    BY <2>2, <2>3
<1>5. CASE (\A j \in a..(b - 1) : ~Stops(j)) /\ pos = IF Exact THEN -1 ELSE b
  <2>1. CASE Exact
    <3>1. ~Has(keys, k)
      <4> SUFFICES ASSUME NEW i \in 1..Count(keys), keys.elem[i] = k PROVE FALSE
        BY DEF Has
      <4>1. i - 1 \in a..(b - 1)
        BY <1>2, InRange
      <4>2. ~Stops(i - 1)
        BY <1>5, <4>1
      <4>3. (i - 1) + 1 = i
        OBVIOUS
      <4> QED
        BY <1>1, <4>2, <4>3 DEF Stops, KeyAt
    <3> QED
      BY <1>1, <1>5, <2>1, <3>1 DEF Found
  <2>2. CASE ~Exact
    <3>1. ASSUME NEW i \in 1..b PROVE keys.elem[i] < k
      <4>1. CASE i <= a
        BY <1>2, <4>1 DEF Around
      <4>2. CASE i > a
        <5>1. i - 1 \in a..(b - 1) /\ i \in 1..Count(keys) /\ (i - 1) + 1 = i
          BY <1>3, <4>2
        <5>2. ~Stops(i - 1)
          BY <1>5, <5>1
        <5>3. ~(keys.elem[i] = k) /\ ~(keys.elem[i] > k)
          BY <1>1, <2>2, <5>1, <5>2 DEF Stops, KeyAt
        <5>4. keys.elem[i] \in Int
          BY <1>3, <5>1
        <5> QED
          BY <1>3, <5>3, <5>4
      <4>3. i \in Int /\ a \in Int
        OBVIOUS
      <4> QED
        BY <4>1, <4>2, <4>3
    <3>2. Around(keys, k, b, b)
      BY <1>2, <3>1 DEF Around
    <3> QED
      BY <1>1, <1>5, <2>2, <3>2 DEF Found
  <2> QED
    BY <2>1, <2>2
<1> QED
  BY <1>1, <1>4, <1>5 DEF Scans

\* A range that is not short has a middle.
LEMMA MiddleIn ==
    ASSUME IInv, Searching, ~Short
    PROVE  Middle \in op.from..(op.to - 1) /\ Middle \in 0..(Count(keys) - 1) /\ Middle + 1 \in 1..Count(keys)
<1>1. op.from \in Nat /\ op.to \in Nat /\ op.to <= Count(keys) /\ Count(keys) \in Nat
  BY OpType
<1>2. op.from < op.to
  BY <1>1, LinearAssumption DEF Short
<1>3. Middle \in op.from..(op.to - 1)
  BY <1>1, <1>2, Half DEF Middle
<1> QED
  BY <1>1, <1>3

LEMMA HitFound ==
    ASSUME IInv, Searching, ~Short, KeyAt(Middle) = op.key
    PROVE  Found(Middle)
<1>1. Middle \in 0..(Count(keys) - 1) /\ Middle + 1 \in 1..Count(keys) /\ keys.elem[Middle + 1] = op.key
  BY MiddleIn DEF KeyAt
<1>2. PICK m : m = Middle
  OBVIOUS
<1>3. m \in 0..(Count(keys) - 1) /\ m + 1 \in 1..Count(keys) /\ keys.elem[m + 1] = op.key
  BY <1>1, <1>2
<1>4. ~(op.at = "place")
  BY <1>3 DEF IInv, SearchOK, Has
<1> QED
  BY <1>2, <1>3, <1>4 DEF Found, Exact

LEMMA InitInv == Init => IInv
<1> SUFFICES ASSUME Init PROVE IInv
  OBVIOUS
<1>1. EmptyVector.elem = <<>> /\ EmptyVector.space = 0 /\ Count(EmptyVector) = 0
  BY DEF EmptyVector, Count
<1>2. keys = EmptyVector /\ values = EmptyVector /\ op = NoOp /\ ret = [flag |-> FALSE, value |-> Default]
  BY DEF Init
<1>3. keys \in Vectors(Keys) /\ values \in Vectors(Values)
  <2>1. \A S : <<>> \in Seq(S)
    OBVIOUS
  <2> QED
    BY <1>2, <2>1 DEF EmptyVector, Vectors
<1>4. TypeOK
  BY <1>1, <1>2, <1>3, ValuesAssumption DEF TypeOK
<1>5. Sorted(keys) /\ RoomIsEnough
  BY <1>1, <1>2 DEF Sorted, RoomIsEnough
<1>6. op.at = "idle" /\ op.kind = "none"
  BY <1>2 DEF NoOp
<1>7. SearchOK
  BY <1>6 DEF SearchOK, Searching
<1> QED
  BY <1>4, <1>5, <1>7 DEF IInv

\* A call that returns leaves no search.
LEMMA Returned ==
    ASSUME IInv, NEW flag \in BOOLEAN, NEW value \in Values, Return(flag, value),
           keys' \in Vectors(Keys), values' \in Vectors(Values), Count(keys') = Count(values'),
           Sorted(keys'), Count(keys') <= keys'.space, Count(values') <= values'.space
    PROVE  IInv'
<1>1. op' = NoOp /\ ret' \in [flag : BOOLEAN, value : Values]
  BY DEF Return
<1>2. TypeOK'
  BY <1>1 DEF TypeOK
<1>3. op'.at = "idle" /\ op'.kind = "none"
  BY <1>1 DEF NoOp
<1>4. SearchOK'
  BY <1>3 DEF SearchOK, Searching
<1> QED
  BY <1>2, <1>4 DEF IInv, RoomIsEnough

\* A search starts on the whole of the array.
LEMMA Whole ==
    ASSUME NEW v \in Vectors(Keys), NEW k
    PROVE  Around(v, k, 0, Count(v))
BY KeyInt DEF Around

LEMMA SearchType ==
    ASSUME IInv, Searching, NEW at \in {"place", "again"}, Search(at), Count(keys') \in Nat
    PROVE  /\ op' \in [at : {"find", "place", "again"}, kind : Kinds, key : Keys,
                       value : Values, from : Nat, to : Nat]
           /\ op'.at = at /\ op'.kind = op.kind /\ op'.key = op.key /\ op'.value = op.value
           /\ op'.from = 0 /\ op'.to = Count(keys')
<1>1. op \in [at : {"find", "place", "again"}, kind : Kinds, key : Keys,
              value : Values, from : Nat, to : Nat]
  BY OpType
<1> QED
  BY <1>1 DEF Search

LEMMA FinishInv ==
    ASSUME IInv, Searching, NEW pos, Found(pos), Finish(pos)
    PROVE  IInv'
<1>1. /\ keys \in Vectors(Keys) /\ values \in Vectors(Values) /\ Count(values) = Count(keys)
      /\ Count(keys) \in Nat /\ op.key \in Keys /\ op.value \in Values /\ Default \in Values
      /\ op.kind \in Kinds /\ op.at \in {"find", "place", "again"}
  BY OpType, ValuesAssumption
<1>2. /\ Sorted(keys) /\ Count(keys) <= keys.space /\ Count(values) <= values.space
      /\ keys.space \in Nat /\ values.space \in Nat /\ ret \in [flag : BOOLEAN, value : Values]
  BY <1>1, Elements DEF IInv, TypeOK, RoomIsEnough
<1>3. ASSUME op.at # "place", pos # -1
      PROVE  pos \in 0..(Count(keys) - 1) /\ keys.elem[pos + 1] = op.key /\ pos + 1 \in 1..Count(keys)
  BY <1>1, <1>3 DEF Found, Exact
<1>4. CASE op.at = "find" /\ EndHas(pos)
  <2>1. keys' = keys /\ values' = values /\ Return(pos # -1, Default) /\ (pos # -1) \in BOOLEAN
    BY <1>4 DEF EndHas
  <2> DEFINE flag == pos # -1
  <2>2. flag \in BOOLEAN /\ Return(flag, Default)
    BY <2>1
  <2> HIDE DEF flag
  <2> QED
    BY <1>1, <1>2, <2>1, <2>2, Returned
<1>5. CASE op.at = "find" /\ EndGet(pos)
  <2>1. keys' = keys /\ values' = values /\ Return(TRUE, values.elem[pos + 1]) /\ op.kind = "get"
    BY <1>5 DEF EndGet
  <2>2. Has(keys, op.key)
    BY <2>1 DEF IInv, SearchOK
  <2>3. pos + 1 \in 1..Count(keys)
    BY <1>3, <1>5, <2>2 DEF Found, Exact
  <2>4. values.elem[pos + 1] \in Values
    BY <1>1, <2>3, Elements
  <2> QED
    BY <1>1, <1>2, <2>1, <2>4, Returned
<1>6. CASE op.at = "find" /\ EndRemove(pos)
  <2>1. Return(FALSE, Default)
    BY <1>6 DEF EndRemove
  <2>2. CASE pos = -1
    <3>1. keys' = keys /\ values' = values
      BY <1>6, <2>2 DEF EndRemove
    <3> QED
      BY <1>1, <1>2, <2>1, <3>1, Returned
  <2>3. CASE pos # -1
    <3>1. pos \in 0..(Count(keys) - 1) /\ pos \in 0..(Count(values) - 1)
      BY <1>1, <1>3, <1>6, <2>3
    <3>2. keys' = RemovFrom(keys, pos) /\ values' = RemovFrom(values, pos)
      BY <1>6, <3>1 DEF EndRemove
    <3>3. keys' \in Vectors(Keys) /\ Count(keys') = Count(keys) - 1 /\ keys'.space = keys.space
      BY <1>1, <3>1, <3>2, Removed
    <3>4. values' \in Vectors(Values) /\ Count(values') = Count(values) - 1 /\ values'.space = values.space
      BY <1>1, <3>1, <3>2, Removed
    <3>5. Sorted(keys')
      BY <1>1, <1>2, <3>1, <3>2, RemoveSorted
    <3>6. Count(keys') <= keys'.space /\ Count(values') <= values'.space /\ Count(keys') = Count(values')
      BY <1>1, <1>2, <3>3, <3>4
    <3> QED
      BY <1>1, <2>1, <3>3, <3>4, <3>5, <3>6, Returned
  <2> QED
    BY <2>2, <2>3
<1>7. CASE op.at # "place" /\ Replace(pos)
  <2>1. pos \in 0..(Count(values) - 1)
    BY <1>1, <1>3, <1>7 DEF Replace
  <2>2. keys' = keys /\ values' = Assign(values, pos, op.value) /\ Return(FALSE, Default)
    BY <1>7 DEF Replace
  <2>3. values' \in Vectors(Values) /\ Count(values') = Count(values) /\ values'.space = values.space
    BY <1>1, <2>1, <2>2, Assigned
  <2> QED
    BY <1>1, <1>2, <2>2, <2>3, Returned
<1>8. CASE op.at = "find" /\ Miss(pos)
  <2>1. keys' = keys /\ values' = values /\ ret' = ret /\ Search("place") /\ pos = -1
        /\ op.kind \in {"put", "subscript"}
    BY <1>8 DEF Miss
  <2>2. ~Has(keys, op.key)
    BY <1>8, <2>1 DEF Found, Exact
  <2>3. /\ op' \in [at : {"find", "place", "again"}, kind : Kinds, key : Keys,
                    value : Values, from : Nat, to : Nat]
        /\ op'.at = "place" /\ op'.kind = op.kind /\ op'.key = op.key
        /\ op'.from = 0 /\ op'.to = Count(keys')
    BY <1>1, <2>1, SearchType
  <2>4. Around(keys', op'.key, op'.from, op'.to)
    BY <1>1, <2>1, <2>3, Whole
  <2>5. TypeOK'
    BY <1>1, <1>2, <2>1, <2>3 DEF TypeOK
  <2>6. SearchOK'
    BY <2>1, <2>2, <2>3, <2>4 DEF SearchOK
  <2> QED
    BY <1>2, <2>1, <2>5, <2>6 DEF IInv, RoomIsEnough
<1>9. CASE op.at = "place" /\ Insert(pos)
  <2>1. Around(keys, op.key, pos, pos) /\ op.kind \in {"put", "subscript"}
    BY <1>9 DEF Found, Exact, IInv, SearchOK
  <2>2. pos \in 0..Count(keys)
    BY <1>1, <2>1 DEF Around
  <2>3. PICK x \in Values : values' = InsertIn(values, pos, x)
    BY <1>1, <1>9 DEF Insert
  <2>4. keys' = InsertIn(keys, pos, op.key)
    BY <1>9 DEF Insert
  <2>5. /\ keys' \in Vectors(Keys) /\ Count(keys') = Count(keys) + 1
        /\ Count(keys) <= keys.space => Count(keys') <= keys'.space
    BY <1>1, <2>2, <2>4, Inserted
  <2>6. /\ values' \in Vectors(Values) /\ Count(values') = Count(values) + 1
        /\ Count(values) <= values.space => Count(values') <= values'.space
    BY <1>1, <2>2, <2>3, Inserted
  <2>7. Sorted(keys') /\ Has(keys', op.key)
    BY <1>1, <1>2, <2>1, <2>4, InsertSorted
  <2>8. CASE op.kind = "put"
    <3>1. Return(TRUE, Default)
      BY <1>9, <2>8 DEF Insert
    <3> QED
      BY <1>1, <1>2, <2>5, <2>6, <2>7, <3>1, Returned
  <2>9. CASE op.kind = "subscript"
    <3>1. Search("again") /\ ret' = ret
      BY <1>9, <2>9 DEF Insert
    <3>2. Count(keys') \in Nat
      BY <1>1, <2>5
    <3>3. /\ op' \in [at : {"find", "place", "again"}, kind : Kinds, key : Keys,
                      value : Values, from : Nat, to : Nat]
          /\ op'.at = "again" /\ op'.kind = op.kind /\ op'.key = op.key
          /\ op'.from = 0 /\ op'.to = Count(keys')
      BY <3>1, <3>2, SearchType
    <3>4. Around(keys', op'.key, op'.from, op'.to)
      BY <2>5, <3>3, Whole
    <3>5. TypeOK'
      BY <1>1, <1>2, <2>5, <2>6, <3>1, <3>3 DEF TypeOK
    <3>6. SearchOK'
      BY <2>7, <2>9, <3>3, <3>4 DEF SearchOK
    <3> QED
      BY <1>2, <2>5, <2>6, <2>7, <3>5, <3>6 DEF IInv, RoomIsEnough
  <2> QED
    BY <2>1, <2>8, <2>9
<1> QED
  BY <1>4, <1>5, <1>6, <1>7, <1>8, <1>9 DEF Finish

LEMMA NextInv == IInv /\ [Next]_vars => IInv'
<1> SUFFICES ASSUME IInv, [Next]_vars PROVE IInv'
  OBVIOUS
<1>1. /\ keys \in Vectors(Keys) /\ values \in Vectors(Values) /\ Count(values) = Count(keys)
      /\ Count(keys) \in Nat /\ keys.elem \in Seq(Keys) /\ values.elem \in Seq(Values)
  BY KeyInt, Elements DEF IInv, TypeOK
<1>2. ASSUME NEW kind \in Kinds, NEW k \in Keys, NEW v \in Values, Call(kind, k, v) PROVE IInv'
  <2>1. /\ keys' = keys /\ values' = values /\ ret' = ret
        /\ op' = [at |-> "find", kind |-> kind, key |-> k, value |-> v, from |-> 0, to |-> Count(keys)]
    BY <1>2 DEF Call
  <2>2. TypeOK'
    BY <1>1, <2>1 DEF IInv, TypeOK
  <2>3. kind = "get" => Has(keys, k)
    <3> SUFFICES ASSUME kind = "get" PROVE Has(keys, k)
      OBVIOUS
    <3>1. PICK i \in Positions : KeyAt(i) = k
      BY <1>2 DEF Call, Present
    <3>2. i + 1 \in 1..Count(keys) /\ keys.elem[i + 1] = k
      BY <1>1, <3>1 DEF Positions, KeyAt
    <3> QED
      BY <3>2 DEF Has
  <2>4. Around(keys', op'.key, op'.from, op'.to)
    BY <1>1, <2>1, Whole
  <2>5. SearchOK'
    BY <2>1, <2>3, <2>4 DEF SearchOK
  <2> QED
    BY <2>1, <2>2, <2>5 DEF IInv, RoomIsEnough
<1>3. CASE Copy
  <2>1. /\ keys'.elem = keys.elem /\ values'.elem = values.elem
        /\ keys'.space = Count(keys) /\ values'.space = Count(values) /\ op' = op /\ ret' = ret
        /\ op.at = "idle"
    BY <1>3 DEF Copy, CopyOf
  <2>2. Count(keys') = Count(keys) /\ Count(values') = Count(values)
    BY <2>1 DEF Count
  <2>3. keys' \in Vectors(Keys) /\ values' \in Vectors(Values)
    BY <1>1, <1>3 DEF Copy, CopyOf, Vectors
  <2>4. Sorted(keys')
    BY <2>1, <2>2 DEF IInv, Sorted
  <2>5. TypeOK'
    BY <1>1, <2>1, <2>2, <2>3 DEF IInv, TypeOK
  <2>6. op.kind # "get"
    BY <2>1 DEF IInv, SearchOK
  <2>7. SearchOK'
    BY <2>1, <2>6 DEF SearchOK, Searching
  <2> QED
    BY <1>1, <2>1, <2>2, <2>4, <2>5, <2>7 DEF IInv, RoomIsEnough
<1>4. ASSUME Searching, ~Short, NEW a \in Nat, NEW b \in Nat, Around(keys, op.key, a, b),
             op' = [op EXCEPT !.from = a, !.to = b], UNCHANGED <<keys, values, ret>>
      PROVE  IInv'
  <2>1. op \in [at : {"find", "place", "again"}, kind : Kinds, key : Keys,
                value : Values, from : Nat, to : Nat]
    BY <1>4, OpType
  <2>2. /\ op' \in [at : {"find", "place", "again"}, kind : Kinds, key : Keys,
                    value : Values, from : Nat, to : Nat]
        /\ op'.at = op.at /\ op'.kind = op.kind /\ op'.key = op.key /\ op'.from = a /\ op'.to = b
    BY <1>4, <2>1
  <2>3. TypeOK'
    BY <1>4, <2>2 DEF IInv, TypeOK
  <2>4. SearchOK'
    BY <1>4, <2>2 DEF IInv, SearchOK
  <2> QED
    BY <1>4, <2>3, <2>4 DEF IInv, RoomIsEnough
<1>5. CASE GoLeft
  <2>1. /\ op.from \in Nat /\ op.to \in Nat
        /\ op \in [at : {"find", "place", "again"}, kind : Kinds, key : Keys,
                   value : Values, from : Nat, to : Nat]
    BY <1>5, OpType DEF GoLeft
  <2>2. PICK m : m = Middle
    OBVIOUS
  <2>3. m \in op.from..(op.to - 1) /\ m \in Nat /\ op.key < keys.elem[m + 1] /\ op.key \in Keys
    BY <1>1, <1>5, <2>1, <2>2, MiddleIn, OpType DEF GoLeft, KeyAt
  <2>4. Around(keys, op.key, op.from, m)
    BY <1>1, <1>5, <2>3, Halved DEF IInv, SearchOK, GoLeft
  <2>5. op' = [op EXCEPT !.from = op.from, !.to = m]
    BY <1>5, <2>1, <2>2 DEF GoLeft
  <2> QED
    BY <1>4, <1>5, <2>1, <2>3, <2>4, <2>5 DEF GoLeft
<1>6. CASE GoRight
  <2>1. /\ op.from \in Nat /\ op.to \in Nat
        /\ op \in [at : {"find", "place", "again"}, kind : Kinds, key : Keys,
                   value : Values, from : Nat, to : Nat]
    BY <1>6, OpType DEF GoRight
  <2>2. PICK m : m = Middle
    OBVIOUS
  <2>3. m \in op.from..(op.to - 1) /\ m + 1 \in Nat /\ keys.elem[m + 1] < op.key /\ op.key \in Keys
    BY <1>1, <1>6, <2>1, <2>2, MiddleIn, OpType DEF GoRight, KeyAt
  <2>4. Around(keys, op.key, m + 1, op.to)
    BY <1>1, <1>6, <2>3, Halved DEF IInv, SearchOK, GoRight
  <2>5. op' = [op EXCEPT !.from = m + 1, !.to = op.to]
    BY <1>6, <2>1, <2>2 DEF GoRight
  <2> QED
    BY <1>4, <1>6, <2>1, <2>3, <2>4, <2>5 DEF GoRight
<1>7. CASE Hit
  BY <1>7, HitFound, FinishInv DEF Hit
<1>8. CASE Scan
  BY <1>8, ScanFound, FinishInv DEF Scan
<1>9. CASE UNCHANGED vars
  BY <1>9 DEF vars, IInv, TypeOK, Vectors, RoomIsEnough, SearchOK, Searching
<1> QED
  BY <1>2, <1>3, <1>5, <1>6, <1>7, <1>8, <1>9 DEF Next, Step

-----------------------------------------------------------------------------
(* The pairs that the two vectors hold *)

LEMMA PairsInserted ==
    ASSUME NEW ks \in Vectors(Keys), NEW vs \in Vectors(Values), Count(ks) = Count(vs),
           NEW pos \in 0..Count(ks), NEW k \in Keys, NEW x \in Values
    PROVE  Pairs(InsertIn(ks, pos, k), InsertIn(vs, pos, x)) = Pairs(ks, vs) \cup {<<k, x>>}
<1>1. Count(ks) \in Nat /\ pos \in Nat
  BY KeyInt
<1> DEFINE n == Count(ks)
           kw == InsertIn(ks, pos, k)
           vw == InsertIn(vs, pos, x)
<1>2. /\ Count(kw) = n + 1 /\ kw.elem[pos + 1] = k
      /\ \A i \in 1..pos : kw.elem[i] = ks.elem[i]
      /\ \A i \in pos + 2..n + 1 : kw.elem[i] = ks.elem[i - 1]
  BY Inserted
<1>3. /\ vw.elem[pos + 1] = x
      /\ \A i \in 1..pos : vw.elem[i] = vs.elem[i]
      /\ \A i \in pos + 2..n + 1 : vw.elem[i] = vs.elem[i - 1]
  BY Inserted
<1>4. n \in Nat /\ pos <= n /\ n = Len(ks.elem) /\ Len(kw.elem) = n + 1
  BY <1>1, <1>2 DEF Count
<1> HIDE DEF kw, vw, n
<1>5. ASSUME NEW e \in Pairs(kw, vw) PROVE e \in Pairs(ks, vs) \cup {<<k, x>>}
  <2>1. PICK i \in 1..(n + 1) : e = <<kw.elem[i], vw.elem[i]>>
    BY <1>4, <1>5 DEF Pairs
  <2>2. CASE i <= pos
    <3>1. i \in 1..pos /\ i \in 1..n
      BY <1>1, <1>4, <2>1, <2>2
    <3> QED
      BY <1>2, <1>3, <1>4, <2>1, <3>1 DEF Pairs
  <2>3. CASE i = pos + 1
    BY <1>2, <1>3, <2>1, <2>3
  <2>4. CASE i > pos + 1
    <3>1. i \in pos + 2..n + 1 /\ i - 1 \in 1..n
      BY <1>1, <1>4, <2>1, <2>4
    <3>2. e = <<ks.elem[i - 1], vs.elem[i - 1]>>
      BY <1>2, <1>3, <2>1, <3>1
    <3> QED
      BY <1>4, <3>1, <3>2 DEF Pairs
  <2>5. i \in Int
    OBVIOUS
  <2> QED
    BY <1>1, <2>2, <2>3, <2>4, <2>5
<1>6. ASSUME NEW e \in Pairs(ks, vs) PROVE e \in Pairs(kw, vw)
  <2>1. PICK i \in 1..n : e = <<ks.elem[i], vs.elem[i]>>
    BY <1>4, <1>6 DEF Pairs
  <2>2. CASE i <= pos
    <3>1. i \in 1..pos /\ i \in 1..(n + 1)
      BY <1>1, <1>4, <2>1, <2>2
    <3> QED
      BY <1>2, <1>3, <1>4, <2>1, <3>1 DEF Pairs
  <2>3. CASE i > pos
    <3>1. i + 1 \in pos + 2..n + 1 /\ i + 1 \in 1..(n + 1) /\ (i + 1) - 1 = i
      BY <1>1, <1>4, <2>1, <2>3
    <3>2. e = <<kw.elem[i + 1], vw.elem[i + 1]>>
      BY <1>2, <1>3, <2>1, <3>1
    <3> QED
      BY <1>4, <3>1, <3>2 DEF Pairs
  <2>4. i \in Int
    OBVIOUS
  <2> QED
    BY <1>1, <2>2, <2>3, <2>4
<1>7. <<k, x>> \in Pairs(kw, vw)
  <2>1. pos + 1 \in 1..(n + 1)
    BY <1>1, <1>4
  <2> QED
    BY <1>2, <1>3, <1>4, <2>1 DEF Pairs
<1>8. Pairs(kw, vw) = Pairs(ks, vs) \cup {<<k, x>>}
  BY <1>5, <1>6, <1>7
<1> QED
  BY <1>8 DEF kw, vw

LEMMA PairsRemoved ==
    ASSUME NEW ks \in Vectors(Keys), NEW vs \in Vectors(Values), Count(ks) = Count(vs), Sorted(ks),
           NEW pos \in 0..(Count(ks) - 1), NEW k, ks.elem[pos + 1] = k
    PROVE  Pairs(RemovFrom(ks, pos), RemovFrom(vs, pos)) = {e \in Pairs(ks, vs) : e[1] # k}
<1>1. Count(ks) \in Nat /\ pos \in Nat /\ pos + 1 \in 1..Count(ks)
  <2>1. Count(ks) \in Nat
    BY KeyInt
  <2> QED
    BY <2>1
<1> DEFINE n == Count(ks)
           kw == RemovFrom(ks, pos)
           vw == RemovFrom(vs, pos)
<1>2. /\ Count(kw) = n - 1
      /\ \A i \in 1..pos : kw.elem[i] = ks.elem[i]
      /\ \A i \in pos + 1..n - 1 : kw.elem[i] = ks.elem[i + 1]
  BY Removed
<1>3. /\ \A i \in 1..pos : vw.elem[i] = vs.elem[i]
      /\ \A i \in pos + 1..n - 1 : vw.elem[i] = vs.elem[i + 1]
  BY Removed
<1>4. n \in Nat /\ pos + 1 <= n /\ n = Len(ks.elem) /\ Len(kw.elem) = n - 1
  BY <1>1, <1>2 DEF Count
<1>5. \A i \in 1..n : i # pos + 1 => ks.elem[i] # k
  BY <1>1, SortedApart
<1> HIDE DEF kw, vw, n
<1>6. ASSUME NEW e \in Pairs(kw, vw) PROVE e \in Pairs(ks, vs) /\ e[1] # k
  <2>1. PICK i \in 1..(n - 1) : e = <<kw.elem[i], vw.elem[i]>>
    BY <1>4, <1>6 DEF Pairs
  <2>2. CASE i <= pos
    <3>1. i \in 1..pos /\ i \in 1..n /\ i # pos + 1
      BY <1>1, <1>4, <2>1, <2>2
    <3> QED
      BY <1>2, <1>3, <1>4, <1>5, <2>1, <3>1 DEF Pairs
  <2>3. CASE i > pos
    <3>1. i \in pos + 1..n - 1 /\ i + 1 \in 1..n /\ i + 1 # pos + 1
      BY <1>1, <1>4, <2>1, <2>3
    <3>2. e = <<ks.elem[i + 1], vs.elem[i + 1]>>
      BY <1>2, <1>3, <2>1, <3>1
    <3> QED
      BY <1>4, <1>5, <3>1, <3>2 DEF Pairs
  <2>4. i \in Int
    OBVIOUS
  <2> QED
    BY <1>1, <2>2, <2>3, <2>4
<1>7. ASSUME NEW e \in Pairs(ks, vs), e[1] # k PROVE e \in Pairs(kw, vw)
  <2>1. PICK i \in 1..n : e = <<ks.elem[i], vs.elem[i]>>
    BY <1>4, <1>7 DEF Pairs
  <2>2. i # pos + 1 /\ i \in Int
    BY <1>7, <2>1
  <2>3. CASE i <= pos
    <3>1. i \in 1..pos /\ i \in 1..(n - 1)
      BY <1>1, <1>4, <2>1, <2>3
    <3> QED
      BY <1>2, <1>3, <1>4, <2>1, <3>1 DEF Pairs
  <2>4. CASE i > pos + 1
    <3>1. i - 1 \in pos + 1..n - 1 /\ i - 1 \in 1..(n - 1) /\ (i - 1) + 1 = i
      BY <1>1, <1>4, <2>1, <2>4
    <3>2. e = <<kw.elem[i - 1], vw.elem[i - 1]>>
      BY <1>2, <1>3, <2>1, <3>1
    <3> QED
      BY <1>4, <3>1, <3>2 DEF Pairs
  <2> QED
    BY <1>1, <2>2, <2>3, <2>4
<1>8. Pairs(kw, vw) = {e \in Pairs(ks, vs) : e[1] # k}
  BY <1>6, <1>7
<1> QED
  BY <1>8 DEF kw, vw

LEMMA PairsAssigned ==
    ASSUME NEW ks \in Vectors(Keys), NEW vs \in Vectors(Values), Count(ks) = Count(vs), Sorted(ks),
           NEW pos \in 0..(Count(ks) - 1), NEW k, ks.elem[pos + 1] = k, NEW x \in Values
    PROVE  Pairs(ks, Assign(vs, pos, x)) = {e \in Pairs(ks, vs) : e[1] # k} \cup {<<k, x>>}
<1>1. Count(ks) \in Nat /\ pos \in Nat /\ pos + 1 \in 1..Count(ks)
  <2>1. Count(ks) \in Nat
    BY KeyInt
  <2> QED
    BY <2>1
<1> DEFINE n == Count(ks)
           vw == Assign(vs, pos, x)
<1>2. /\ vw.elem[pos + 1] = x
      /\ \A i \in 1..n : i # pos + 1 => vw.elem[i] = vs.elem[i]
  BY Assigned
<1>3. n = Len(ks.elem)
  BY DEF Count
<1>4. \A i \in 1..n : i # pos + 1 => ks.elem[i] # k
  BY <1>1, SortedApart
<1> HIDE DEF vw, n
<1>5. ASSUME NEW e \in Pairs(ks, vw) PROVE e \in {d \in Pairs(ks, vs) : d[1] # k} \cup {<<k, x>>}
  <2>1. PICK i \in 1..n : e = <<ks.elem[i], vw.elem[i]>>
    BY <1>3, <1>5 DEF Pairs
  <2>2. CASE i = pos + 1
    BY <1>2, <2>1, <2>2
  <2>3. CASE i # pos + 1
    BY <1>2, <1>3, <1>4, <2>1, <2>3 DEF Pairs
  <2> QED
    BY <2>2, <2>3
<1>6. ASSUME NEW e \in Pairs(ks, vs), e[1] # k PROVE e \in Pairs(ks, vw)
  <2>1. PICK i \in 1..n : e = <<ks.elem[i], vs.elem[i]>>
    BY <1>3, <1>6 DEF Pairs
  <2>2. i # pos + 1
    BY <1>6, <2>1
  <2> QED
    BY <1>2, <1>3, <2>1, <2>2 DEF Pairs
<1>7. <<k, x>> \in Pairs(ks, vw)
  <2>1. pos + 1 \in 1..n
    BY <1>1 DEF n
  <2> QED
    BY <1>2, <1>3, <2>1 DEF Pairs
<1>8. Pairs(ks, vw) = {e \in Pairs(ks, vs) : e[1] # k} \cup {<<k, x>>}
  BY <1>5, <1>6, <1>7
<1> QED
  BY <1>8 DEF vw

\* A pair at each position, and a position for each pair.
LEMMA PairAt ==
    ASSUME NEW ks \in Vectors(Keys), NEW vs \in Vectors(Values), NEW k
    PROVE  /\ \A i \in 1..Count(ks) : <<ks.elem[i], vs.elem[i]>> \in Pairs(ks, vs)
           /\ Has(ks, k) <=> \E e \in Pairs(ks, vs) : e[1] = k
<1>1. \A i \in 1..Count(ks) : <<ks.elem[i], vs.elem[i]>> \in Pairs(ks, vs)
  BY DEF Pairs, Count
<1>2. ASSUME Has(ks, k) PROVE \E e \in Pairs(ks, vs) : e[1] = k
  <2>1. PICK i \in 1..Count(ks) : ks.elem[i] = k
    BY <1>2 DEF Has
  <2>2. <<ks.elem[i], vs.elem[i]>> \in Pairs(ks, vs) /\ <<ks.elem[i], vs.elem[i]>>[1] = k
    BY <1>1, <2>1
  <2> QED
    BY <2>2
<1>3. ASSUME NEW e \in Pairs(ks, vs), e[1] = k PROVE Has(ks, k)
  <2>1. PICK i \in 1..Count(ks) : e = <<ks.elem[i], vs.elem[i]>>
    BY DEF Pairs, Count
  <2>2. ks.elem[i] = k
    BY <1>3, <2>1
  <2> QED
    BY <2>2 DEF Has
<1> QED
  BY <1>1, <1>2, <1>3

-----------------------------------------------------------------------------
(* An associative array *)

\* The call that Assoc knows of.
TheCall == [kind |-> op.kind, key |-> op.key, value |-> op.value]

\* Without a key that is not there, nothing changes.
LEMMA NothingWithout ==
    ASSUME NEW ks \in Vectors(Keys), NEW vs \in Vectors(Values), NEW k, ~Has(ks, k)
    PROVE  {e \in Pairs(ks, vs) : e[1] # k} = Pairs(ks, vs)
<1>1. \A e \in Pairs(ks, vs) : e[1] # k
  BY PairAt
<1> QED
  BY <1>1

\* The step that ends a call is a return of the associative array, and the one
\* that only starts another search changes nothing it knows of.
LEMMA FinishReturns ==
    ASSUME IInv, Searching, NEW pos, Found(pos), Finish(pos)
    PROVE  Service!Next \/ UNCHANGED <<Entries, TheCall, ret>>
<1>1. /\ keys \in Vectors(Keys) /\ values \in Vectors(Values) /\ Count(values) = Count(keys)
      /\ Count(keys) \in Nat /\ op.key \in Keys /\ op.value \in Values /\ Default \in Values
      /\ op.at \in {"find", "place", "again"} /\ Sorted(keys)
  BY OpType, ValuesAssumption DEF IInv
<1>2. ASSUME op.at # "place", pos # -1
      PROVE  /\ pos \in 0..(Count(keys) - 1) /\ keys.elem[pos + 1] = op.key
             /\ pos + 1 \in 1..Count(keys) /\ Has(keys, op.key)
  <2>1. /\ pos \in 0..(Count(keys) - 1) /\ keys.elem[pos + 1] = op.key /\ pos + 1 \in 1..Count(keys)
    BY <1>1, <1>2 DEF Found, Exact
  <2> QED
    BY <2>1 DEF Has
<1>3. ASSUME op.at # "place", pos = -1 PROVE ~Has(keys, op.key)
  BY <1>1, <1>3 DEF Found, Exact
<1>4. TheCall.kind = op.kind /\ TheCall.key = op.key /\ TheCall.value = op.value
  BY DEF TheCall
<1>5. ASSUME op.at # "again" PROVE Entries = Pairs(keys, values)
  BY <1>5 DEF Entries
<1>6. ASSUME op' = NoOp PROVE Entries' = Pairs(keys', values') /\ TheCall' = Service!NoCall
  BY <1>6 DEF Entries, NoOp, TheCall, Service!NoCall
<1>7. ASSUME NEW flag, NEW value, Return(flag, value)
      PROVE  op' = NoOp /\ ret' = [flag |-> flag, value |-> value]
  BY <1>7 DEF Return
<1>8. CASE op.at = "find" /\ EndHas(pos)
  <2>1. keys' = keys /\ values' = values /\ op' = NoOp /\ op.kind = "has"
        /\ ret' = [flag |-> (pos # -1), value |-> Default]
    BY <1>8 DEF EndHas, Return
  <2>2. (pos # -1) <=> \E e \in Entries : e[1] = op.key
    BY <1>1, <1>2, <1>3, <1>5, <1>8, PairAt
  <2>3. (pos # -1) = (\E e \in Entries : e[1] = op.key)
    BY <2>2
  <2>4. ret' = [flag |-> (\E e \in Entries : e[1] = op.key), value |-> Default]
    BY <2>1, <2>3
  <2>5. Entries' = Entries /\ TheCall' = Service!NoCall
    BY <1>5, <1>6, <1>8, <2>1
  <2>6. Service!ReturnHas
    BY <1>4, <2>1, <2>4, <2>5 DEF Service!ReturnHas, Service!Done, Service!Holds, TheCall
  <2> QED
    BY <2>6 DEF Service!Next
<1>9. CASE op.at = "find" /\ EndGet(pos)
  <2>1. keys' = keys /\ values' = values /\ op' = NoOp /\ op.kind = "get"
        /\ ret' = [flag |-> TRUE, value |-> values.elem[pos + 1]]
    BY <1>9 DEF EndGet, Return
  <2>2. Has(keys, op.key)
    BY <2>1 DEF IInv, SearchOK
  <2>3. pos # -1
    BY <1>3, <1>9, <2>2
  <2>4. pos + 1 \in 1..Count(keys) /\ keys.elem[pos + 1] = op.key
    BY <1>2, <1>9, <2>3
  <2>5. <<op.key, values.elem[pos + 1]>> \in Entries /\ values.elem[pos + 1] \in Values
    BY <1>1, <1>5, <1>9, <2>4, PairAt, Elements
  <2>6. Entries' = Entries /\ TheCall' = Service!NoCall
    BY <1>5, <1>6, <1>9, <2>1
  <2>7. Service!ReturnGet
    BY <1>4, <2>1, <2>5, <2>6 DEF Service!ReturnGet, Service!Done, TheCall
  <2> QED
    BY <2>7 DEF Service!Next
<1>10. CASE op.at = "find" /\ EndRemove(pos)
  <2>1. op' = NoOp /\ op.kind = "remove" /\ ret' = [flag |-> FALSE, value |-> Default]
    BY <1>10 DEF EndRemove, Return
  <2>2. Pairs(keys', values') = {e \in Pairs(keys, values) : e[1] # op.key}
    <3>1. CASE pos = -1
      <4>1. keys' = keys /\ values' = values /\ ~Has(keys, op.key)
        BY <1>3, <1>10, <3>1 DEF EndRemove
      <4> QED
        BY <1>1, <4>1, NothingWithout
    <3>2. CASE pos # -1
      <4>1. pos \in 0..(Count(keys) - 1) /\ keys.elem[pos + 1] = op.key
        BY <1>2, <1>10, <3>2
      <4>2. ~(pos < 0)
        BY <1>1, <4>1
      <4>3. keys' = RemovFrom(keys, pos) /\ values' = RemovFrom(values, pos)
        BY <1>10, <4>2 DEF EndRemove
      <4> QED
        BY <1>1, <4>1, <4>3, PairsRemoved
    <3> QED
      BY <3>1, <3>2
  <2>3. Entries' = {e \in Entries : e[1] # op.key} /\ TheCall' = Service!NoCall
    BY <1>5, <1>6, <1>10, <2>1, <2>2
  <2>4. Service!ReturnRemove
    BY <1>4, <2>1, <2>3 DEF Service!ReturnRemove, Service!Done, Service!Without, TheCall
  <2> QED
    BY <2>4 DEF Service!Next
<1>11. CASE op.at # "place" /\ Replace(pos)
  <2>1. /\ keys' = keys /\ values' = Assign(values, pos, op.value) /\ op' = NoOp /\ pos # -1
        /\ ret' = [flag |-> FALSE, value |-> Default] /\ op.kind \in {"put", "subscript"}
    BY <1>11 DEF Replace, Return
  <2>2. pos \in 0..(Count(keys) - 1) /\ keys.elem[pos + 1] = op.key /\ Has(keys, op.key)
    BY <1>2, <1>11, <2>1
  <2>3. Pairs(keys', values') = {e \in Pairs(keys, values) : e[1] # op.key} \cup {<<op.key, op.value>>}
    BY <1>1, <2>1, <2>2, PairsAssigned
  <2>4. {e \in Entries : e[1] # op.key} = {e \in Pairs(keys, values) : e[1] # op.key}
    BY DEF Entries
  <2>5. Entries' = {e \in Entries : e[1] # op.key} \cup {<<op.key, op.value>>} /\ TheCall' = Service!NoCall
    BY <1>6, <2>1, <2>3, <2>4
  <2>6. (op.kind = "put" /\ ~(\E e \in Entries : e[1] = op.key)) = FALSE
    <3> SUFFICES ASSUME op.kind = "put" PROVE \E e \in Entries : e[1] = op.key
      OBVIOUS
    <3>1. op.at = "find"
      BY <1>1, <1>11 DEF IInv, SearchOK
    <3> QED
      BY <1>1, <1>5, <2>2, <3>1, PairAt
  <2>7. ret' = [flag |-> (op.kind = "put" /\ ~(\E e \in Entries : e[1] = op.key)), value |-> Default]
    BY <2>1, <2>6
  <2>8. Service!ReturnPut
    BY <1>4, <2>1, <2>5, <2>7 DEF Service!ReturnPut, Service!Done, Service!Without, Service!Holds, TheCall
  <2> QED
    BY <2>8 DEF Service!Next
<1>12. CASE op.at = "find" /\ Miss(pos)
  <2>1. keys' = keys /\ values' = values /\ ret' = ret /\ Search("place")
    BY <1>12 DEF Miss
  <2>2. op'.at = "place" /\ op'.kind = op.kind /\ op'.key = op.key /\ op'.value = op.value
    BY <1>1, <2>1, SearchType
  <2>3. TheCall' = TheCall
    BY <2>2 DEF TheCall
  <2>4. Entries' = Entries
    BY <1>12, <2>1, <2>2 DEF Entries
  <2> QED
    BY <2>1, <2>3, <2>4
<1>13. CASE op.at = "place" /\ Insert(pos)
  <2>1. Around(keys, op.key, pos, pos) /\ op.kind \in {"put", "subscript"} /\ ~Has(keys, op.key)
    BY <1>13 DEF Found, Exact, IInv, SearchOK
  <2>2. pos \in 0..Count(keys)
    BY <1>1, <2>1 DEF Around
  <2>3. keys' = InsertIn(keys, pos, op.key)
    BY <1>13 DEF Insert
  <2>4. Entries = Pairs(keys, values) /\ {e \in Pairs(keys, values) : e[1] # op.key} = Pairs(keys, values)
    BY <1>1, <1>5, <1>13, <2>1, NothingWithout
  <2>5. CASE op.kind = "put"
    <3>1. values' = InsertIn(values, pos, op.value) /\ op' = NoOp /\ ret' = [flag |-> TRUE, value |-> Default]
      BY <1>13, <2>5 DEF Insert, Return
    <3>2. Pairs(keys', values') = Pairs(keys, values) \cup {<<op.key, op.value>>}
      BY <1>1, <2>2, <2>3, <3>1, PairsInserted
    <3>3. Entries' = {e \in Entries : e[1] # op.key} \cup {<<op.key, op.value>>} /\ TheCall' = Service!NoCall
      BY <1>6, <2>4, <3>1, <3>2
    <3>4. (op.kind = "put" /\ ~(\E e \in Entries : e[1] = op.key)) = TRUE
      BY <1>1, <2>1, <2>4, <2>5, PairAt
    <3>5. ret' = [flag |-> (op.kind = "put" /\ ~(\E e \in Entries : e[1] = op.key)), value |-> Default]
      BY <3>1, <3>4
    <3>6. Service!ReturnPut
      BY <1>4, <2>5, <3>3, <3>5 DEF Service!ReturnPut, Service!Done, Service!Without, Service!Holds, TheCall
    <3> QED
      BY <3>6 DEF Service!Next
  <2>6. CASE op.kind = "subscript"
    <3>1. values' = InsertIn(values, pos, Default) /\ Search("again") /\ ret' = ret
      BY <1>13, <2>6 DEF Insert
    <3>2. Pairs(keys', values') = Pairs(keys, values) \cup {<<op.key, Default>>}
      BY <1>1, <2>2, <2>3, <3>1, PairsInserted
    <3>3. Count(keys') \in Nat
      BY <1>1, <2>2, <2>3, Inserted, KeyInt
    <3>4. op'.at = "again" /\ op'.kind = op.kind /\ op'.key = op.key /\ op'.value = op.value
      BY <3>1, <3>3, SearchType
    <3>5. TheCall' = TheCall
      BY <3>4 DEF TheCall
    <3>6. Entries' = {e \in Pairs(keys', values') : e[1] # op.key}
      BY <3>4 DEF Entries
    <3>7. Entries' = Entries
      BY <2>4, <3>2, <3>6
    <3> QED
      BY <3>1, <3>5, <3>7
  <2> QED
    BY <2>1, <2>5, <2>6
<1> QED
  BY <1>8, <1>9, <1>10, <1>11, <1>12, <1>13 DEF Finish

LEMMA StepOfAssoc ==
    ASSUME IInv, [Next]_vars
    PROVE  [Service!Next]_<<Entries, TheCall, ret>>
<1>1. keys \in Vectors(Keys) /\ values \in Vectors(Values) /\ Count(keys) \in Nat
  BY KeyInt DEF IInv, TypeOK
<1>2. ASSUME NEW kind \in Kinds, NEW k \in Keys, NEW v \in Values, Call(kind, k, v) PROVE Service!Next
  <2>1. /\ keys' = keys /\ values' = values /\ ret' = ret /\ op.at = "idle"
        /\ op' = [at |-> "find", kind |-> kind, key |-> k, value |-> v, from |-> 0, to |-> Count(keys)]
    BY <1>2 DEF Call
  <2>2. op = NoOp
    BY <2>1 DEF IInv, TypeOK
  <2>3. TheCall = Service!NoCall
    BY <2>2 DEF TheCall, NoOp, Service!NoCall
  <2>4. TheCall' = [kind |-> kind, key |-> k, value |-> v]
    BY <2>1 DEF TheCall
  <2>5. Entries' = Entries /\ Entries = Pairs(keys, values)
    BY <2>1 DEF Entries
  <2>6. kind = "get" => \E e \in Entries : e[1] = k
    <3> SUFFICES ASSUME kind = "get" PROVE \E e \in Entries : e[1] = k
      OBVIOUS
    <3>1. PICK i \in Positions : KeyAt(i) = k
      BY <1>2 DEF Call, Present
    <3>2. i + 1 \in 1..Count(keys) /\ keys.elem[i + 1] = k
      BY <1>1, <3>1 DEF Positions, KeyAt
    <3> QED
      BY <1>1, <2>5, <3>2, PairAt
  <2>7. Service!Invoke
    BY <2>1, <2>3, <2>4, <2>5, <2>6 DEF Service!Invoke, Service!Holds, Kinds, TheCall
  <2> QED
    BY <2>7 DEF Service!Next
<1>3. CASE Copy
  <2>1. keys'.elem = keys.elem /\ values'.elem = values.elem /\ op' = op /\ ret' = ret
    BY <1>3 DEF Copy, CopyOf
  <2>2. Entries' = Entries /\ TheCall' = TheCall
    BY <2>1 DEF Entries, Pairs, TheCall
  <2> QED
    BY <2>1, <2>2
<1>4. CASE GoLeft \/ GoRight
  <2>1. Searching /\ keys' = keys /\ values' = values /\ ret' = ret
    BY <1>4 DEF GoLeft, GoRight
  <2>2. op'.at = op.at /\ op'.kind = op.kind /\ op'.key = op.key /\ op'.value = op.value
    <3>1. op \in [at : {"find", "place", "again"}, kind : Kinds, key : Keys,
                  value : Values, from : Nat, to : Nat]
      BY <2>1, OpType
    <3> QED
      BY <1>4, <3>1 DEF GoLeft, GoRight
  <2>3. TheCall' = TheCall
    BY <2>2 DEF TheCall
  <2>4. Entries' = Entries
    BY <2>1, <2>2 DEF Entries
  <2> QED
    BY <2>1, <2>3, <2>4
<1>5. CASE Hit
  BY <1>5, HitFound, FinishReturns DEF Hit
<1>6. CASE Scan
  BY <1>6, ScanFound, FinishReturns DEF Scan
<1>7. CASE UNCHANGED vars
  BY <1>7 DEF vars, Entries, TheCall
<1> QED
  BY <1>2, <1>3, <1>4, <1>5, <1>6, <1>7 DEF Next, Step

-----------------------------------------------------------------------------
(* The theorems *)

\* The keys and the values are kept side by side, one value for each key.
THEOREM DictTypeCorrect == Spec => []TypeOK
<1>1. IInv => TypeOK
  BY DEF IInv
<1> QED
  BY <1>1, InitInv, NextInv, PTL DEF Spec

\* The halving search and the search for a place keep the keys in order and
\* each of them once.
THEOREM KeysStaySorted == Spec => []KeysSorted
<1>1. IInv => KeysSorted
  <2> SUFFICES ASSUME IInv, NEW i \in Positions, NEW j \in Positions, i < j
               PROVE  KeyAt(i) < KeyAt(j)
    BY DEF KeysSorted
  <2>1. Count(keys) \in Nat
    BY KeyInt DEF IInv, TypeOK
  <2>2. i + 1 \in 1..Count(keys) /\ j + 1 \in 1..Count(keys) /\ i + 1 < j + 1
    BY <2>1 DEF Positions
  <2> QED
    BY <2>2 DEF IInv, Sorted, KeyAt
<1> QED
  BY <1>1, InitInv, NextInv, PTL DEF Spec

\* No element is written behind the room that was made.
THEOREM RoomStaysEnough == Spec => []RoomIsEnough
<1>1. IInv => RoomIsEnough
  BY DEF IInv
<1> QED
  BY <1>1, InitInv, NextInv, PTL DEF Spec

\* The two vectors and the halving search are an associative array: each call
\* takes effect at once and returns what was last put under its key (Dict.h).
THEOREM ImplementsAssoc == Spec => AssocService
<1>1. Init => Service!AssocInit
  <2> SUFFICES ASSUME Init PROVE Service!AssocInit
    OBVIOUS
  <2>1. keys.elem = <<>> /\ op = NoOp /\ ret = [flag |-> FALSE, value |-> Default]
    BY DEF Init, EmptyVector
  <2>2. Pairs(keys, values) = {}
    BY <2>1 DEF Pairs
  <2> QED
    BY <2>1, <2>2 DEF Service!AssocInit, Service!NoCall, NoOp, Entries
<1>2. ASSUME IInv, [Next]_vars
      PROVE  [Service!Next]_<<Entries, [kind |-> op.kind, key |-> op.key, value |-> op.value], ret>>
  BY <1>2, StepOfAssoc DEF TheCall
<1> QED
  BY <1>1, <1>2, InitInv, NextInv, PTL DEF Spec, AssocService, Service!AssocSpec
=============================================================================
