------------------------- MODULE AccountManagerProofs -------------------------
(***************************************************************************)
(* The safety properties of AccountManager, for any accounts, retries and  *)
(* dialogs: the table says what the list says, late answers give nobody's  *)
(* libraries a token who was not logged in, and a client that has quit has *)
(* forgotten what it promised to forget.                                   *)
(***************************************************************************)
EXTENDS AccountManager, FiniteSetTheorems, SequenceTheorems, WellFoundedInduction, TLAPS

-----------------------------------------------------------------------------
(* Lists of accounts: each operation on a list that has every account once *)
(* is an operation on its set of accounts.                                 *)

Distinct(s) == \A i, j \in DOMAIN s : s[i].id = s[j].id => i = j

LEMMA FunctionIsSeq ==
    ASSUME NEW S, NEW n \in Nat, NEW f \in [1..n -> S]
    PROVE  f \in Seq(S) /\ Len(f) = n
<1>1. Seq(S) = UNION {[1..m -> S] : m \in Nat}
  BY SeqDef
<1>2. f \in Seq(S)
  BY <1>1, Zenon
<1>3. DOMAIN f = 1..n /\ DOMAIN f = 1..Len(f) /\ Len(f) \in Nat
  BY <1>2, LenProperties
<1>4. Len(f) = n
  BY <1>3
<1> QED
  BY <1>2, <1>4

LEMMA InRange ==
    ASSUME NEW S, NEW s \in Seq(S)
    PROVE  /\ Range(s) = {s[i] : i \in 1..Len(s)} /\ Range(s) \subseteq S
           /\ s # <<>> => Head(s) \in Range(s) /\ Head(s) = s[1] /\ 1 \in 1..Len(s)
           /\ Range(<<>>) = {}
<1>1. Len(s) \in Nat /\ DOMAIN s = 1..Len(s) /\ \A i \in 1..Len(s) : s[i] \in S
  BY LenProperties, ElementOfSeq
<1>2. Range(s) = {s[i] : i \in 1..Len(s)} /\ Range(s) \subseteq S
  BY <1>1 DEF Range
<1>3. ASSUME s # <<>> PROVE Head(s) \in Range(s) /\ Head(s) = s[1] /\ 1 \in 1..Len(s)
  <2>1. Len(s) # 0
    BY <1>3, EmptySeq
  <2>2. 1 \in 1..Len(s)
    BY <1>1, <2>1
  <2>3. Head(s) = s[1]
    BY <1>3
  <2> QED
    BY <1>2, <2>2, <2>3
<1>4. Range(<<>>) = {}
  BY DEF Range
<1> QED
  BY <1>2, <1>3, <1>4

\* The elements of a finite set of positions can be numbered by how many come first.
LEMMA Ranks ==
    ASSUME NEW n \in Nat, NEW I \in SUBSET (1..n)
    PROVE  /\ Cardinality(I) \in Nat
           /\ \A i \in I : Cardinality({j \in I : j <= i}) \in 1..Cardinality(I)
           /\ \A i, k \in I : Cardinality({j \in I : j <= i}) = Cardinality({j \in I : j <= k}) => i = k
           /\ \A k \in 1..Cardinality(I) : \E i \in I : Cardinality({j \in I : j <= i}) = k
<1>1. IsFiniteSet(I) /\ Cardinality(I) \in Nat
  <2>1. IsFiniteSet(1..n)
    BY FS_Interval
  <2>2. IsFiniteSet(I)
    BY <2>1, FS_Subset
  <2> QED
    BY <2>2, FS_CardinalityType
<1> DEFINE upto(i) == {j \in I : j <= i}
           rank == [i \in I |-> Cardinality(upto(i))]
<1>2. ASSUME NEW i \in I PROVE IsFiniteSet(upto(i)) /\ Cardinality(upto(i)) \in 1..Cardinality(I)
  <2>1. upto(i) \in SUBSET I /\ i \in upto(i)
    OBVIOUS
  <2>2. IsFiniteSet(upto(i)) /\ Cardinality(upto(i)) <= Cardinality(I)
    BY <1>1, <2>1, FS_Subset
  <2>3. Cardinality(upto(i)) \in Nat /\ Cardinality(upto(i)) # 0
    BY <2>1, <2>2, FS_CardinalityType, FS_EmptySet
  <2> QED
    BY <1>1, <2>2, <2>3
<1>3. ASSUME NEW i \in I, NEW k \in I, i < k PROVE Cardinality(upto(i)) # Cardinality(upto(k))
  <2>1. \A j \in I : j \in Int
    OBVIOUS
  <2>2. \A j \in I : j <= i => j <= k
    BY <1>3, <2>1
  <2>3. k <= k /\ ~(k <= i)
    BY <1>3, <2>1
  <2>4. upto(i) \in SUBSET upto(k) /\ k \in upto(k) /\ k \notin upto(i)
    BY <2>2, <2>3
  <2> QED
    BY <1>2, <2>4, FS_Subset
<1>4. \A i, k \in I : Cardinality(upto(i)) = Cardinality(upto(k)) => i = k
  <2>1. \A i, k \in I : i = k \/ i < k \/ k < i
    OBVIOUS
  <2> QED
    BY <1>3, <2>1
<1>5. rank \in [I -> 1..Cardinality(I)]
  BY <1>2
<1>6. rank \in Injection(I, 1..Cardinality(I))
  <2>1. \A i, k \in I : rank[i] = rank[k] => i = k
    BY <1>4
  <2> HIDE DEF rank
  <2> QED
    BY <1>5, <2>1 DEF Injection, IsInjective
<1>7. rank \in Surjection(I, 1..Cardinality(I))
  <2>1. IsFiniteSet(1..Cardinality(I)) /\ Cardinality(1..Cardinality(I)) = Cardinality(I)
    BY <1>1, FS_Interval
  <2> HIDE DEF rank
  <2> QED
    BY <1>6, <2>1, FS_Injection
<1>8. \A k \in 1..Cardinality(I) : \E i \in I : rank[i] = k
  <2> HIDE DEF rank
  <2> QED
    BY <1>7 DEF Surjection
<1>9. \A k \in 1..Cardinality(I) : \E i \in I : Cardinality(upto(i)) = k
  BY <1>8
<1> QED
  BY <1>1, <1>2, <1>4, <1>9

\* A list that has some of the elements of another one, each from a place of its own
LEMMA PickedIsDistinct ==
    ASSUME NEW S, NEW s \in Seq(S), Distinct(s), NEW t \in Seq(S),
           NEW p \in [1..Len(t) -> 1..Len(s)],
           \A k, m \in 1..Len(t) : p[k] = p[m] => k = m,
           \A k \in 1..Len(t) : t[k] = s[p[k]]
    PROVE  Distinct(t)
<1>1. DOMAIN s = 1..Len(s) /\ DOMAIN t = 1..Len(t)
  BY LenProperties
<1> QED
  BY <1>1 DEF Distinct

LEMMA AtProperties ==
    ASSUME NEW S, NEW s \in Seq(S), NEW I \in SUBSET (1..Len(s))
    PROVE  /\ At(s, I) \in Seq(S)
           /\ Distinct(s) => Distinct(At(s, I))
           /\ Range(At(s, I)) = {s[i] : i \in I}
<1> DEFINE n == Cardinality(I)
           rank(i) == Cardinality({j \in I : j <= i})
           p == [k \in 1..n |-> CHOOSE i \in I : rank(i) = k]
           t == [k \in 1..n |-> s[CHOOSE i \in I : rank(i) = k]]
<1>1. Len(s) \in Nat /\ DOMAIN s = 1..Len(s) /\ \A i \in 1..Len(s) : s[i] \in S
  BY LenProperties, ElementOfSeq
<1>2. /\ n \in Nat
      /\ \A i \in I : rank(i) \in 1..n
      /\ \A i, k \in I : rank(i) = rank(k) => i = k
      /\ \A k \in 1..n : \E i \in I : rank(i) = k
  BY <1>1, Ranks
<1> HIDE DEF n, rank
<1>3. \A k \in 1..n : p[k] \in I /\ rank(p[k]) = k
  BY <1>2
<1>4. \A k \in 1..n : t[k] = s[p[k]]
  OBVIOUS
<1>5. At(s, I) = t
  BY DEF At, n, rank
<1> HIDE DEF p
<1>6. t \in [1..n -> S]
  BY <1>1, <1>3, <1>4
<1> HIDE DEF t
<1>7. t \in Seq(S) /\ Len(t) = n
  BY <1>2, <1>6, FunctionIsSeq
<1>8. \A k, m \in 1..n : p[k] = p[m] => k = m
  BY <1>3
<1>9. ASSUME NEW i \in I PROVE \E k \in 1..n : p[k] = i
  <2>1. rank(i) \in 1..n /\ p[rank(i)] \in I /\ rank(p[rank(i)]) = rank(i)
    BY <1>2, <1>3
  <2> QED
    BY <1>2, <2>1
<1>10. Range(t) = {s[i] : i \in I}
  <2>1. Range(t) = {t[k] : k \in 1..n}
    BY <1>7, InRange
  <2> QED
    BY <1>3, <1>4, <1>9, <2>1
<1>11. ASSUME Distinct(s) PROVE Distinct(t)
  <2>1. ASSUME NEW k \in DOMAIN t, NEW m \in DOMAIN t, t[k].id = t[m].id PROVE k = m
    <3>1. DOMAIN t = 1..n
      BY <1>6
    <3>2. p[k] \in 1..Len(s) /\ p[m] \in 1..Len(s) /\ s[p[k]].id = s[p[m]].id
      BY <1>3, <1>4, <2>1, <3>1
    <3>3. p[k] = p[m]
      BY <1>1, <1>11, <3>2 DEF Distinct
    <3> QED
      BY <1>8, <3>1, <3>3
  <2> QED
    BY <2>1 DEF Distinct
<1> QED
  BY <1>5, <1>7, <1>10, <1>11

LEMMA WithoutProperties ==
    ASSUME NEW S, NEW s \in Seq(S), Distinct(s), NEW id
    PROVE  /\ Without(s, id) \in Seq(S) /\ Distinct(Without(s, id))
           /\ Range(Without(s, id)) = {a \in Range(s) : a.id # id}
<1>1. DOMAIN s = 1..Len(s) /\ Range(s) = {s[i] : i \in 1..Len(s)}
  BY LenProperties, InRange
<1>2. PICK I : I = {i \in 1..Len(s) : s[i].id # id}
  OBVIOUS
<1>3. Without(s, id) = At(s, I) /\ I \in SUBSET (1..Len(s))
  BY <1>1, <1>2 DEF Without
<1>4. {s[i] : i \in I} = {a \in Range(s) : a.id # id}
  BY <1>1, <1>2
<1> QED
  BY <1>3, <1>4, AtProperties

LEMMA PlaceProperties ==
    ASSUME NEW S, NEW s \in Seq(S), NEW id
    PROVE  /\ Has(s, id) <=> \E i \in 1..Len(s) : s[i].id = id
           /\ Has(s, id) => Place(s, id) \in 1..Len(s) /\ s[Place(s, id)].id = id
<1>1. DOMAIN s = 1..Len(s) /\ Len(s) \in Nat
  BY LenProperties
<1>2. Has(s, id) <=> \E i \in 1..Len(s) : s[i].id = id
  BY <1>1 DEF Has
<1>3. ASSUME Has(s, id) PROVE Place(s, id) \in 1..Len(s) /\ s[Place(s, id)].id = id
  <2> DEFINE I == {i \in 1..Len(s) : s[i].id = id}
  <2>1. Place(s, id) = Min(I)
    BY <1>2, <1>3 DEF Place, SelectInSeq
  <2>2. \E m \in I : \A j \in I : m <= j
    <3> DEFINE R == OpToRel(<, Nat)
    <3>1. I \subseteq Nat /\ I # {}
      BY <1>1, <1>2, <1>3
    <3>2. \E m \in I : \A j \in I : <<j, m>> \notin R
      BY <3>1, WFMin, NatLessThanWellFounded
    <3>3. \A j, m \in Nat : <<j, m>> \notin R => m <= j
      BY DEF OpToRel
    <3> QED
      BY <3>1, <3>2, <3>3
  <2>3. Min(I) \in I
    BY <2>2 DEF Min
  <2> QED
    BY <2>1, <2>3
<1> QED
  BY <1>2, <1>3

LEMMA WithoutFirstProperties ==
    ASSUME NEW S, NEW s \in Seq(S), Distinct(s), NEW id
    PROVE  /\ WithoutFirst(s, id) \in Seq(S) /\ Distinct(WithoutFirst(s, id))
           /\ Range(WithoutFirst(s, id)) = {a \in Range(s) : a.id # id}
<1>1. /\ DOMAIN s = 1..Len(s) /\ Len(s) \in Nat /\ Range(s) = {s[i] : i \in 1..Len(s)}
      /\ \A i \in 1..Len(s) : s[i] \in S
  BY LenProperties, InRange, ElementOfSeq
<1>2. CASE \A i \in 1..Len(s) : s[i].id # id
  <2>1. WithoutFirst(s, id) = s
    BY <1>2, PlaceProperties DEF WithoutFirst
  <2> QED
    BY <1>1, <1>2, <2>1
<1>3. CASE \E i \in 1..Len(s) : s[i].id = id
  <2>1. Has(s, id) /\ Place(s, id) \in 1..Len(s) /\ s[Place(s, id)].id = id
    BY <1>3, PlaceProperties
  <2>2. PICK k \in 1..Len(s) : k = Place(s, id) /\ s[k].id = id
    BY <2>1
  <2> DEFINE a == SubSeq(s, 1, k - 1)
             b == SubSeq(s, k + 1, Len(s))
             t == a \o b
  <2>3. WithoutFirst(s, id) = t
    BY <2>1, <2>2 DEF WithoutFirst, RemoveAt
  <2>4. /\ a \in Seq(S) /\ Len(a) = k - 1
        /\ \A i \in 1..(k - 1) : a[i] = s[i]
    <3>1. 1 \in Int /\ k - 1 \in Int /\ \A i \in 1..(k - 1) : s[i] \in S
      BY <1>1
    <3>2. /\ a \in Seq(S) /\ Len(a) = IF 1 <= k - 1 THEN (k - 1) - 1 + 1 ELSE 0
          /\ \A i \in 1..((k - 1) - 1 + 1) : a[i] = s[1 + i - 1]
      BY <3>1, SubSeqProperties
    <3> HIDE DEF a
    <3>3. (k - 1) - 1 + 1 = k - 1 /\ (~(1 <= k - 1) => k - 1 = 0) /\ \A i \in 1..(k - 1) : 1 + i - 1 = i
      BY <1>1
    <3> QED
      BY <3>2, <3>3
  <2>5. /\ b \in Seq(S) /\ Len(b) = Len(s) - k
        /\ \A i \in 1..(Len(s) - k) : b[i] = s[k + i]
    <3>1. k + 1 \in Int /\ Len(s) \in Int /\ \A i \in (k + 1)..Len(s) : s[i] \in S
      BY <1>1
    <3>2. /\ b \in Seq(S) /\ Len(b) = IF k + 1 <= Len(s) THEN Len(s) - (k + 1) + 1 ELSE 0
          /\ \A i \in 1..(Len(s) - (k + 1) + 1) : b[i] = s[(k + 1) + i - 1]
      BY <3>1, SubSeqProperties
    <3> HIDE DEF b
    <3>3. /\ Len(s) - (k + 1) + 1 = Len(s) - k /\ (~(k + 1 <= Len(s)) => Len(s) - k = 0)
          /\ \A i \in 1..(Len(s) - k) : (k + 1) + i - 1 = k + i
      <4>1. k \in Nat /\ k <= Len(s) /\ \A i \in 1..(Len(s) - k) : i \in Int
        BY <1>1
      <4>2. \A i \in Int : (k + 1) + i - 1 = k + i
        BY <4>1
      <4>3. Len(s) - (k + 1) + 1 = Len(s) - k /\ (~(k + 1 <= Len(s)) => Len(s) - k = 0)
        <5>1. \A n \in Nat : \A m \in 1..n : n - (m + 1) + 1 = n - m /\ (~(m + 1 <= n) => n - m = 0)
          OBVIOUS
        <5>2. Len(s) \in Nat
          BY <1>1
        <5> QED
          BY <5>1, <5>2
      <4> QED
        BY <4>1, <4>2, <4>3
    <3> QED
      BY <3>2, <3>3
  <2> HIDE DEF a, b
  <2>6. /\ t \in Seq(S) /\ Len(t) = Len(s) - 1
        /\ \A i \in 1..(Len(s) - 1) : t[i] = IF i < k THEN s[i] ELSE s[i + 1]
    <3>1. /\ t \in Seq(S) /\ Len(t) = Len(a) + Len(b)
          /\ \A i \in 1..(Len(a) + Len(b)) : t[i] = IF i <= Len(a) THEN a[i] ELSE b[i - Len(a)]
      BY <2>4, <2>5, ConcatProperties
    <3>2. Len(a) + Len(b) = Len(s) - 1
      BY <1>1, <2>4, <2>5
    <3>3. ASSUME NEW i \in 1..(Len(s) - 1) PROVE t[i] = IF i < k THEN s[i] ELSE s[i + 1]
      <4>1. CASE i < k
        BY <1>1, <2>4, <3>1, <3>2, <4>1
      <4>2. CASE ~(i < k)
        <5>1. i - (k - 1) \in 1..(Len(s) - k) /\ k + (i - (k - 1)) = i + 1 /\ ~(i <= k - 1)
          BY <1>1, <4>2
        <5>2. t[i] = b[i - (k - 1)]
          BY <2>4, <3>1, <3>2, <5>1
        <5> QED
          BY <2>5, <4>2, <5>1, <5>2
      <4> QED
        BY <4>1, <4>2
    <3> QED
      BY <3>1, <3>2, <3>3
  <2> HIDE DEF t
  <2> DEFINE p == [i \in 1..Len(t) |-> IF i < k THEN i ELSE i + 1]
  <2>7. p \in [1..Len(t) -> 1..Len(s)] /\ \A i \in 1..Len(t) : p[i] = IF i < k THEN i ELSE i + 1
    BY <1>1, <2>6
  <2> HIDE DEF p
  <2>8. \A i, j \in 1..Len(t) : p[i] = p[j] => i = j
    BY <1>1, <2>6, <2>7
  <2>9. \A i \in 1..Len(t) : t[i] = s[p[i]] /\ p[i] # k
    BY <1>1, <2>6, <2>7
  <2>10. Distinct(t)
    <3>1. t \in Seq(S) /\ \A i \in 1..Len(t) : t[i] = s[p[i]]
      BY <2>6, <2>9
    <3> QED
      BY <2>7, <2>8, <3>1, PickedIsDistinct
  <2>11. Range(t) = {t[i] : i \in 1..Len(t)}
    BY <2>6, InRange
  <2>12. ASSUME NEW i \in 1..Len(t) PROVE t[i] \in Range(s) /\ t[i].id # id
    <3>1. p[i] \in 1..Len(s) /\ p[i] # k /\ t[i] = s[p[i]]
      BY <2>7, <2>9
    <3> QED
      BY <1>1, <2>2, <3>1 DEF Distinct
  <2>13. ASSUME NEW j \in 1..Len(s), s[j].id # id PROVE \E i \in 1..Len(t) : t[i] = s[j]
    <3>1. j # k
      BY <2>2, <2>13
    <3>2. CASE j < k
      <4>1. j \in 1..Len(t) /\ p[j] = j
        BY <1>1, <2>6, <2>7, <3>2
      <4> QED
        BY <2>9, <4>1
    <3>3. CASE ~(j < k)
      <4>1. j - 1 \in 1..Len(t) /\ ~(j - 1 < k) /\ (j - 1) + 1 = j
        BY <1>1, <2>6, <3>1, <3>3
      <4>2. p[j - 1] = j
        BY <2>7, <4>1
      <4> QED
        BY <2>9, <4>1, <4>2
    <3> QED
      BY <3>2, <3>3
  <2>14. Range(t) = {x \in Range(s) : x.id # id}
    BY <1>1, <2>11, <2>12, <2>13
  <2> QED
    BY <2>3, <2>6, <2>10, <2>14
<1> QED
  BY <1>2, <1>3

Forgotten(a) == [a EXCEPT !.token = "none"]

LEMMA ForgetProperties ==
    ASSUME NEW s \in Seq(Accounts), Distinct(s), NEW id
    PROVE  /\ Forget(s, id) \in Seq(Accounts) /\ Distinct(Forget(s, id))
           /\ Range(Forget(s, id)) = {IF a.id = id THEN Forgotten(a) ELSE a : a \in Range(s)}
           /\ s # <<>> => Forget(s, id) # <<>> /\ Head(Forget(s, id)).id = Head(s).id
<1>1. /\ DOMAIN s = 1..Len(s) /\ Len(s) \in Nat /\ Range(s) = {s[i] : i \in 1..Len(s)}
      /\ \A i \in 1..Len(s) : s[i] \in Accounts
  BY LenProperties, InRange, ElementOfSeq
<1>2. CASE \A i \in 1..Len(s) : s[i].id # id
  <2>1. Forget(s, id) = s
    BY <1>2, PlaceProperties DEF Forget
  <2>2. {IF a.id = id THEN Forgotten(a) ELSE a : a \in Range(s)} = Range(s)
    BY <1>1, <1>2
  <2> QED
    BY <2>1, <2>2
<1>3. CASE \E i \in 1..Len(s) : s[i].id = id
  <2>1. Has(s, id) /\ Place(s, id) \in 1..Len(s) /\ s[Place(s, id)].id = id
    BY <1>3, PlaceProperties
  <2>2. PICK k \in 1..Len(s) : k = Place(s, id) /\ s[k].id = id
    BY <2>1
  <2>3. PICK e : e = Forgotten(s[k])
    OBVIOUS
  <2>4. e \in Accounts /\ e.id = id
    BY <1>1, <2>2, <2>3 DEF Forgotten, Accounts, Tokens
  <2>5. PICK t : t = [s EXCEPT ![k] = e]
    OBVIOUS
  <2>6. Forget(s, id) = t
    BY <2>1, <2>2, <2>3, <2>5 DEF Forget, Forgotten
  <2>7. /\ t \in Seq(Accounts) /\ Len(t) = Len(s)
        /\ \A j \in 1..Len(s) : t[j] = IF j = k THEN e ELSE s[j]
    BY <2>4, <2>5, ExceptSeq
  <2>8. DOMAIN t = 1..Len(s) /\ Range(t) = {t[i] : i \in 1..Len(s)}
    BY <2>7, LenProperties, InRange
  <2>9. \A j \in 1..Len(s) : t[j].id = s[j].id
    BY <2>2, <2>4, <2>7
  <2>10. Distinct(t)
    BY <1>1, <2>8, <2>9 DEF Distinct
  <2>11. \A j \in 1..Len(s) : s[j].id = id => j = k
    BY <1>1, <2>2 DEF Distinct
  <2>12. \A j \in 1..Len(s) : t[j] = IF s[j].id = id THEN Forgotten(s[j]) ELSE s[j]
    BY <2>2, <2>3, <2>7, <2>11
  <2>13. Range(t) = {IF a.id = id THEN Forgotten(a) ELSE a : a \in Range(s)}
    BY <1>1, <2>8, <2>12
  <2>14. t # <<>> /\ Head(t).id = Head(s).id
    <3>1. s # <<>> /\ t # <<>>
      BY <1>1, <2>7, EmptySeq
    <3>2. 1 \in 1..Len(s) /\ Head(s) = s[1] /\ Head(t) = t[1]
      BY <2>7, <3>1, InRange
    <3> QED
      BY <2>9, <3>1, <3>2
  <2> QED
    BY <2>6, <2>7, <2>10, <2>13, <2>14
<1> QED
  BY <1>2, <1>3

LEMMA FirstAdded ==
    ASSUME NEW S, NEW s \in Seq(S), Distinct(s), NEW a \in S, \A x \in Range(s) : x.id # a.id
    PROVE  /\ <<a>> \o s \in Seq(S) /\ Distinct(<<a>> \o s)
           /\ Range(<<a>> \o s) = {a} \cup Range(s)
           /\ <<a>> \o s # <<>> /\ Head(<<a>> \o s) = a
<1>1. /\ DOMAIN s = 1..Len(s) /\ Len(s) \in Nat /\ Range(s) = {s[i] : i \in 1..Len(s)}
  BY LenProperties, InRange
<1>2. PICK t : t = <<a>> \o s
  OBVIOUS
<1>3. /\ t \in Seq(S) /\ Len(t) = Len(s) + 1
      /\ \A i \in 1..(Len(s) + 1) : t[i] = IF i = 1 THEN a ELSE s[i - 1]
  <2>1. <<a>> \in Seq(S) /\ Len(<<a>>) = 1 /\ <<a>>[1] = a
    OBVIOUS
  <2>2. /\ t \in Seq(S) /\ Len(t) = 1 + Len(s)
        /\ \A i \in 1..(1 + Len(s)) : t[i] = IF i <= 1 THEN <<a>>[i] ELSE s[i - 1]
    BY <1>2, <2>1, ConcatProperties
  <2> QED
    BY <1>1, <2>1, <2>2
<1>4. DOMAIN t = 1..(Len(s) + 1) /\ Range(t) = {t[i] : i \in 1..(Len(s) + 1)}
  BY <1>3, LenProperties, InRange
<1>5. t[1] = a /\ \A i \in 1..Len(s) : i + 1 \in 1..(Len(s) + 1) /\ t[i + 1] = s[i]
  BY <1>1, <1>3
<1>6. ASSUME NEW i \in 1..(Len(s) + 1) PROVE i = 1 \/ (i - 1 \in 1..Len(s) /\ t[i] = s[i - 1] /\ i # 1)
  BY <1>1, <1>3
<1>7. Range(t) = {a} \cup Range(s)
  <2>1. \A x \in Range(t) : x \in {a} \cup Range(s)
    BY <1>1, <1>4, <1>5, <1>6
  <2>2. 1 \in 1..(Len(s) + 1)
    BY <1>1
  <2>3. \A x \in {a} \cup Range(s) : x \in Range(t)
    BY <1>1, <1>4, <1>5, <2>2
  <2> QED
    BY <2>1, <2>3
<1>8. Distinct(t)
  <2>1. ASSUME NEW i \in DOMAIN t, NEW j \in DOMAIN t, t[i].id = t[j].id PROVE i = j
    <3>1. ASSUME NEW m \in 1..Len(s) PROVE s[m].id # a.id
      BY <1>1
    <3>2. CASE i = 1 \/ j = 1
      BY <1>4, <1>5, <1>6, <2>1, <3>1, <3>2
    <3>3. CASE i # 1 /\ j # 1
      <4>1. i - 1 \in 1..Len(s) /\ j - 1 \in 1..Len(s) /\ s[i - 1].id = s[j - 1].id
        BY <1>4, <1>6, <2>1, <3>3
      <4>2. i - 1 = j - 1
        BY <1>1, <4>1 DEF Distinct
      <4> QED
        BY <1>1, <1>4, <4>2
    <3> QED
      BY <3>2, <3>3
  <2> QED
    BY <2>1 DEF Distinct
<1>9. t # <<>> /\ Head(t) = a
  <2>1. t # <<>>
    BY <1>1, <1>3, EmptySeq
  <2> QED
    BY <1>3, <1>5, <2>1, InRange
<1> QED
  BY <1>2, <1>3, <1>7, <1>8, <1>9

LEMMA DistinctRange ==
    ASSUME NEW S, NEW s \in Seq(S)
    PROVE  /\ Distinct(s) => \A x, y \in Range(s) : x.id = y.id => x = y
           /\ \A id : Has(s, id) <=> \E x \in Range(s) : x.id = id
<1>1. DOMAIN s = 1..Len(s) /\ Range(s) = {s[i] : i \in 1..Len(s)}
  BY LenProperties, InRange
<1>2. ASSUME Distinct(s), NEW x \in Range(s), NEW y \in Range(s), x.id = y.id PROVE x = y
  <2>1. PICK i \in 1..Len(s) : x = s[i]
    BY <1>1, <1>2
  <2>2. PICK j \in 1..Len(s) : y = s[j]
    BY <1>1, <1>2
  <2>3. i = j
    BY <1>1, <1>2, <2>1, <2>2 DEF Distinct
  <2> QED
    BY <2>1, <2>2, <2>3
<1>3. ASSUME NEW id PROVE Has(s, id) <=> \E x \in Range(s) : x.id = id
  BY <1>1 DEF Has
<1> QED
  BY <1>2, <1>3

\* Lists with the same accounts, each once, are of the same length.
LEMMA LengthIsCardinality ==
    ASSUME NEW S, NEW s \in Seq(S), Distinct(s)
    PROVE  Cardinality(Range(s)) = Len(s)
<1>1. DOMAIN s = 1..Len(s) /\ Len(s) \in Nat /\ Range(s) = {s[i] : i \in 1..Len(s)}
  BY LenProperties, InRange
<1> DEFINE f == [i \in 1..Len(s) |-> s[i]]
<1>2. f \in [1..Len(s) -> Range(s)] /\ \A i, j \in 1..Len(s) : f[i] = f[j] => i = j
  BY <1>1 DEF Distinct
<1>3. \A x \in Range(s) : \E i \in 1..Len(s) : f[i] = x
  BY <1>1
<1> HIDE DEF f
<1>4. f \in Bijection(1..Len(s), Range(s))
  BY <1>2, <1>3 DEF Bijection, Injection, Surjection, IsInjective
<1>5. ExistsBijection(1..Len(s), Range(s))
  BY <1>4 DEF ExistsBijection
<1>6. IsFiniteSet(1..Len(s)) /\ Cardinality(1..Len(s)) = Len(s)
  BY <1>1, FS_Interval
<1> QED
  BY <1>5, <1>6, FS_Bijection

\* The types of what the operations return, for lists that may have an account twice
LEMMA ListTypes ==
    ASSUME NEW s \in Seq(Accounts), NEW id
    PROVE  /\ Without(s, id) \in Seq(Accounts)
           /\ WithoutFirst(s, id) \in Seq(Accounts)
           /\ Forget(s, id) \in Seq(Accounts)
           /\ \A a \in Accounts : <<a>> \o s \in Seq(Accounts)
           /\ \A a \in Accounts : Has(s, id) => [s EXCEPT ![Place(s, id)] = a] \in Seq(Accounts)
<1>1. /\ DOMAIN s = 1..Len(s) /\ Len(s) \in Nat
      /\ \A i \in 1..Len(s) : s[i] \in Accounts
  BY LenProperties, ElementOfSeq
<1>2. Without(s, id) \in Seq(Accounts)
  <2>1. PICK I : I = {i \in 1..Len(s) : s[i].id # id}
    OBVIOUS
  <2>2. Without(s, id) = At(s, I) /\ I \in SUBSET (1..Len(s))
    BY <1>1, <2>1 DEF Without
  <2> QED
    BY <2>2, AtProperties
<1>3. \A a \in Accounts : <<a>> \o s \in Seq(Accounts)
  <2>1. ASSUME NEW a \in Accounts PROVE <<a>> \o s \in Seq(Accounts)
    <3>1. <<a>> \in Seq(Accounts)
      OBVIOUS
    <3> QED
      BY <3>1, ConcatProperties
  <2> QED
    BY <2>1
<1>4. ASSUME Has(s, id) PROVE WithoutFirst(s, id) \in Seq(Accounts)
  <2>1. PICK k \in 1..Len(s) : k = Place(s, id)
    BY <1>4, PlaceProperties
  <2>2. SubSeq(s, 1, k - 1) \in Seq(Accounts)
    <3>1. 1 \in Int /\ k - 1 \in Int /\ \A i \in 1..(k - 1) : s[i] \in Accounts
      BY <1>1
    <3> QED
      BY <3>1, SubSeqProperties
  <2>3. SubSeq(s, k + 1, Len(s)) \in Seq(Accounts)
    <3>1. k + 1 \in Int /\ Len(s) \in Int /\ \A i \in (k + 1)..Len(s) : s[i] \in Accounts
      BY <1>1
    <3> QED
      BY <3>1, SubSeqProperties
  <2>4. WithoutFirst(s, id) = SubSeq(s, 1, k - 1) \o SubSeq(s, k + 1, Len(s))
    BY <1>4, <2>1 DEF WithoutFirst, RemoveAt
  <2> QED
    BY <2>2, <2>3, <2>4, ConcatProperties
<1>5. \A a \in Accounts : Has(s, id) => [s EXCEPT ![Place(s, id)] = a] \in Seq(Accounts)
  <2>1. ASSUME Has(s, id), NEW a \in Accounts PROVE [s EXCEPT ![Place(s, id)] = a] \in Seq(Accounts)
    <3>1. Place(s, id) \in 1..Len(s)
      BY <2>1, PlaceProperties
    <3> QED
      BY <3>1, ExceptSeq
  <2> QED
    BY <2>1
<1>6. ASSUME Has(s, id) PROVE Forget(s, id) \in Seq(Accounts)
  <2>1. PICK k \in 1..Len(s) : k = Place(s, id)
    BY <1>6, PlaceProperties
  <2>2. PICK e : e = Forgotten(s[k])
    OBVIOUS
  <2>3. e \in Accounts
    BY <1>1, <2>2 DEF Forgotten, Accounts, Tokens
  <2>4. Forget(s, id) = [s EXCEPT ![k] = e]
    BY <1>6, <2>1, <2>2 DEF Forget, Forgotten
  <2> QED
    BY <2>3, <2>4, ExceptSeq
<1>7. ~Has(s, id) => WithoutFirst(s, id) = s /\ Forget(s, id) = s
  BY DEF WithoutFirst, Forget
<1> QED
  BY <1>2, <1>3, <1>4, <1>5, <1>6, <1>7

LEMMA ConcatIsUnion ==
    ASSUME NEW S, NEW s \in Seq(S), NEW t \in Seq(S)
    PROVE  /\ s \o t \in Seq(S) /\ Range(s \o t) = Range(s) \cup Range(t)
           /\ Distinct(s) /\ Distinct(t) /\ (\A x \in Range(s), y \in Range(t) : x.id # y.id)
              => Distinct(s \o t)
<1>1. /\ DOMAIN s = 1..Len(s) /\ Len(s) \in Nat /\ Range(s) = {s[i] : i \in 1..Len(s)}
      /\ DOMAIN t = 1..Len(t) /\ Len(t) \in Nat /\ Range(t) = {t[i] : i \in 1..Len(t)}
  BY LenProperties, InRange
<1>2. PICK u : u = s \o t
  OBVIOUS
<1>3. /\ u \in Seq(S) /\ Len(u) = Len(s) + Len(t)
      /\ \A i \in 1..(Len(s) + Len(t)) : u[i] = IF i <= Len(s) THEN s[i] ELSE t[i - Len(s)]
  BY <1>2, ConcatProperties
<1>4. DOMAIN u = 1..(Len(s) + Len(t)) /\ Range(u) = {u[i] : i \in 1..(Len(s) + Len(t))}
  BY <1>3, LenProperties, InRange
<1>5. /\ \A i \in 1..Len(s) : i \in 1..(Len(s) + Len(t)) /\ u[i] = s[i]
      /\ \A i \in 1..Len(t) : Len(s) + i \in 1..(Len(s) + Len(t)) /\ u[Len(s) + i] = t[i]
  <2>1. \A i \in 1..Len(s) : i \in 1..(Len(s) + Len(t)) /\ i <= Len(s)
    BY <1>1
  <2>2. \A i \in 1..Len(t) : /\ Len(s) + i \in 1..(Len(s) + Len(t)) /\ ~(Len(s) + i <= Len(s))
                             /\ Len(s) + i - Len(s) = i
    BY <1>1
  <2> QED
    BY <1>3, <2>1, <2>2
<1>6. ASSUME NEW i \in 1..(Len(s) + Len(t))
      PROVE  \/ i \in 1..Len(s) /\ u[i] = s[i]
             \/ ~(i <= Len(s)) /\ i - Len(s) \in 1..Len(t) /\ u[i] = t[i - Len(s)]
  BY <1>1, <1>3
<1>7. Range(u) = Range(s) \cup Range(t)
  <2>1. \A x \in Range(u) : x \in Range(s) \cup Range(t)
    BY <1>1, <1>4, <1>6
  <2>2. \A x \in Range(s) \cup Range(t) : x \in Range(u)
    BY <1>1, <1>4, <1>5
  <2> QED
    BY <2>1, <2>2
<1>8. ASSUME Distinct(s), Distinct(t), \A x \in Range(s), y \in Range(t) : x.id # y.id
      PROVE  Distinct(u)
  <2>1. \A i \in 1..Len(s), j \in 1..Len(t) : s[i].id # t[j].id
    BY <1>1, <1>8
  <2>2. ASSUME NEW i \in 1..(Len(s) + Len(t)), NEW j \in 1..(Len(s) + Len(t)), u[i].id = u[j].id
        PROVE  i = j
    <3>1. CASE i \in 1..Len(s) /\ u[i] = s[i] /\ j \in 1..Len(s) /\ u[j] = s[j]
      BY <1>1, <1>8, <2>2, <3>1 DEF Distinct
    <3>2. CASE /\ ~(i <= Len(s)) /\ i - Len(s) \in 1..Len(t) /\ u[i] = t[i - Len(s)]
               /\ ~(j <= Len(s)) /\ j - Len(s) \in 1..Len(t) /\ u[j] = t[j - Len(s)]
      <4>1. i - Len(s) = j - Len(s)
        BY <1>1, <1>8, <2>2, <3>2 DEF Distinct
      <4> QED
        BY <1>1, <4>1
    <3> QED
      BY <1>6, <2>1, <2>2, <3>1, <3>2
  <2> QED
    BY <1>4, <2>2 DEF Distinct
<1> QED
  BY <1>2, <1>3, <1>7, <1>8

\* The list a client starts with
LEMMA LoadProperties ==
    ASSUME rows \in Seq(Accounts)
    PROVE  /\ loadAccounts \in Seq(Accounts)
           /\ Distinct(rows) => Distinct(loadAccounts) /\ Range(loadAccounts) = Range(rows)
<1>1. DOMAIN rows = 1..Len(rows) /\ Range(rows) = {rows[i] : i \in 1..Len(rows)}
  BY LenProperties, InRange
<1>2. PICK I \in SUBSET (1..Len(rows)) : I = {i \in 1..Len(rows) : IsValid(rows[i])}
  OBVIOUS
<1>3. PICK J \in SUBSET (1..Len(rows)) : J = {i \in 1..Len(rows) : ~IsValid(rows[i])}
  OBVIOUS
<1>4. loadAccounts = At(rows, I) \o At(rows, J)
  BY <1>1, <1>2, <1>3 DEF loadAccounts
<1>5. /\ At(rows, I) \in Seq(Accounts) /\ Range(At(rows, I)) = {rows[i] : i \in I}
      /\ At(rows, J) \in Seq(Accounts) /\ Range(At(rows, J)) = {rows[i] : i \in J}
      /\ Distinct(rows) => Distinct(At(rows, I)) /\ Distinct(At(rows, J))
  BY AtProperties
<1>6. loadAccounts \in Seq(Accounts) /\ Range(loadAccounts) = {rows[i] : i \in I} \cup {rows[i] : i \in J}
  BY <1>4, <1>5, ConcatIsUnion
<1>7. Range(loadAccounts) = Range(rows)
  BY <1>1, <1>2, <1>3, <1>6
<1>8. ASSUME Distinct(rows) PROVE Distinct(loadAccounts)
  <2>1. \A i \in I, j \in J : rows[i].id # rows[j].id
    <3>1. \A i \in I, j \in J : i # j /\ i \in DOMAIN rows /\ j \in DOMAIN rows
      BY <1>1, <1>2, <1>3
    <3> QED
      BY <1>8, <3>1 DEF Distinct
  <2>2. \A x \in Range(At(rows, I)), y \in Range(At(rows, J)) : x.id # y.id
    BY <1>5, <2>1
  <2> QED
    BY <1>4, <1>5, <1>8, <2>2, ConcatIsUnion
<1> QED
  BY <1>6, <1>7, <1>8

-----------------------------------------------------------------------------
(* Type correctness.                                                       *)

Dialogs == LoginDialogs \cup ExpiredBoxes \cup TokenBoxes \cup SettingsDialogs

ListsType == accounts \in Seq(Accounts) /\ rows \in Seq(Accounts) /\ Distinct(rows)
DaemonType == synced \subseteq Ids /\ keyed \subseteq synced
WindowsType == dialogs \in Seq(Dialogs)
RequestsType == tokenReqs \subseteq TokenRequests
RefreshType == inRefresh \in BOOLEAN /\ listReq \in ListRequests /\ stale \in Answers
SessionType == phase \in {"off", "running"} /\ hist \in [used : SUBSET Ids, clean : BOOLEAN]

LEMMA TypeParts ==
    /\ TypeOK <=> ListsType /\ DaemonType /\ WindowsType /\ RequestsType /\ RefreshType /\ SessionType
    /\ TypeOK' <=> ListsType' /\ DaemonType' /\ WindowsType' /\ RequestsType' /\ RefreshType' /\ SessionType'
  BY DEF TypeOK, ListsType, Distinct, DaemonType, WindowsType, Dialogs, RequestsType, RefreshType, SessionType

LEMMA CurrentProperties ==
    ASSUME NEW s \in Seq(Accounts)
    PROVE  /\ CurrentIn(s).id \in Ids \cup {NoId} /\ CurrentIn(s).token \in Tokens
           /\ s # <<>> \/ IsValid(CurrentIn(s)) \/ CurrentIn(s).id \in Ids =>
                 /\ s # <<>> /\ CurrentIn(s) = Head(s) /\ CurrentIn(s) = s[1]
                 /\ CurrentIn(s) \in Accounts /\ CurrentIn(s) \in Range(s)
<1>1. CASE s = <<>>
  BY <1>1, AccountsAssumption DEF CurrentIn, Tokens, IsValid, AccountsAssumption
<1>2. CASE s # <<>>
  <2>1. Head(s) \in Range(s) /\ Head(s) = s[1] /\ Range(s) \subseteq Accounts
    BY <1>2, InRange
  <2>2. CurrentIn(s) = Head(s)
    BY <1>2 DEF CurrentIn
  <2> QED
    BY <1>2, <2>1, <2>2 DEF Accounts
<1> QED
  BY <1>1, <1>2

LEMMA RefreshKeepsTypes ==
    ASSUME RefreshType, NEW STATE a, a.id \in Ids \cup {NoId}, a.token \in Tokens,
           Refresh(a) \/ AccountsChanged(a) \/ UNCHANGED refreshing
    PROVE  RefreshType'
<1>1. CASE Refresh(a)
  <2>1. listReq \in ListRequests /\ stale \in Answers /\ inRefresh \in BOOLEAN /\ listReq.answer \in Answers
    BY DEF RefreshType, ListRequests
  <2>2. CASE IsValid(a)
    <3>1. [id |-> a.id, token |-> a.token, answer |-> "none"] \in ListRequests
      BY DEF ListRequests, Answers
    <3> QED
      BY <1>1, <2>1, <2>2, <3>1 DEF Refresh, RefreshType
  <2>3. CASE ~IsValid(a)
    BY <1>1, <2>1, <2>3 DEF Refresh, RefreshType
  <2> QED
    BY <2>2, <2>3
<1>2. CASE UNCHANGED refreshing
  BY <1>2 DEF RefreshType, refreshing
<1> QED
  BY <1>1, <1>2 DEF AccountsChanged

LEMMA SaveRowType ==
    ASSUME ListsType, NEW a \in Accounts, NEW existed
    PROVE  SaveRow(a, existed) \in Seq(Accounts) /\ Distinct(SaveRow(a, existed))
<1>1. PICK w : w = Without(rows, a.id)
  OBVIOUS
<1>2. w \in Seq(Accounts) /\ Distinct(w) /\ \A x \in Range(w) : x.id # a.id
  BY <1>1, WithoutProperties DEF ListsType
<1>3. <<a>> \o w \in Seq(Accounts) /\ Distinct(<<a>> \o w)
  BY <1>2, FirstAdded
<1> QED
  BY <1>1, <1>3 DEF SaveRow, ListsType

LEMMA SetCurrentTypes ==
    ASSUME ListsType, RefreshType, NEW STATE list, list \in Seq(Accounts), NEW STATE a, a \in Accounts,
           SetCurrentAccount(list, a)
    PROVE  ListsType' /\ RefreshType'
<1>1. a.id \in Ids /\ a.token \in Tokens
  BY DEF Accounts
<1>2. RefreshType'
  BY <1>1, RefreshKeepsTypes DEF SetCurrentAccount
<1>3. WithoutFirst(list, a.id) \in Seq(Accounts)
  BY ListTypes
<1>4. accounts' \in Seq(Accounts)
  BY <1>3, ListTypes DEF SetCurrentAccount
<1>5. rows' \in Seq(Accounts) /\ Distinct(rows')
  BY SaveRowType DEF SetCurrentAccount
<1>6. Distinct(rows)'
  BY <1>5 DEF Distinct
<1> QED
  BY <1>2, <1>4, <1>5, <1>6 DEF ListsType

LEMMA ClearTokenTypes ==
    ASSUME ListsType, NEW id, ClearAccountToken(id)
    PROVE  ListsType'
<1>1. accounts' \in Seq(Accounts)
  BY ListTypes DEF ListsType, ClearAccountToken
<1>2. rows' \in Seq(Accounts) /\ Distinct(rows')
  BY ForgetProperties DEF ListsType, ClearAccountToken
<1>3. Distinct(rows)'
  BY <1>2 DEF Distinct
<1> QED
  BY <1>1, <1>2, <1>3 DEF ListsType

LEMMA WindowTypes ==
    ASSUME NEW q \in Seq(Dialogs)
    PROVE  /\ \A d \in Dialogs : <<d>> \o q \in Seq(Dialogs)
           /\ q # <<>> => Tail(q) \in Seq(Dialogs) /\ Head(q) \in Dialogs
           /\ \A d \in Dialogs : q # <<>> => <<d>> \o Tail(q) \in Seq(Dialogs)
<1>1. \A d \in Dialogs : <<d>> \in Seq(Dialogs)
  OBVIOUS
<1>2. ASSUME q # <<>> PROVE Tail(q) \in Seq(Dialogs) /\ Head(q) \in Dialogs
  BY <1>2, HeadTailProperties
<1> QED
  BY <1>1, <1>2, ConcatProperties

LEMMA DialogKinds ==
    ASSUME NEW d \in Dialogs
    PROVE  /\ d.kind = "login" => d \in LoginDialogs
           /\ d.kind = "expired" => d \in ExpiredBoxes
           /\ d.kind = "failed" => d \in TokenBoxes
           /\ d.kind = "settings" => d \in SettingsDialogs
  BY DEF Dialogs, LoginDialogs, ExpiredBoxes, TokenBoxes, SettingsDialogs

\* What an operation leaves alone keeps its type.
LEMMA Unchanged ==
    /\ ListsType /\ UNCHANGED <<accounts, rows>> => ListsType'
    /\ DaemonType /\ UNCHANGED daemon => DaemonType'
    /\ WindowsType /\ UNCHANGED dialogs => WindowsType'
    /\ RequestsType /\ UNCHANGED tokenReqs => RequestsType'
    /\ RefreshType /\ UNCHANGED refreshing => RefreshType'
    /\ SessionType /\ UNCHANGED <<phase, hist>> => SessionType'
  BY DEF ListsType, Distinct, DaemonType, daemon, WindowsType, RequestsType, RefreshType, refreshing, SessionType

LEMMA MoreWindows ==
    ASSUME WindowsType, NEW STATE d, d \in Dialogs,
           dialogs' = <<d>> \o dialogs \/ (dialogs # <<>> /\ dialogs' = <<d>> \o Tail(dialogs))
    PROVE  WindowsType'
  BY WindowTypes DEF WindowsType

LEMMA TopProperties ==
    ASSUME WindowsType, dialogs # <<>>
    PROVE  top \in Dialogs /\ Tail(dialogs) \in Seq(Dialogs)
  BY WindowTypes DEF WindowsType, top

\* The dialogs are these, with other contents.
LEMMA WindowsMapped ==
    ASSUME WindowsType, DOMAIN dialogs' = DOMAIN dialogs,
           dialogs' = [i \in DOMAIN dialogs |-> dialogs'[i]],
           \A i \in DOMAIN dialogs : dialogs[i] \in Dialogs => dialogs'[i] \in Dialogs
    PROVE  WindowsType'
<1>1. DOMAIN dialogs = 1..Len(dialogs) /\ Len(dialogs) \in Nat /\ \A i \in 1..Len(dialogs) : dialogs[i] \in Dialogs
  BY LenProperties, ElementOfSeq DEF WindowsType
<1>2. dialogs' \in [1..Len(dialogs) -> Dialogs]
  BY <1>1
<1>3. dialogs' \in Seq(Dialogs)
  BY <1>1, <1>2, FunctionIsSeq
<1> QED
  BY <1>3 DEF WindowsType

LEMMA InitTypes == Init => TypeOK
<1> SUFFICES ASSUME Init PROVE TypeOK
  OBVIOUS
<1>1. accounts \in Seq(Accounts) /\ rows \in Seq(Accounts) /\ Distinct(rows) /\ dialogs \in Seq(Dialogs)
  BY DEF Init, Distinct
<1>2. listReq \in ListRequests
  BY DEF Init, NoRequest, Answer, ListRequests, Tokens, Answers
<1>3. hist \in [used : SUBSET Ids, clean : BOOLEAN]
  BY DEF Init
<1> QED
  BY <1>1, <1>2, <1>3, TypeParts
     DEF Init, ListsType, DaemonType, WindowsType, RequestsType, RefreshType, SessionType, Answers

\* The user's operations in the main window
LEMMA WindowActionTypes ==
    ASSUME TypeOK,
           SwitchAccount \/ ToggleAccount \/ AddAccount \/ OpenSettings \/ SyncLibrary
    PROVE  TypeOK'
<1>1. ListsType /\ DaemonType /\ WindowsType /\ RequestsType /\ RefreshType /\ SessionType
  BY TypeParts
<1>2. DOMAIN accounts = 1..Len(accounts) /\ \A i \in 1..Len(accounts) : accounts[i] \in Accounts
  BY <1>1, LenProperties, ElementOfSeq DEF ListsType
<1>3. \A id \in Ids \cup {NoId}, relogin, removing \in BOOLEAN :
          (relogin => id \in Ids) => LoginDialog(id, relogin, removing) \in Dialogs
  BY DEF LoginDialog, Dialogs, LoginDialogs
<1>4. CASE SwitchAccount
  <2>1. PICK i \in DOMAIN accounts :
            /\ IF IsValid(accounts[i])
               THEN SetCurrentAccount(accounts, accounts[i]) /\ UNCHANGED dialogs
               ELSE /\ Open(LoginDialog(accounts[i].id, TRUE, FALSE))
                    /\ UNCHANGED <<accounts, rows, refreshing>>
            /\ UNCHANGED <<phase, daemon, tokenReqs, hist>>
    BY <1>4 DEF SwitchAccount
  <2>2. accounts[i] \in Accounts /\ accounts[i].id \in Ids
    BY <1>2, <2>1 DEF Accounts
  <2>3. DaemonType' /\ RequestsType' /\ SessionType'
    BY <1>1, <2>1, Unchanged
  <2>4. CASE IsValid(accounts[i])
    <3>1. ListsType' /\ RefreshType'
      BY <1>1, <2>1, <2>2, <2>4, SetCurrentTypes DEF ListsType
    <3> QED
      BY <1>1, <2>1, <2>3, <2>4, <3>1, Unchanged, TypeParts
  <2>5. CASE ~IsValid(accounts[i])
    <3>1. WindowsType'
      BY <1>1, <1>3, <2>1, <2>2, <2>5, MoreWindows DEF Open
    <3> QED
      BY <1>1, <2>1, <2>3, <2>5, <3>1, Unchanged, TypeParts
  <2> QED
    BY <2>4, <2>5
<1>5. CASE ToggleAccount
  <2>1. PICK i \in DOMAIN accounts :
            /\ IF IsValid(accounts[i])
               THEN LogoutDevice(accounts[i].id) /\ UNCHANGED dialogs
               ELSE /\ Open(LoginDialog(accounts[i].id, TRUE, FALSE))
                    /\ UNCHANGED <<accounts, rows, keyed, refreshing>>
            /\ UNCHANGED <<phase, synced, tokenReqs, hist>>
    BY <1>5 DEF ToggleAccount
  <2>2. accounts[i] \in Accounts /\ accounts[i].id \in Ids
    BY <1>2, <2>1 DEF Accounts
  <2>3. RequestsType' /\ SessionType'
    BY <1>1, <2>1, Unchanged
  <2>4. CASE IsValid(accounts[i])
    <3>1. ListsType'
      BY <1>1, <2>1, <2>4, ClearTokenTypes DEF LogoutDevice
    <3>2. Forget(accounts, accounts[i].id) \in Seq(Accounts)
      BY <1>1, ListTypes DEF ListsType
    <3>3. RefreshType'
      BY <1>1, <2>1, <2>4, <3>2, CurrentProperties, RefreshKeepsTypes DEF LogoutDevice
    <3>4. DaemonType'
      BY <1>1, <2>1, <2>4 DEF DaemonType, LogoutDevice, clearSyncToken
    <3> QED
      BY <1>1, <2>1, <2>3, <2>4, <3>1, <3>3, <3>4, Unchanged, TypeParts
  <2>5. CASE ~IsValid(accounts[i])
    <3>1. WindowsType'
      BY <1>1, <1>3, <2>1, <2>2, <2>5, MoreWindows DEF Open
    <3> QED
      BY <1>1, <2>1, <2>3, <2>5, <3>1, Unchanged, TypeParts DEF daemon
  <2> QED
    BY <2>4, <2>5
<1>6. CASE AddAccount
  <2>1. WindowsType'
    BY <1>1, <1>3, <1>6, MoreWindows DEF AddAccount, Open
  <2> QED
    BY <1>1, <1>6, <2>1, Unchanged, TypeParts DEF AddAccount
<1>7. CASE OpenSettings
  <2>1. PICK i \in DOMAIN accounts : Open([kind |-> "settings", account |-> accounts[i]])
    BY <1>7 DEF OpenSettings
  <2>2. [kind |-> "settings", account |-> accounts[i]] \in Dialogs
    BY <1>2, <2>1 DEF Dialogs, SettingsDialogs
  <2>3. WindowsType'
    BY <1>1, <2>1, <2>2, MoreWindows DEF Open
  <2> QED
    BY <1>1, <1>7, <2>3, Unchanged, TypeParts DEF OpenSettings
<1>8. CASE SyncLibrary
  <2>1. IsValid(currentAccount)
    BY <1>8 DEF SyncLibrary, IsValid
  <2>2. currentAccount \in Accounts
    BY <1>1, <2>1, CurrentProperties DEF ListsType, currentAccount
  <2>3. currentAccount.id \in Ids
    BY <2>2 DEF Accounts
  <2>4. DaemonType'
    BY <1>1, <1>8, <2>3 DEF DaemonType, SyncLibrary
  <2> QED
    BY <1>1, <1>8, <2>4, Unchanged, TypeParts DEF SyncLibrary
<1> QED
  BY <1>4, <1>5, <1>6, <1>7, <1>8

LEMMA DeleteAccountTypes ==
    ASSUME TypeOK, DeleteAccount
    PROVE  TypeOK'
<1>1. ListsType /\ DaemonType /\ WindowsType /\ RequestsType /\ RefreshType /\ SessionType
  BY TypeParts
<1>2. PICK i \in DOMAIN accounts :
          /\ synced' = synced \ {accounts[i].id} /\ keyed' = keyed \ {accounts[i].id}
          /\ RemoveAccount(accounts[i].id)
          /\ UNCHANGED <<phase, tokenReqs, hist>>
  BY DEF DeleteAccount
<1>3. PICK id : id = accounts[i].id
  OBVIOUS
<1>4. PICK rest : rest = Without(accounts, id)
  OBVIOUS
<1>5. PICK table : table = Without(rows, id)
  OBVIOUS
<1>6. PICK next : next = Head(rest)
  OBVIOUS
<1>7. rest \in Seq(Accounts) /\ table \in Seq(Accounts) /\ Distinct(table)
  BY <1>1, <1>4, <1>5, ListTypes, WithoutProperties DEF ListsType
<1>8. rest # <<>> => next \in Accounts /\ next.id \in Ids /\ next.token \in Tokens
  <2>1. rest # <<>> => Head(rest) \in Range(rest) /\ Range(rest) \subseteq Accounts
    BY <1>7, InRange
  <2> QED
    BY <1>6, <2>1 DEF Accounts
<1>9. DaemonType' /\ RequestsType' /\ SessionType'
  BY <1>1, <1>2, Unchanged DEF DaemonType
<1>10. \A x \in Ids \cup {NoId}, relogin, removing \in BOOLEAN :
           (relogin => x \in Ids) => LoginDialog(x, relogin, removing) \in Dialogs
  BY DEF LoginDialog, Dialogs, LoginDialogs
<1>11. \/ /\ accounts' = rest /\ rows' = table
          /\ AccountsChanged(currentAccount) /\ UNCHANGED dialogs
       \/ /\ accounts' = rest /\ rows' = table
          /\ Open(LoginDialog(NoId, FALSE, TRUE)) /\ UNCHANGED refreshing
       \/ /\ rest # <<>> /\ accounts' = rest
          /\ rows' = <<next>> \o Without(table, next.id)
          /\ AccountsChanged(next) /\ UNCHANGED dialogs
       \/ /\ rest # <<>>
          /\ accounts' = (IF next.auto THEN rest ELSE Forget(rest, next.id))
          /\ rows' = (IF next.auto THEN table ELSE Forget(table, next.id))
          /\ Open(LoginDialog(next.id, TRUE, TRUE))
          /\ UNCHANGED refreshing
  BY <1>2, <1>3, <1>4, <1>5, <1>6 DEF RemoveAccount
<1>12. CASE /\ accounts' = rest /\ rows' = table
            /\ AccountsChanged(currentAccount) /\ UNCHANGED dialogs
  <2>1. ListsType'
    BY <1>7, <1>12 DEF ListsType, Distinct
  <2>2. RefreshType'
    BY <1>1, <1>12, CurrentProperties, RefreshKeepsTypes DEF ListsType, currentAccount
  <2> QED
    BY <1>1, <1>9, <1>12, <2>1, <2>2, Unchanged, TypeParts
<1>13. CASE /\ accounts' = rest /\ rows' = table
            /\ Open(LoginDialog(NoId, FALSE, TRUE)) /\ UNCHANGED refreshing
  <2>1. ListsType'
    BY <1>7, <1>13 DEF ListsType, Distinct
  <2>2. WindowsType'
    BY <1>1, <1>10, <1>13, MoreWindows DEF Open
  <2> QED
    BY <1>1, <1>9, <1>13, <2>1, <2>2, Unchanged, TypeParts
<1>14. CASE /\ rest # <<>> /\ accounts' = rest
            /\ rows' = <<next>> \o Without(table, next.id)
            /\ AccountsChanged(next) /\ UNCHANGED dialogs
  <2>1. PICK w : w = Without(table, next.id)
    OBVIOUS
  <2>2. w \in Seq(Accounts) /\ Distinct(w) /\ \A x \in Range(w) : x.id # next.id
    BY <1>7, <2>1, WithoutProperties
  <2>3. <<next>> \o w \in Seq(Accounts) /\ Distinct(<<next>> \o w)
    BY <1>8, <1>14, <2>2, FirstAdded
  <2>4. ListsType'
    BY <1>7, <1>14, <2>1, <2>3 DEF ListsType, Distinct
  <2>5. RefreshType'
    BY <1>1, <1>8, <1>14, RefreshKeepsTypes
  <2> QED
    BY <1>1, <1>9, <1>14, <2>4, <2>5, Unchanged, TypeParts
<1>15. CASE /\ rest # <<>>
            /\ accounts' = (IF next.auto THEN rest ELSE Forget(rest, next.id))
            /\ rows' = (IF next.auto THEN table ELSE Forget(table, next.id))
            /\ Open(LoginDialog(next.id, TRUE, TRUE))
            /\ UNCHANGED refreshing
  <2>1. /\ Forget(rest, next.id) \in Seq(Accounts)
        /\ Forget(table, next.id) \in Seq(Accounts) /\ Distinct(Forget(table, next.id))
    BY <1>7, ListTypes, ForgetProperties
  <2>2. accounts' \in Seq(Accounts) /\ rows' \in Seq(Accounts) /\ Distinct(rows')
    BY <1>7, <1>15, <2>1
  <2>3. ListsType'
    BY <2>2 DEF ListsType, Distinct
  <2>4. WindowsType'
    BY <1>1, <1>8, <1>10, <1>15, MoreWindows DEF Open
  <2> QED
    BY <1>1, <1>9, <1>15, <2>3, <2>4, Unchanged, TypeParts
<1> QED
  BY <1>11, <1>12, <1>13, <1>14, <1>15

LEMMA ClosedWindows ==
    ASSUME WindowsType, dialogs # <<>>, Close
    PROVE  WindowsType'
  BY WindowTypes DEF WindowsType, Close

\* The dialogs and what goes on after them
LEMMA DialogActionTypes ==
    ASSUME TypeOK,
           LoginSucceeds \/ LoginReturns \/ CancelLogin \/ CloseExpired \/ SubmitSettings \/ CancelSettings
    PROVE  TypeOK'
<1>1. ListsType /\ DaemonType /\ WindowsType /\ RequestsType /\ RefreshType /\ SessionType
  BY TypeParts
<1>2. currentAccount.id \in Ids \cup {NoId} /\ currentAccount.token \in Tokens
  BY <1>1, CurrentProperties DEF ListsType, currentAccount
<1>3. /\ DOMAIN dialogs = 1..Len(dialogs)
      /\ \A i \in DOMAIN dialogs : dialogs[i] \in Dialogs
      /\ dialogs # <<>> => top \in Dialogs
  BY <1>1, LenProperties, ElementOfSeq, TopProperties DEF WindowsType
<1>4. CASE LoginSucceeds
  <2>1. PICK k \in OpenLogins, auto \in BOOLEAN :
            \E id \in IF dialogs[k].relogin THEN {dialogs[k].id} ELSE Ids :
                /\ SetCurrentAccount(accounts, [id |-> id, token |-> "good", auto |-> auto])
                /\ dialogs' = [i \in DOMAIN dialogs |->
                      IF i = k THEN [dialogs[i] EXCEPT !.accepted = TRUE]
                      ELSE Moved(dialogs[i], id, Has(accounts, id))]
                /\ hist' = [hist EXCEPT !.used = hist.used \cup {id}]
                /\ UNCHANGED <<phase, daemon, tokenReqs>>
    BY <1>4 DEF LoginSucceeds
  <2>2. k \in DOMAIN dialogs /\ dialogs[k] \in LoginDialogs
    BY <1>3, DialogKinds DEF OpenLogins
  <2>3. PICK id \in Ids :
                /\ SetCurrentAccount(accounts, [id |-> id, token |-> "good", auto |-> auto])
                /\ dialogs' = [i \in DOMAIN dialogs |->
                      IF i = k THEN [dialogs[i] EXCEPT !.accepted = TRUE]
                      ELSE Moved(dialogs[i], id, Has(accounts, id))]
                /\ hist' = [hist EXCEPT !.used = hist.used \cup {id}]
                /\ UNCHANGED <<phase, daemon, tokenReqs>>
    <3>1. (IF dialogs[k].relogin THEN {dialogs[k].id} ELSE Ids) \subseteq Ids
      BY <2>2 DEF LoginDialogs
    <3> QED
      BY <2>1, <3>1, Zenon
  <2>4. [id |-> id, token |-> "good", auto |-> auto] \in Accounts
    BY DEF Accounts, Tokens
  <2>5. ListsType' /\ RefreshType'
    BY <1>1, <2>3, <2>4, SetCurrentTypes DEF ListsType
  <2>6. [dialogs[k] EXCEPT !.accepted = TRUE] \in Dialogs
    BY <2>2 DEF LoginDialogs, Dialogs
  <2>7. \A existed : \A d \in Dialogs : Moved(d, id, existed) \in Dialogs
    <3>1. ASSUME NEW d \in Dialogs, d.kind = "expired"
          PROVE  [d EXCEPT !.id = id] \in Dialogs /\ [d EXCEPT !.intact = FALSE] \in Dialogs
      BY <3>1, DialogKinds DEF Dialogs, ExpiredBoxes
    <3> QED
      BY <3>1 DEF Moved
  <2>8. WindowsType'
    BY <1>1, <1>3, <2>3, <2>6, <2>7, WindowsMapped
  <2>9. SessionType'
    BY <1>1, <2>3 DEF SessionType
  <2> QED
    BY <1>1, <2>3, <2>5, <2>8, <2>9, Unchanged, TypeParts
<1>5. CASE LoginReturns
  <2>1. WindowsType'
    BY <1>1, <1>5, ClosedWindows DEF LoginReturns, Returning
  <2>2. RefreshType'
    BY <1>1, <1>2, <1>5, RefreshKeepsTypes DEF LoginReturns, RemovalEnds
  <2>3. currentAccount.id \in synced \ keyed =>
            tokenReqs \cup {[id |-> currentAccount.id, left |-> MaxRetries]} \subseteq TokenRequests
    BY <1>1, AccountsAssumption DEF DaemonType, RequestsType, TokenRequests, AccountsAssumption
  <2>4. RequestsType'
    BY <1>1, <1>5, <2>3 DEF LoginReturns, GetSyncedReposToken, RequestsType
  <2> QED
    BY <1>1, <1>5, <2>1, <2>2, <2>4, Unchanged, TypeParts DEF LoginReturns
<1>6. CASE CancelLogin
  <2>1. WindowsType'
    BY <1>1, <1>6, ClosedWindows DEF CancelLogin, TopIs
  <2>2. RefreshType'
    BY <1>1, <1>2, <1>6, RefreshKeepsTypes DEF CancelLogin, RemovalEnds
  <2> QED
    BY <1>1, <1>6, <2>1, <2>2, Unchanged, TypeParts DEF CancelLogin
<1>7. CASE CloseExpired
  <2>1. top \in ExpiredBoxes /\ dialogs # <<>>
    BY <1>3, <1>7, DialogKinds DEF CloseExpired, TopIs
  <2>2. PICK id \in Ids : dialogs' = <<LoginDialog(id, TRUE, FALSE)>> \o Tail(dialogs)
    BY <1>7, <2>1 DEF CloseExpired, ExpiredBoxes
  <2>3. LoginDialog(id, TRUE, FALSE) \in Dialogs
    BY DEF LoginDialog, Dialogs, LoginDialogs
  <2>4. WindowsType'
    BY <1>1, <2>1, <2>2, <2>3, MoreWindows
  <2> QED
    BY <1>1, <1>7, <2>4, Unchanged, TypeParts DEF CloseExpired
<1>8. CASE SubmitSettings
  <2>1. top \in SettingsDialogs /\ dialogs # <<>>
    BY <1>3, <1>8, DialogKinds DEF SubmitSettings, TopIs
  <2>2. PICK old \in Ids : old = top.account.id
    BY <2>1 DEF SettingsDialogs, Accounts
  <2>3. PICK new \in Ids :
            LET o == top.account.id
                a == [top.account EXCEPT !.id = new]
                list == Replace(accounts, o, a)
            IN /\ accounts' = list
               /\ rows' = ReplaceRow(o, a)
               /\ AccountsChanged(CurrentIn(list))
               /\ synced' = Renamed(synced, o, new)
               /\ keyed' = Renamed(keyed, o, new)
               /\ tokenReqs' = {IF r.id = o THEN [r EXCEPT !.id = new] ELSE r : r \in tokenReqs}
               /\ hist' = [hist EXCEPT !.used = Renamed(hist.used, o, new)]
               /\ Close
               /\ UNCHANGED phase
    BY <1>8 DEF SubmitSettings
  <2>4. PICK a \in Accounts : a = [top.account EXCEPT !.id = new]
    BY <2>1 DEF SettingsDialogs, Accounts
  <2>5. a.id = new
    BY <2>1, <2>4 DEF SettingsDialogs, Accounts
  <2>6. PICK list \in Seq(Accounts) : list = Replace(accounts, old, a)
    BY <1>1, <2>4, ListTypes DEF Replace, ListsType
  <2>7. /\ accounts' = list /\ rows' = ReplaceRow(old, a) /\ AccountsChanged(CurrentIn(list))
        /\ synced' = Renamed(synced, old, new) /\ keyed' = Renamed(keyed, old, new)
        /\ tokenReqs' = {IF r.id = old THEN [r EXCEPT !.id = new] ELSE r : r \in tokenReqs}
        /\ hist' = [hist EXCEPT !.used = Renamed(hist.used, old, new)]
        /\ Close /\ UNCHANGED phase
    BY <2>2, <2>3, <2>4, <2>6
  <2>8. rows' \in Seq(Accounts) /\ Distinct(rows')
    <3>1. PICK w : w = Without(rows, old)
      OBVIOUS
    <3>2. w \in Seq(Accounts) /\ Distinct(w) /\ Range(w) = {x \in Range(rows) : x.id # old}
      BY <1>1, <3>1, WithoutProperties DEF ListsType
    <3>3. CASE Has(rows, old) /\ ~Has(rows, a.id)
      <4>1. \A x \in Range(w) : x.id # a.id
        BY <1>1, <3>2, <3>3, DistinctRange DEF ListsType
      <4>2. <<a>> \o w \in Seq(Accounts) /\ Distinct(<<a>> \o w)
        BY <3>2, <4>1, FirstAdded
      <4> QED
        BY <2>7, <3>1, <3>3, <4>2 DEF ReplaceRow
    <3>4. CASE ~(Has(rows, old) /\ ~Has(rows, a.id))
      BY <1>1, <2>7, <3>4 DEF ReplaceRow, ListsType
    <3> QED
      BY <3>3, <3>4
  <2>9. ListsType'
    BY <2>7, <2>8 DEF ListsType, Distinct
  <2>10. RefreshType'
    BY <1>1, <2>7, CurrentProperties, RefreshKeepsTypes
  <2>11. DaemonType'
    BY <1>1, <2>7 DEF DaemonType, Renamed
  <2>12. SessionType'
    <3>1. Renamed(hist.used, old, new) \in SUBSET Ids
      BY <1>1 DEF SessionType, Renamed
    <3> QED
      BY <1>1, <2>7, <3>1 DEF SessionType
  <2>13. RequestsType'
    BY <1>1, <2>7 DEF RequestsType, TokenRequests
  <2>14. WindowsType'
    BY <1>1, <2>1, <2>7, ClosedWindows
  <2> QED
    BY <2>9, <2>10, <2>11, <2>12, <2>13, <2>14, TypeParts
<1>9. CASE CancelSettings
  <2>1. WindowsType'
    BY <1>1, <1>9, ClosedWindows DEF CancelSettings, TopIs
  <2> QED
    BY <1>1, <1>9, <2>1, Unchanged, TypeParts DEF CancelSettings
<1> QED
  BY <1>4, <1>5, <1>6, <1>7, <1>8, <1>9

LEMMA InvalidateTypes ==
    ASSUME ListsType, DaemonType, WindowsType,
           InvalidateCurrentLogin \/ UNCHANGED <<accounts, rows, keyed, dialogs>>, UNCHANGED synced
    PROVE  ListsType' /\ DaemonType' /\ WindowsType'
<1>1. CASE UNCHANGED <<accounts, rows, keyed, dialogs>>
  BY <1>1, Unchanged DEF daemon
<1>2. CASE InvalidateCurrentLogin /\ IsValid(currentAccount)
  <2>1. currentAccount \in Accounts /\ currentAccount.id \in Ids
    BY <1>2, CurrentProperties DEF ListsType, currentAccount, Accounts
  <2>2. [kind |-> "expired", id |-> currentAccount.id, intact |-> TRUE] \in Dialogs
    BY <2>1 DEF Dialogs, ExpiredBoxes
  <2>3. ListsType'
    BY <1>2, ClearTokenTypes DEF InvalidateCurrentLogin
  <2>4. WindowsType'
    BY <1>2, <2>2, MoreWindows DEF InvalidateCurrentLogin, Open
  <2>5. DaemonType'
    BY <1>2 DEF InvalidateCurrentLogin, DaemonType, clearSyncToken
  <2> QED
    BY <2>3, <2>4, <2>5
<1> QED
  BY <1>1, <1>2 DEF InvalidateCurrentLogin

\* Answers of the network and timers
LEMMA NetworkActionTypes ==
    ASSUME TypeOK,
           \/ RefreshTimer \/ ServerAnswers \/ NetworkFails \/ ListDelivered \/ StaleDelivered
           \/ TokensAnswered \/ TokensFailed \/ CloseFailed
    PROVE  TypeOK'
<1>1. ListsType /\ DaemonType /\ WindowsType /\ RequestsType /\ RefreshType /\ SessionType
  BY TypeParts
<1>2. currentAccount.id \in Ids \cup {NoId} /\ currentAccount.token \in Tokens
  BY <1>1, CurrentProperties DEF ListsType, currentAccount
<1>3. \A answer \in Answers : Answer(answer) \in ListRequests
  BY DEF Answer, ListRequests, Tokens
<1>4. CASE RefreshTimer
  <2>1. RefreshType'
    BY <1>1, <1>2, <1>4, RefreshKeepsTypes DEF RefreshTimer
  <2> QED
    BY <1>1, <1>4, <2>1, Unchanged, TypeParts DEF RefreshTimer
<1>5. CASE ServerAnswers \/ NetworkFails
  <2>1. PICK answer \in Answers : ListAnswered(answer)
    BY <1>5 DEF ServerAnswers, NetworkFails, Answers
  <2>2. RefreshType'
    BY <1>1, <1>3, <2>1 DEF ListAnswered, RefreshType
  <2> QED
    BY <1>1, <2>1, <2>2, Unchanged, TypeParts DEF ListAnswered
<1>6. CASE ListDelivered
  <2>1. /\ InvalidateCurrentLogin \/ UNCHANGED <<accounts, rows, keyed, dialogs>>
        /\ inRefresh' = FALSE /\ listReq' = NoRequest
        /\ UNCHANGED <<phase, synced, tokenReqs, hist, stale>>
    BY <1>6 DEF ListDelivered, OnRefreshed
  <2>2. RefreshType'
    BY <1>1, <1>3, <2>1 DEF RefreshType, NoRequest, Answers
  <2>3. ListsType' /\ DaemonType' /\ WindowsType'
    BY <1>1, <2>1, InvalidateTypes
  <2> QED
    BY <1>1, <2>1, <2>2, <2>3, Unchanged, TypeParts
<1>7. CASE StaleDelivered
  <2>1. /\ InvalidateCurrentLogin \/ UNCHANGED <<accounts, rows, keyed, dialogs>>
        /\ inRefresh' = FALSE /\ stale' = "none"
        /\ UNCHANGED <<phase, synced, tokenReqs, hist, listReq>>
    BY <1>7 DEF StaleDelivered, OnRefreshed
  <2>2. RefreshType'
    BY <1>1, <2>1 DEF RefreshType, Answers
  <2>3. ListsType' /\ DaemonType' /\ WindowsType'
    BY <1>1, <2>1, InvalidateTypes
  <2> QED
    BY <1>1, <2>1, <2>2, <2>3, Unchanged, TypeParts
<1>8. CASE TokensAnswered
  <2>1. DaemonType' /\ RequestsType'
    BY <1>1, <1>8 DEF TokensAnswered, DaemonType, RequestsType
  <2> QED
    BY <1>1, <1>8, <2>1, Unchanged, TypeParts DEF TokensAnswered
<1>9. CASE TokensFailed
  <2>1. PICK r \in tokenReqs :
            /\ tokenReqs' = tokenReqs \ {r}
            /\ Open([kind |-> "failed", id |-> r.id, left |-> r.left])
    BY <1>9 DEF TokensFailed
  <2>2. [kind |-> "failed", id |-> r.id, left |-> r.left] \in Dialogs
    BY <1>1, <2>1 DEF RequestsType, TokenRequests, Dialogs, TokenBoxes
  <2>3. WindowsType'
    BY <1>1, <2>1, <2>2, MoreWindows DEF Open
  <2>4. RequestsType'
    BY <1>1, <2>1 DEF RequestsType
  <2> QED
    BY <1>1, <1>9, <2>3, <2>4, Unchanged, TypeParts DEF TokensFailed
<1>10. CASE CloseFailed
  <2>1. dialogs # <<>> /\ top \in TokenBoxes
    BY <1>1, <1>10, TopProperties, DialogKinds DEF CloseFailed, TopIs
  <2>2. WindowsType'
    BY <1>1, <1>10, <2>1, ClosedWindows DEF CloseFailed
  <2>3. MayRetry(top.left) => [id |-> top.id, left |-> top.left - 1] \in TokenRequests
    BY <2>1, AccountsAssumption DEF TokenBoxes, TokenRequests, MayRetry, AccountsAssumption
  <2>4. RequestsType'
    BY <1>1, <1>10, <2>3 DEF RequestsType, CloseFailed
  <2> QED
    BY <1>1, <1>10, <2>2, <2>4, Unchanged, TypeParts DEF CloseFailed
<1> QED
  BY <1>4, <1>5, <1>6, <1>7, <1>8, <1>9, <1>10

\* The accounts are these, with other contents.
LEMMA MappedList ==
    ASSUME NEW s \in Seq(Accounts), NEW t, t = [i \in DOMAIN s |-> t[i]],
           \A i \in DOMAIN s : s[i] \in Accounts => t[i] \in Accounts /\ t[i].id = s[i].id
    PROVE  /\ t \in Seq(Accounts) /\ Len(t) = Len(s)
           /\ Distinct(s) => Distinct(t)
           /\ Range(t) = {t[i] : i \in 1..Len(s)}
<1>1. DOMAIN s = 1..Len(s) /\ Len(s) \in Nat /\ \A i \in 1..Len(s) : s[i] \in Accounts
  BY LenProperties, ElementOfSeq
<1>2. t \in [1..Len(s) -> Accounts]
  BY <1>1
<1>3. t \in Seq(Accounts) /\ Len(t) = Len(s)
  BY <1>1, <1>2, FunctionIsSeq
<1>4. DOMAIN t = 1..Len(s) /\ Range(t) = {t[i] : i \in 1..Len(s)}
  BY <1>3, LenProperties, InRange
<1> QED
  BY <1>1, <1>3, <1>4 DEF Distinct

LEMMA SpoiltProperties ==
    ASSUME NEW x \in Accounts, NEW id
    PROVE  /\ Spoilt(x, id) \in Accounts
           /\ Spoilt(x, id).id = x.id /\ Spoilt(x, id).auto = x.auto
           /\ IsValid(Spoilt(x, id)) <=> IsValid(x)
  BY DEF Spoilt, Accounts, Tokens, IsValid

LEMMA RevokeTypes ==
    ASSUME TypeOK, Revoke
    PROVE  TypeOK'
<1>1. ListsType /\ DaemonType /\ WindowsType /\ RequestsType /\ RefreshType /\ SessionType
  BY TypeParts
<1>2. PICK id \in Ids :
        /\ accounts' = [i \in DOMAIN accounts |-> Spoilt(accounts[i], id)]
        /\ rows' = [i \in DOMAIN rows |-> Spoilt(rows[i], id)]
        /\ dialogs' = [i \in DOMAIN dialogs |->
              IF dialogs[i].kind = "settings"
              THEN [dialogs[i] EXCEPT !.account = Spoilt(dialogs[i].account, id)]
              ELSE dialogs[i]]
        /\ listReq' = Spoilt(listReq, id)
        /\ UNCHANGED <<phase, daemon, tokenReqs, inRefresh, stale, hist>>
  BY DEF Revoke
<1>3. PICK s : s = accounts'
  OBVIOUS
<1>4. PICK t : t = rows'
  OBVIOUS
<1>5. s \in Seq(Accounts)
  <2>1. s = [i \in DOMAIN accounts |-> s[i]] /\ \A i \in DOMAIN accounts : s[i] = Spoilt(accounts[i], id)
    BY <1>2, <1>3
  <2> QED
    BY <1>1, <2>1, MappedList, SpoiltProperties DEF ListsType
<1>6. t \in Seq(Accounts) /\ Distinct(t)
  <2>1. t = [i \in DOMAIN rows |-> t[i]] /\ \A i \in DOMAIN rows : t[i] = Spoilt(rows[i], id)
    BY <1>2, <1>4
  <2> QED
    BY <1>1, <2>1, MappedList, SpoiltProperties DEF ListsType
<1>7. ListsType'
  BY <1>3, <1>4, <1>5, <1>6 DEF ListsType, Distinct
<1>8. WindowsType'
  <2>1. ASSUME NEW d \in Dialogs, d.kind = "settings"
        PROVE  [d EXCEPT !.account = Spoilt(d.account, id)] \in Dialogs
    <3>1. d \in SettingsDialogs /\ d.account \in Accounts
      BY <2>1, DialogKinds DEF SettingsDialogs
    <3>2. Spoilt(d.account, id) \in Accounts
      BY <3>1, SpoiltProperties
    <3> QED
      BY <3>1, <3>2 DEF SettingsDialogs, Dialogs
  <2> QED
    BY <1>1, <1>2, <2>1, WindowsMapped
<1>9. Spoilt(listReq, id) \in ListRequests
  BY <1>1 DEF RefreshType, Spoilt, ListRequests, Tokens
<1>10. RefreshType'
  BY <1>1, <1>2, <1>9 DEF RefreshType
<1> QED
  BY <1>1, <1>2, <1>7, <1>8, <1>10, Unchanged, TypeParts

\* Start and end of the client
LEMMA ClientActionTypes ==
    ASSUME TypeOK, Start \/ Quit \/ Crash
    PROVE  TypeOK'
<1>1. ListsType /\ DaemonType /\ WindowsType /\ RequestsType /\ RefreshType /\ SessionType
  BY TypeParts
<1>2. CASE Start
  <2>1. PICK list \in Seq(Accounts) : list = loadAccounts
    BY <1>1, LoadProperties DEF ListsType
  <2>2. PICK a : a = CurrentIn(list)
    OBVIOUS
  <2>3. a.id \in Ids \cup {NoId} /\ a.token \in Tokens /\ (a.id # NoId => a \in Accounts)
    BY <2>2, CurrentProperties
  <2>4. /\ phase' = "running"
        /\ keyed' = RemoveNonautoLoginSyncTokens(rows)
        /\ \/ a.id # NoId /\ SetCurrentAccount(list, a) /\ dialogs' = <<>>
           \/ /\ accounts' = IF a.auto THEN list ELSE Forget(list, a.id)
              /\ rows' = IF a.auto THEN rows ELSE Forget(rows, a.id)
              /\ dialogs' = <<LoginDialog(a.id, a.id # NoId, FALSE)>>
              /\ AccountsChanged(a)
        /\ hist' = [used |-> {id \in Ids : \E i \in DOMAIN accounts' : accounts'[i].id = id /\ IsValid(accounts'[i])},
                    clean |-> FALSE]
        /\ UNCHANGED <<synced, tokenReqs>>
    BY <1>2, <2>1, <2>2 DEF Start
  <2>5. DaemonType' /\ RequestsType' /\ SessionType'
    BY <1>1, <2>4 DEF DaemonType, RemoveNonautoLoginSyncTokens, RequestsType, SessionType
  <2>6. CASE a.id # NoId /\ SetCurrentAccount(list, a) /\ dialogs' = <<>>
    <3>1. ListsType' /\ RefreshType'
      BY <1>1, <2>1, <2>3, <2>6, SetCurrentTypes
    <3>2. WindowsType'
      BY <2>6 DEF WindowsType
    <3> QED
      BY <2>5, <3>1, <3>2, TypeParts
  <2>7. CASE /\ accounts' = IF a.auto THEN list ELSE Forget(list, a.id)
             /\ rows' = IF a.auto THEN rows ELSE Forget(rows, a.id)
             /\ dialogs' = <<LoginDialog(a.id, a.id # NoId, FALSE)>>
             /\ AccountsChanged(a)
    <3>1. /\ Forget(list, a.id) \in Seq(Accounts)
          /\ Forget(rows, a.id) \in Seq(Accounts) /\ Distinct(Forget(rows, a.id))
      BY <1>1, ListTypes, ForgetProperties DEF ListsType
    <3>2. accounts' \in Seq(Accounts) /\ rows' \in Seq(Accounts) /\ Distinct(rows')
      BY <1>1, <2>1, <2>7, <3>1 DEF ListsType
    <3>3. ListsType'
      BY <3>2 DEF ListsType, Distinct
    <3>4. LoginDialog(a.id, a.id # NoId, FALSE) \in Dialogs
      BY <2>3 DEF LoginDialog, Dialogs, LoginDialogs
    <3>5. WindowsType'
      <4>1. PICK d \in Dialogs : d = LoginDialog(a.id, a.id # NoId, FALSE)
        BY <3>4
      <4>2. <<d>> \in Seq(Dialogs)
        OBVIOUS
      <4> QED
        BY <2>7, <4>1, <4>2 DEF WindowsType
    <3>6. RefreshType'
      BY <1>1, <2>3, <2>7, RefreshKeepsTypes
    <3> QED
      BY <2>5, <3>3, <3>5, <3>6, TypeParts
  <2> QED
    BY <2>4, <2>6, <2>7
<1>3. ASSUME Gone PROVE WindowsType' /\ RequestsType' /\ RefreshType' /\ accounts' \in Seq(Accounts)
  <2>1. NoRequest \in ListRequests
    BY DEF NoRequest, Answer, ListRequests, Tokens, Answers
  <2>2. RefreshType'
    BY <1>3, <2>1 DEF Gone, RefreshType, Answers
  <2>3. WindowsType' /\ accounts' \in Seq(Accounts)
    BY <1>3 DEF Gone, WindowsType
  <2>4. RequestsType'
    BY <1>3 DEF Gone, RequestsType
  <2> QED
    BY <2>2, <2>3, <2>4
<1>4. CASE Quit
  <2>1. PICK t : t = rows'
    OBVIOUS
  <2>2. t = [i \in DOMAIN rows |-> t[i]]
    BY <1>4, <2>1 DEF Quit, LogoutDeviceNonautoLogin
  <2>3. \A i \in DOMAIN rows : t[i] = rows[i] \/ t[i] = Forgotten(rows[i])
    BY <1>4, <2>1 DEF Quit, LogoutDeviceNonautoLogin, Forgotten
  <2>4. \A x \in Accounts : Forgotten(x) \in Accounts /\ Forgotten(x).id = x.id
    BY DEF Forgotten, Accounts, Tokens
  <2>5. t \in Seq(Accounts) /\ Distinct(t)
    <3>1. \A i \in DOMAIN rows : rows[i] \in Accounts => t[i] \in Accounts /\ t[i].id = rows[i].id
      BY <2>3, <2>4
    <3> QED
      BY <1>1, <2>2, <3>1, MappedList DEF ListsType
  <2>6. ListsType'
    BY <1>3, <1>4, <2>1, <2>5 DEF Quit, ListsType, Distinct
  <2>7. DaemonType' /\ SessionType'
    BY <1>1, <1>4 DEF Quit, Gone, LogoutDeviceNonautoLogin, DaemonType, SessionType
  <2> QED
    BY <1>3, <1>4, <2>6, <2>7, TypeParts DEF Quit
<1>5. CASE Crash
  <2>1. ListsType' /\ DaemonType' /\ SessionType'
    BY <1>1, <1>3, <1>5 DEF Crash, Gone, ListsType, Distinct, DaemonType, daemon, SessionType
  <2> QED
    BY <1>3, <1>5, <2>1, TypeParts DEF Crash
<1> QED
  BY <1>2, <1>4, <1>5

LEMMA NextTypes == TypeOK /\ [Next]_vars => TypeOK'
<1> SUFFICES ASSUME TypeOK, [Next]_vars PROVE TypeOK'
  OBVIOUS
<1>1. CASE Next
  BY <1>1, WindowActionTypes, DeleteAccountTypes, DialogActionTypes, NetworkActionTypes, RevokeTypes,
     ClientActionTypes DEF Next
<1>2. CASE UNCHANGED vars
  BY <1>2, Unchanged, TypeParts DEF vars, daemon, refreshing
<1> QED
  BY <1>1, <1>2

\* Lists, table, daemon, dialogs and requests stay what they are declared to be,
\* and the table has every account once, whatever the user gives an account as
\* its new address.
THEOREM TypeCorrect == Spec => []TypeOK
<1>1. Init => TypeOK
  BY InitTypes
<1>2. TypeOK /\ [Next]_vars => TypeOK'
  BY NextTypes
<1> QED
  BY <1>1, <1>2, PTL DEF Spec

-----------------------------------------------------------------------------
(* The inductive invariant.                                                *)

\* A client that does not run has nothing in memory.
OffInv == phase = "off" => accounts = <<>> /\ dialogs = <<>> /\ tokenReqs = {}

\* List and table have the same accounts, each once, and only those have libraries.
ListInv ==
    /\ phase = "running" => Distinct(accounts) /\ Range(accounts) = Range(rows)
    /\ synced \subseteq {r.id : r \in Range(rows)}

\* Whatever may give the daemon a token is of an account that was used.
UsedInv ==
    phase = "running" =>
        /\ \A a \in Range(accounts) :
               (IsValid(a) \/ (~a.auto /\ a.id \in keyed)) => a.id \in hist.used
        /\ \A r \in tokenReqs : r.id \in hist.used

\* The copy of an account in its settings is of the account as it is, but for the
\* token, unless that was used. A login that is accepted has left a current
\* account that was used.
DialogInv(d) ==
    /\ d.kind = "settings" =>
           \/ d.account.id \in hist.used
           \/ /\ ~IsValid(d.account)
              /\ \A a \in Range(accounts) : a.id = d.account.id => a.auto = d.account.auto
    /\ d.kind = "failed" => d.id \in hist.used
    /\ d.kind = "login" /\ d.accepted => accounts # <<>> /\ accounts[1].id \in hist.used

\* Settings are opened in the main window only: no dialog is under them.
DialogsInv ==
    \A k \in DOMAIN dialogs : /\ dialogs[k].kind = "settings" => k = Len(dialogs)
                              /\ DialogInv(dialogs[k])

IInv == TypeOK /\ OffInv /\ ListInv /\ UsedInv /\ DialogsInv /\ QuitForgets

-----------------------------------------------------------------------------
(* What a step needs to do to keep it: an account in the list was there    *)
(* before, with a token if it has one, or it was used; what gets a token   *)
(* was used.                                                               *)

Keeps ==
    /\ hist.used \subseteq hist'.used
    /\ \A x \in Range(accounts') :
           \/ x.id \in hist'.used
           \/ \E y \in Range(accounts) : y.id = x.id /\ y.auto = x.auto /\ (IsValid(x) => IsValid(y))
    /\ \A id \in keyed' : id \in keyed \/ id \in hist'.used
    /\ \A r \in tokenReqs' : r \in tokenReqs \/ r.id \in hist'.used

HeadKept ==
    accounts # <<>> /\ accounts[1].id \in hist.used => accounts' # <<>> /\ accounts'[1].id \in hist'.used

LEMMA KeepsUsed ==
    ASSUME UsedInv, phase = "running", Keeps
    PROVE  UsedInv'
<1>1. ASSUME NEW x \in Range(accounts'), IsValid(x) \/ (~x.auto /\ x.id \in keyed')
      PROVE  x.id \in hist'.used
  BY <1>1 DEF UsedInv, Keeps
<1>2. \A r \in tokenReqs' : r.id \in hist'.used
  BY DEF UsedInv, Keeps
<1>3. Range(accounts)' = Range(accounts')
  BY DEF Range
<1> QED
  BY <1>1, <1>2, <1>3 DEF UsedInv, IsValid

LEMMA DialogKept ==
    ASSUME Keeps, HeadKept, NEW d, DialogInv(d)
    PROVE  DialogInv(d)'
<1>1. Range(accounts)' = Range(accounts')
  BY DEF Range
<1>2. ASSUME d.kind = "settings", d.account.id \notin hist'.used
      PROVE  /\ ~IsValid(d.account)
             /\ \A a \in Range(accounts') : a.id = d.account.id => a.auto = d.account.auto
  BY <1>2 DEF DialogInv, Keeps
<1>3. ASSUME d.kind = "failed" PROVE d.id \in hist'.used
  BY <1>3 DEF DialogInv, Keeps
<1>4. ASSUME d.kind = "login", d.accepted PROVE accounts' # <<>> /\ accounts'[1].id \in hist'.used
  BY <1>4 DEF DialogInv, HeadKept
<1> QED
  BY <1>1, <1>2, <1>3, <1>4 DEF DialogInv, IsValid

LEMMA Quiet ==
    ASSUME UNCHANGED <<accounts, hist, keyed, tokenReqs>>
    PROVE  Keeps /\ HeadKept
  BY DEF Keeps, HeadKept

Good(q) == \A k \in DOMAIN q : (q[k].kind = "settings" => k = Len(q)) /\ DialogInv(q[k])

LEMMA DialogsNext ==
    ASSUME NEW q, dialogs' = q, Good(q)'
    PROVE  DialogsInv'
  BY DEF Good, DialogsInv, DialogInv

\* The dialogs that stay when the uppermost is closed, or when it is not
LEMMA OldDialogs ==
    ASSUME WindowsType, DialogsInv, Keeps, dialogs = <<>> \/ HeadKept,
           NEW q, q = dialogs \/ (dialogs # <<>> /\ q = Tail(dialogs))
    PROVE  q \in Seq(Dialogs) /\ Good(q)'
<1>1. DOMAIN dialogs = 1..Len(dialogs) /\ Len(dialogs) \in Nat
  BY LenProperties DEF WindowsType
<1>2. ASSUME NEW d, NEW k \in DOMAIN dialogs, d = dialogs[k] PROVE DialogInv(d)'
  <2>1. DialogInv(d) /\ HeadKept
    BY <1>1, <1>2, EmptySeq DEF DialogsInv
  <2> QED
    BY <2>1, DialogKept
<1>3. CASE q = dialogs
  <2>1. ASSUME NEW k \in DOMAIN q PROVE (q[k].kind = "settings" => k = Len(q)) /\ DialogInv(q[k])'
    <3>1. DialogInv(q[k])'
      BY <1>2, <1>3
    <3> QED
      BY <1>3, <3>1 DEF DialogsInv
  <2> QED
    BY <1>3, <2>1 DEF WindowsType, Good
<1>4. CASE dialogs # <<>> /\ q = Tail(dialogs)
  <2>1. q \in Seq(Dialogs) /\ Len(q) = Len(dialogs) - 1 /\ \A k \in 1..Len(q) : q[k] = dialogs[k + 1]
    BY <1>4, HeadTailProperties DEF WindowsType
  <2>2. DOMAIN q = 1..Len(q) /\ Len(q) \in Nat
    BY <2>1, LenProperties
  <2>3. ASSUME NEW k \in DOMAIN q PROVE (q[k].kind = "settings" => k = Len(q)) /\ DialogInv(q[k])'
    <3>1. k + 1 \in DOMAIN dialogs /\ q[k] = dialogs[k + 1]
      BY <1>1, <2>1, <2>2
    <3>2. DialogInv(q[k])'
      BY <1>2, <3>1
    <3>3. q[k].kind = "settings" => k + 1 = Len(dialogs)
      BY <3>1 DEF DialogsInv
    <3> QED
      BY <1>1, <2>1, <2>2, <3>2, <3>3
  <2> QED
    BY <2>1, <2>3 DEF Good
<1> QED
  BY <1>3, <1>4

\* A dialog is opened over others.
LEMMA NewDialog ==
    ASSUME NEW q \in Seq(Dialogs), Good(q)', NEW d \in Dialogs,
           d.kind = "settings" => q = <<>>, DialogInv(d)', dialogs' = <<d>> \o q
    PROVE  DialogsInv'
<1>1. PICK s : s = <<d>> \o q
  OBVIOUS
<1>2. DOMAIN q = 1..Len(q) /\ Len(q) \in Nat
  BY LenProperties
<1>3. /\ s \in Seq(Dialogs) /\ Len(s) = Len(q) + 1
      /\ \A i \in 1..(Len(q) + 1) : s[i] = IF i = 1 THEN d ELSE q[i - 1]
  <2>1. <<d>> \in Seq(Dialogs) /\ Len(<<d>>) = 1 /\ <<d>>[1] = d
    OBVIOUS
  <2>2. /\ s \in Seq(Dialogs) /\ Len(s) = 1 + Len(q)
        /\ \A i \in 1..(1 + Len(q)) : s[i] = IF i <= 1 THEN <<d>>[i] ELSE q[i - 1]
    BY <1>1, <2>1, ConcatProperties
  <2> QED
    BY <1>2, <2>1, <2>2
<1>4. DOMAIN s = 1..(Len(q) + 1)
  BY <1>3, LenProperties
<1>5. ASSUME NEW k \in DOMAIN s PROVE (s[k].kind = "settings" => k = Len(s)) /\ DialogInv(s[k])'
  <2>1. CASE k = 1
    <3>1. s[k] = d
      BY <1>3, <1>4, <2>1
    <3>2. q = <<>> => Len(s) = 1
      BY <1>3, EmptySeq
    <3> QED
      BY <2>1, <3>1, <3>2
  <2>2. CASE k # 1
    <3>1. k - 1 \in DOMAIN q /\ s[k] = q[k - 1]
      BY <1>2, <1>3, <1>4, <2>2
    <3>2. DialogInv(q[k - 1])' /\ (q[k - 1].kind = "settings" => k - 1 = Len(q))
      BY <3>1 DEF Good
    <3>3. k - 1 = Len(q) => k = Len(s)
      BY <1>2, <1>3, <1>4
    <3> QED
      BY <3>1, <3>2, <3>3
  <2> QED
    BY <2>1, <2>2
<1>6. Good(s)'
  BY <1>5 DEF Good
<1> QED
  BY <1>1, <1>6, DialogsNext

-----------------------------------------------------------------------------
(* What the operations of the AccountManager make of list and table        *)

SameAccounts == Distinct(accounts) /\ Range(accounts) = Range(rows)

LEMMA RangesNext ==
    /\ Range(accounts)' = Range(accounts') /\ Range(rows)' = Range(rows')
    /\ Distinct(accounts)' = Distinct(accounts')
  BY DEF Range, Distinct

LEMMA SetCurrentLists ==
    ASSUME ListsType, NEW STATE list, list \in Seq(Accounts), Distinct(list), Range(list) = Range(rows),
           NEW STATE a, a \in Accounts, SetCurrentAccount(list, a)
    PROVE  /\ SameAccounts'
           /\ Range(accounts') = {a} \cup {x \in Range(list) : x.id # a.id}
           /\ accounts' # <<>> /\ accounts'[1] = a
<1>1. PICK b \in Accounts : b = a
  OBVIOUS
<1>2. PICK w : w = WithoutFirst(list, b.id)
  OBVIOUS
<1>3. /\ w \in Seq(Accounts) /\ Distinct(w)
      /\ Range(w) = {x \in Range(list) : x.id # b.id}
  BY <1>2, WithoutFirstProperties
<1>4. PICK v : v = Without(rows, b.id)
  OBVIOUS
<1>5. /\ v \in Seq(Accounts) /\ Distinct(v)
      /\ Range(v) = {x \in Range(rows) : x.id # b.id}
  BY <1>4, WithoutProperties DEF ListsType
<1>6. /\ <<b>> \o w \in Seq(Accounts) /\ Distinct(<<b>> \o w) /\ Range(<<b>> \o w) = {b} \cup Range(w)
      /\ <<b>> \o w # <<>> /\ Head(<<b>> \o w) = b
  BY <1>3, FirstAdded
<1>7. Range(<<b>> \o v) = {b} \cup Range(v)
  BY <1>5, FirstAdded
<1>8. Has(list, b.id) = Has(rows, b.id)
  <2>1. Has(list, b.id) <=> Has(rows, b.id)
    BY DistinctRange DEF ListsType
  <2> QED
    BY <2>1 DEF Has
<1>9. accounts' = <<b>> \o w /\ rows' = <<b>> \o v
  BY <1>1, <1>2, <1>4, <1>8 DEF SetCurrentAccount, SaveRow
<1>10. Range(accounts') = {b} \cup {x \in Range(list) : x.id # b.id} /\ Range(rows') = Range(accounts')
  BY <1>3, <1>5, <1>6, <1>7, <1>9
<1>11. SameAccounts'
  BY <1>6, <1>9, <1>10, RangesNext DEF SameAccounts
<1>12. accounts'[1] = b
  BY <1>6, <1>9, InRange
<1> QED
  BY <1>1, <1>6, <1>9, <1>10, <1>11, <1>12

ForgottenIn(S, id) == {IF x.id = id THEN Forgotten(x) ELSE x : x \in S}

LEMMA ClearTokenLists ==
    ASSUME ListsType, SameAccounts, NEW id, ClearAccountToken(id)
    PROVE  /\ SameAccounts'
           /\ Range(accounts') = ForgottenIn(Range(accounts), id)
           /\ accounts # <<>> => accounts' # <<>> /\ accounts'[1].id = accounts[1].id
<1>1. /\ accounts' \in Seq(Accounts) /\ Distinct(accounts')
      /\ Range(accounts') = ForgottenIn(Range(accounts), id)
      /\ accounts # <<>> => accounts' # <<>> /\ Head(accounts').id = Head(accounts).id
  BY ForgetProperties DEF ListsType, SameAccounts, ClearAccountToken, ForgottenIn
<1>2. Range(rows') = ForgottenIn(Range(rows), id)
  BY ForgetProperties DEF ListsType, ClearAccountToken, ForgottenIn
<1>3. SameAccounts'
  BY <1>1, <1>2, RangesNext DEF SameAccounts
<1>4. accounts # <<>> => Head(accounts) = accounts[1] /\ Head(accounts') = accounts'[1]
  BY <1>1, InRange DEF ListsType
<1> QED
  BY <1>1, <1>3, <1>4

LEMMA ForgottenProperties ==
    ASSUME NEW S \in SUBSET Accounts, NEW id
    PROVE  /\ \A x \in ForgottenIn(S, id) : \E y \in S : y.id = x.id /\ y.auto = x.auto /\ (IsValid(x) => IsValid(y))
           /\ \A y \in S : \E x \in ForgottenIn(S, id) : x.id = y.id
<1>1. \A y \in Accounts : /\ Forgotten(y).id = y.id /\ Forgotten(y).auto = y.auto
                          /\ ~IsValid(Forgotten(y))
  BY DEF Forgotten, Accounts, IsValid
<1> QED
  BY <1>1 DEF ForgottenIn

\* The libraries in the daemon are still of accounts in the table.
LEMMA LibrariesKept ==
    ASSUME ListInv, UNCHANGED synced, \A r \in Range(rows) : \E s \in Range(rows') : s.id = r.id
    PROVE  (synced \subseteq {r.id : r \in Range(rows)})'
  BY RangesNext DEF ListInv

LEMMA RunningFacts ==
    ASSUME IInv, phase = "running"
    PROVE  /\ ListsType /\ DaemonType /\ WindowsType /\ RequestsType /\ RefreshType /\ SessionType
           /\ SameAccounts /\ Range(accounts) \subseteq Accounts
           /\ DOMAIN accounts = 1..Len(accounts)
           /\ \A i \in DOMAIN accounts : accounts[i] \in Range(accounts)
           /\ \A x, y \in Range(accounts) : x.id = y.id => x = y
<1>1. ListsType /\ DaemonType /\ WindowsType /\ RequestsType /\ RefreshType /\ SessionType
  BY TypeParts DEF IInv
<1>2. SameAccounts
  BY DEF IInv, ListInv, SameAccounts
<1>3. Range(accounts) \subseteq Accounts /\ DOMAIN accounts = 1..Len(accounts)
  BY <1>1, InRange, LenProperties DEF ListsType
<1>4. \A i \in DOMAIN accounts : accounts[i] \in Range(accounts)
  BY DEF Range
<1>5. \A x, y \in Range(accounts) : x.id = y.id => x = y
  BY <1>1, <1>2, DistinctRange DEF ListsType, SameAccounts
<1> QED
  BY <1>1, <1>2, <1>3, <1>4, <1>5

\* A client that goes on running owes no more than this.
Core == ListInv /\ UsedInv /\ DialogsInv

LEMMA CoreIsEnough ==
    ASSUME TypeOK', phase' = "running", Core'
    PROVE  IInv'
  BY DEF IInv, Core, OffInv, QuitForgets

-----------------------------------------------------------------------------
(* The steps.                                                              *)

\* A dialog is opened over those that are there.
LEMMA Opened ==
    ASSUME WindowsType, DialogsInv, Keeps, dialogs = <<>> \/ HeadKept,
           NEW d \in Dialogs, d.kind = "settings" => dialogs = <<>>, DialogInv(d)',
           dialogs' = <<d>> \o dialogs
    PROVE  DialogsInv'
<1>1. PICK q : q = dialogs
  OBVIOUS
<1>2. q \in Seq(Dialogs) /\ Good(q)'
  BY <1>1, OldDialogs
<1> QED
  BY <1>1, <1>2, NewDialog

LEMMA SameDialogs ==
    ASSUME WindowsType, DialogsInv, Keeps, dialogs = <<>> \/ HeadKept,
           UNCHANGED dialogs \/ (dialogs # <<>> /\ Close)
    PROVE  DialogsInv'
<1>1. PICK q : q = dialogs'
  OBVIOUS
<1>2. q \in Seq(Dialogs) /\ Good(q)'
  BY <1>1, OldDialogs DEF Close
<1> QED
  BY <1>1, <1>2, DialogsNext

\* Nothing but the dialogs, the libraries' listing and the requests for tokens change.
LEMMA SameLists ==
    ASSUME ListInv, UNCHANGED <<phase, accounts, rows, synced>>
    PROVE  ListInv'
  BY DEF ListInv, Distinct, Range

LEMMA NewLogin ==
    ASSUME NEW id \in Ids \cup {NoId}, NEW relogin \in BOOLEAN, NEW removing \in BOOLEAN, relogin => id \in Ids
    PROVE  \E d \in Dialogs : d = LoginDialog(id, relogin, removing) /\ d.kind # "settings" /\ DialogInv(d)'
<1>1. PICK d : d = LoginDialog(id, relogin, removing)
  OBVIOUS
<1>2. d \in Dialogs /\ d.kind = "login" /\ d.accepted = FALSE
  BY <1>1 DEF LoginDialog, Dialogs, LoginDialogs
<1>3. DialogInv(d)'
  BY <1>2 DEF DialogInv
<1> QED
  BY <1>1, <1>2, <1>3

LEMMA SwitchAccountKeeps ==
    ASSUME IInv, SwitchAccount
    PROVE  Core'
<1>1. PICK i \in DOMAIN accounts :
          /\ Idle
          /\ IF IsValid(accounts[i])
             THEN SetCurrentAccount(accounts, accounts[i]) /\ UNCHANGED dialogs
             ELSE /\ Open(LoginDialog(accounts[i].id, TRUE, FALSE))
                  /\ UNCHANGED <<accounts, rows, refreshing>>
          /\ UNCHANGED <<phase, daemon, tokenReqs, hist>>
  BY DEF SwitchAccount
<1>2. phase = "running" /\ dialogs = <<>>
  BY <1>1 DEF Idle, Running
<1>3. /\ ListsType /\ WindowsType /\ SameAccounts /\ Range(accounts) \subseteq Accounts
      /\ accounts[i] \in Range(accounts) /\ accounts[i] \in Accounts /\ accounts[i].id \in Ids
      /\ ListInv /\ UsedInv /\ DialogsInv
      /\ \A x, y \in Range(accounts) : x.id = y.id => x = y
  BY <1>1, <1>2, RunningFacts DEF IInv, Accounts
<1>4. CASE IsValid(accounts[i])
  <2>1. /\ SameAccounts'
        /\ Range(accounts') = {accounts[i]} \cup {x \in Range(accounts) : x.id # accounts[i].id}
    BY <1>1, <1>3, <1>4, SetCurrentLists DEF ListsType, SameAccounts
  <2>2. Range(accounts') = Range(accounts)
    BY <1>3, <2>1
  <2>3. Keeps
    BY <1>1, <2>2 DEF Keeps, daemon
  <2>4. UNCHANGED synced /\ \A r \in Range(rows) : \E s \in Range(rows') : s.id = r.id
    BY <1>1, <1>3, <2>1, <2>2, RangesNext DEF SameAccounts, daemon
  <2>5. ListInv'
    BY <1>3, <2>1, <2>4, LibrariesKept DEF ListInv, SameAccounts
  <2>6. UsedInv'
    BY <1>2, <1>3, <2>3, KeepsUsed
  <2>7. DialogsInv'
    BY <1>1, <1>2, <1>3, <1>4, <2>3, SameDialogs
  <2> QED
    BY <2>5, <2>6, <2>7 DEF Core
<1>5. CASE ~IsValid(accounts[i])
  <2>1. Keeps /\ ListInv'
    BY <1>1, <1>3, <1>5, Quiet, SameLists DEF daemon
  <2>2. UsedInv'
    BY <1>2, <1>3, <2>1, KeepsUsed
  <2>3. PICK d \in Dialogs : d = LoginDialog(accounts[i].id, TRUE, FALSE) /\ d.kind # "settings" /\ DialogInv(d)'
    BY <1>3, NewLogin
  <2>4. DialogsInv'
    BY <1>1, <1>2, <1>3, <1>5, <2>1, <2>3, Opened DEF Open
  <2> QED
    BY <2>1, <2>2, <2>4 DEF Core
<1> QED
  BY <1>4, <1>5

\* An account is logged out, in the list, the table and the daemon.
LEMMA LogoutKeeps ==
    ASSUME IInv, phase = "running", NEW id, ClearAccountToken(id), keyed' = clearSyncToken(id),
           UNCHANGED <<phase, synced, tokenReqs, hist>>
    PROVE  Keeps /\ HeadKept /\ ListInv' /\ UsedInv'
<1>1. ListsType /\ SameAccounts /\ Range(accounts) \subseteq Accounts /\ ListInv /\ UsedInv
  BY RunningFacts DEF IInv
<1>2. /\ SameAccounts'
      /\ Range(accounts') = ForgottenIn(Range(accounts), id)
      /\ accounts # <<>> => accounts' # <<>> /\ accounts'[1].id = accounts[1].id
  BY <1>1, ClearTokenLists
<1>3. /\ \A x \in Range(accounts') : \E y \in Range(accounts) :
             y.id = x.id /\ y.auto = x.auto /\ (IsValid(x) => IsValid(y))
      /\ \A y \in Range(accounts) : \E x \in Range(accounts') : x.id = y.id
  BY <1>1, <1>2, ForgottenProperties
<1>4. Keeps
  BY <1>3 DEF Keeps, clearSyncToken
<1>5. HeadKept
  BY <1>2 DEF HeadKept
<1>6. \A r \in Range(rows) : \E s \in Range(rows') : s.id = r.id
  BY <1>1, <1>2, <1>3, RangesNext DEF SameAccounts
<1>7. ListInv'
  BY <1>1, <1>2, <1>6, LibrariesKept DEF ListInv, SameAccounts
<1> QED
  BY <1>1, <1>4, <1>5, <1>7, KeepsUsed

LEMMA ToggleAccountKeeps ==
    ASSUME IInv, ToggleAccount
    PROVE  Core'
<1>1. PICK i \in DOMAIN accounts :
          /\ Idle
          /\ IF IsValid(accounts[i])
             THEN LogoutDevice(accounts[i].id) /\ UNCHANGED dialogs
             ELSE /\ Open(LoginDialog(accounts[i].id, TRUE, FALSE))
                  /\ UNCHANGED <<accounts, rows, keyed, refreshing>>
          /\ UNCHANGED <<phase, synced, tokenReqs, hist>>
  BY DEF ToggleAccount
<1>2. phase = "running" /\ dialogs = <<>>
  BY <1>1 DEF Idle, Running
<1>3. /\ WindowsType /\ accounts[i].id \in Ids /\ ListInv /\ UsedInv /\ DialogsInv
  BY <1>1, <1>2, RunningFacts DEF IInv, Accounts
<1>4. CASE IsValid(accounts[i])
  <2>1. Keeps /\ HeadKept /\ ListInv' /\ UsedInv'
    BY <1>1, <1>2, <1>4, LogoutKeeps DEF LogoutDevice
  <2>2. DialogsInv'
    BY <1>1, <1>3, <1>4, <2>1, SameDialogs
  <2> QED
    BY <2>1, <2>2 DEF Core
<1>5. CASE ~IsValid(accounts[i])
  <2>1. Keeps /\ ListInv'
    BY <1>1, <1>3, <1>5, Quiet, SameLists
  <2>2. UsedInv'
    BY <1>2, <1>3, <2>1, KeepsUsed
  <2>3. PICK d \in Dialogs : d = LoginDialog(accounts[i].id, TRUE, FALSE) /\ d.kind # "settings" /\ DialogInv(d)'
    BY <1>3, NewLogin
  <2>4. DialogsInv'
    BY <1>1, <1>2, <1>3, <1>5, <2>1, <2>3, Opened DEF Open
  <2> QED
    BY <2>1, <2>2, <2>4 DEF Core
<1> QED
  BY <1>4, <1>5

LEMMA AddAccountKeeps ==
    ASSUME IInv, AddAccount
    PROVE  Core'
<1>1. phase = "running" /\ dialogs = <<>> /\ WindowsType /\ ListInv /\ UsedInv /\ DialogsInv
  BY RunningFacts DEF AddAccount, Idle, Running, IInv
<1>2. Keeps /\ ListInv'
  BY <1>1, Quiet, SameLists DEF AddAccount, daemon
<1>3. UsedInv'
  BY <1>1, <1>2, KeepsUsed
<1>4. PICK d \in Dialogs : d = LoginDialog(NoId, FALSE, FALSE) /\ d.kind # "settings" /\ DialogInv(d)'
  BY NewLogin
<1>5. DialogsInv'
  BY <1>1, <1>2, <1>4, Opened DEF AddAccount, Open
<1> QED
  BY <1>2, <1>3, <1>5 DEF Core

LEMMA OpenSettingsKeeps ==
    ASSUME IInv, OpenSettings
    PROVE  Core'
<1>1. PICK i \in DOMAIN accounts :
          /\ Idle
          /\ Open([kind |-> "settings", account |-> accounts[i]])
          /\ UNCHANGED <<phase, accounts, rows, daemon, tokenReqs, refreshing, hist>>
  BY DEF OpenSettings
<1>2. phase = "running" /\ dialogs = <<>>
  BY <1>1 DEF Idle, Running
<1>3. /\ WindowsType /\ ListInv /\ UsedInv /\ DialogsInv
      /\ accounts[i] \in Range(accounts) /\ accounts[i] \in Accounts
      /\ \A x, y \in Range(accounts) : x.id = y.id => x = y
  BY <1>1, <1>2, RunningFacts DEF IInv
<1>4. Keeps /\ ListInv'
  BY <1>1, <1>3, Quiet, SameLists DEF daemon
<1>5. UsedInv'
  BY <1>2, <1>3, <1>4, KeepsUsed
<1>6. PICK a \in Accounts : a = accounts[i]
  BY <1>3
<1>7. PICK d \in Dialogs : d = [kind |-> "settings", account |-> a]
  BY DEF Dialogs, SettingsDialogs
<1>8. IsValid(a) => a.id \in hist.used
  BY <1>2, <1>3, <1>6 DEF UsedInv
<1>9. DialogInv(d)'
  <2>1. hist' = hist /\ Range(accounts)' = Range(accounts)
    BY <1>1, RangesNext
  <2>2. \A x \in Range(accounts) : x.id = a.id => x.auto = a.auto
    BY <1>3, <1>6
  <2>3. d.kind = "settings" /\ d.account = a
    BY <1>7
  <2> QED
    BY <1>8, <2>1, <2>2, <2>3 DEF DialogInv, IsValid
<1>10. DialogsInv'
  BY <1>1, <1>2, <1>3, <1>4, <1>6, <1>7, <1>9, Opened DEF Open
<1> QED
  BY <1>4, <1>5, <1>10 DEF Core

LEMMA SyncLibraryKeeps ==
    ASSUME IInv, SyncLibrary
    PROVE  Core'
<1>1. /\ phase = "running" /\ dialogs = <<>> /\ WindowsType /\ ListsType /\ SameAccounts
      /\ ListInv /\ UsedInv /\ DialogsInv
  BY RunningFacts DEF SyncLibrary, Idle, Running, IInv
<1>2. IsValid(currentAccount) /\ currentAccount \in Range(accounts)
  BY <1>1, CurrentProperties DEF ListsType, currentAccount, SyncLibrary, IsValid
<1>3. currentAccount.id \in hist.used
  BY <1>1, <1>2 DEF UsedInv
<1>4. Keeps
  BY <1>3 DEF SyncLibrary, Keeps
<1>5. UsedInv'
  BY <1>1, <1>4, KeepsUsed
<1>6. ListInv'
  <2>1. currentAccount.id \in {r.id : r \in Range(rows)}
    BY <1>1, <1>2 DEF SameAccounts
  <2>2. synced' \subseteq {r.id : r \in Range(rows)} /\ rows' = rows /\ accounts' = accounts
    BY <1>1, <2>1 DEF SyncLibrary, ListInv
  <2> QED
    BY <1>1, <2>2, RangesNext DEF ListInv, SameAccounts
<1>7. DialogsInv'
  BY <1>1, <1>4, SameDialogs DEF SyncLibrary
<1> QED
  BY <1>5, <1>6, <1>7 DEF Core

LEMMA DeleteAccountKeeps ==
    ASSUME IInv, DeleteAccount
    PROVE  Core'
<1>1. PICK i \in DOMAIN accounts :
          /\ Idle
          /\ synced' = synced \ {accounts[i].id} /\ keyed' = keyed \ {accounts[i].id}
          /\ RemoveAccount(accounts[i].id)
          /\ UNCHANGED <<phase, tokenReqs, hist>>
  BY DEF DeleteAccount
<1>2. phase = "running" /\ dialogs = <<>>
  BY <1>1 DEF Idle, Running
<1>3. /\ WindowsType /\ ListsType /\ SameAccounts /\ Range(accounts) \subseteq Accounts
      /\ ListInv /\ UsedInv /\ DialogsInv
      /\ \A x, y \in Range(accounts) : x.id = y.id => x = y
  BY <1>2, RunningFacts DEF IInv
<1>4. PICK id : id = accounts[i].id
  OBVIOUS
<1>5. PICK rest : rest = Without(accounts, id)
  OBVIOUS
<1>6. PICK table : table = Without(rows, id)
  OBVIOUS
<1>7. PICK next : next = Head(rest)
  OBVIOUS
<1>8. /\ rest \in Seq(Accounts) /\ Distinct(rest) /\ Range(rest) = {x \in Range(accounts) : x.id # id}
      /\ table \in Seq(Accounts) /\ Distinct(table) /\ Range(table) = Range(rest)
  <2>1. /\ rest \in Seq(Accounts) /\ Distinct(rest) /\ Range(rest) = {x \in Range(accounts) : x.id # id}
    BY <1>3, <1>5, WithoutProperties DEF ListsType, SameAccounts
  <2>2. /\ table \in Seq(Accounts) /\ Distinct(table) /\ Range(table) = {x \in Range(rows) : x.id # id}
    BY <1>3, <1>6, WithoutProperties DEF ListsType
  <2> QED
    BY <1>3, <2>1, <2>2 DEF SameAccounts
<1>9. /\ rest # <<>> => next \in Range(rest)
      /\ Range(rest) \subseteq Accounts /\ Range(rest) \subseteq Range(accounts)
      /\ \A x \in Accounts : x.id \in Ids
  BY <1>3, <1>7, <1>8, InRange DEF Accounts
\* What each of the four cases leaves in list and table
<1>10. ASSUME SameAccounts',
              \A x \in Range(accounts') : \E y \in Range(rest) :
                  y.id = x.id /\ y.auto = x.auto /\ (IsValid(x) => IsValid(y)),
              \A y \in Range(rest) : \E x \in Range(accounts') : x.id = y.id
       PROVE  Keeps /\ ListInv' /\ UsedInv'
  <2>1. Keeps
    BY <1>1, <1>9, <1>10 DEF Keeps
  <2>2. \A s \in synced' : \E y \in Range(rest) : y.id = s
    BY <1>1, <1>3, <1>4, <1>8 DEF ListInv, SameAccounts
  <2>3. synced' \subseteq {r.id : r \in Range(rows')}
    BY <1>10, <2>2, RangesNext DEF SameAccounts
  <2>4. ListInv'
    BY <1>10, <2>3, RangesNext DEF ListInv, SameAccounts
  <2> QED
    BY <1>2, <1>3, <2>1, <2>4, KeepsUsed
<1>11. ASSUME NEW d \in Dialogs, d.kind # "settings", DialogInv(d)', dialogs' = <<d>> \o dialogs, Keeps
       PROVE  DialogsInv'
  BY <1>2, <1>3, <1>11, Opened
<1>12. \A x \in Range(rest) : \E y \in Range(rest) : y.id = x.id /\ y.auto = x.auto /\ (IsValid(x) => IsValid(y))
  OBVIOUS
<1>13. CASE \/ /\ accounts' = rest /\ rows' = table
               /\ AccountsChanged(currentAccount) /\ UNCHANGED dialogs
            \/ /\ accounts' = rest /\ rows' = table
               /\ Open(LoginDialog(NoId, FALSE, TRUE)) /\ UNCHANGED refreshing
  <2>1. SameAccounts' /\ Range(accounts') = Range(rest)
    BY <1>8, <1>13, RangesNext DEF SameAccounts
  <2>2. Keeps /\ ListInv' /\ UsedInv'
    BY <1>10, <1>12, <2>1
  <2>3. CASE UNCHANGED dialogs
    BY <1>2, <1>3, <2>2, <2>3, SameDialogs DEF Core
  <2>4. CASE Open(LoginDialog(NoId, FALSE, TRUE))
    <3>1. PICK d \in Dialogs : d = LoginDialog(NoId, FALSE, TRUE) /\ d.kind # "settings" /\ DialogInv(d)'
      BY NewLogin
    <3> QED
      BY <1>11, <2>2, <2>4, <3>1 DEF Open, Core
  <2> QED
    BY <1>13, <2>3, <2>4
<1>14. CASE /\ rest # <<>> /\ accounts' = rest
            /\ rows' = <<next>> \o Without(table, next.id)
            /\ AccountsChanged(next) /\ UNCHANGED dialogs
  <2>1. PICK w : w = Without(table, next.id)
    OBVIOUS
  <2>2. w \in Seq(Accounts) /\ Distinct(w) /\ Range(w) = {x \in Range(table) : x.id # next.id}
    BY <1>8, <2>1, WithoutProperties
  <2>3. Range(rows') = {next} \cup Range(w)
    BY <1>9, <1>14, <2>1, <2>2, FirstAdded
  <2>4. Range(rows') = Range(rest)
    <3>1. next \in Range(rest) /\ \A x \in Range(rest) : x.id = next.id => x = next
      BY <1>3, <1>9, <1>14
    <3>2. Range(w) = {x \in Range(rest) : x.id # next.id}
      BY <1>8, <2>2
    <3> QED
      BY <2>3, <3>1, <3>2
  <2>5. SameAccounts' /\ Range(accounts') = Range(rest)
    BY <1>8, <1>14, <2>4, RangesNext DEF SameAccounts
  <2>6. Keeps /\ ListInv' /\ UsedInv'
    BY <1>10, <1>12, <2>5
  <2> QED
    BY <1>2, <1>3, <1>14, <2>6, SameDialogs DEF Core
<1>15. CASE /\ rest # <<>>
            /\ accounts' = (IF next.auto THEN rest ELSE Forget(rest, next.id))
            /\ rows' = (IF next.auto THEN table ELSE Forget(table, next.id))
            /\ Open(LoginDialog(next.id, TRUE, TRUE))
            /\ UNCHANGED refreshing
  <2>1. /\ Distinct(Forget(rest, next.id)) /\ Range(Forget(rest, next.id)) = ForgottenIn(Range(rest), next.id)
        /\ Range(Forget(table, next.id)) = ForgottenIn(Range(table), next.id)
    BY <1>8, ForgetProperties DEF ForgottenIn
  <2>2. SameAccounts' /\ (Range(accounts') = Range(rest) \/ Range(accounts') = ForgottenIn(Range(rest), next.id))
    BY <1>8, <1>15, <2>1, RangesNext DEF SameAccounts
  <2>3. /\ \A x \in ForgottenIn(Range(rest), next.id) :
               \E y \in Range(rest) : y.id = x.id /\ y.auto = x.auto /\ (IsValid(x) => IsValid(y))
        /\ \A y \in Range(rest) : \E x \in ForgottenIn(Range(rest), next.id) : x.id = y.id
    BY <1>9, ForgottenProperties
  <2>4. Keeps /\ ListInv' /\ UsedInv'
    BY <1>10, <1>12, <2>2, <2>3
  <2>5. PICK d \in Dialogs : d = LoginDialog(next.id, TRUE, TRUE) /\ d.kind # "settings" /\ DialogInv(d)'
    BY <1>9, <1>15, NewLogin
  <2> QED
    BY <1>11, <1>15, <2>4, <2>5 DEF Open, Core
<1> QED
  BY <1>1, <1>4, <1>5, <1>6, <1>7, <1>13, <1>14, <1>15 DEF RemoveAccount

\* The dialogs are these, with other contents.
LEMMA MappedDialogs ==
    ASSUME WindowsType, DialogsInv, Keeps, HeadKept, NEW q, q = dialogs', q = [i \in DOMAIN dialogs |-> q[i]],
           \A i \in DOMAIN dialogs : dialogs[i] \in Dialogs =>
               /\ q[i] \in Dialogs /\ q[i].kind = dialogs[i].kind
               /\ \A d : d = dialogs[i] /\ DialogInv(d)' => DialogInv(q[i])'
    PROVE  DialogsInv'
<1>1. DOMAIN dialogs = 1..Len(dialogs) /\ Len(dialogs) \in Nat /\ \A i \in DOMAIN dialogs : dialogs[i] \in Dialogs
  BY LenProperties, ElementOfSeq DEF WindowsType
<1>2. q \in [1..Len(dialogs) -> Dialogs]
  BY <1>1
<1>3. q \in Seq(Dialogs) /\ Len(q) = Len(dialogs)
  BY <1>1, <1>2, FunctionIsSeq
<1>4. DOMAIN q = DOMAIN dialogs
  BY <1>1, <1>2
<1>5. ASSUME NEW i \in DOMAIN q PROVE (q[i].kind = "settings" => i = Len(q)) /\ DialogInv(q[i])'
  <2>1. PICK d : d = dialogs[i]
    OBVIOUS
  <2>2. DialogInv(d) /\ (d.kind = "settings" => i = Len(dialogs))
    BY <1>4, <2>1 DEF DialogsInv
  <2>3. DialogInv(d)'
    BY <2>2, DialogKept
  <2>4. DialogInv(q[i])' /\ q[i].kind = d.kind
    BY <1>1, <1>4, <2>1, <2>3
  <2> QED
    BY <1>3, <2>2, <2>4
<1>6. Good(q)'
  BY <1>5 DEF Good
<1> QED
  BY <1>6, DialogsNext

LEMMA LoginSucceedsKeeps ==
    ASSUME IInv, LoginSucceeds
    PROVE  Core'
<1>1. PICK k \in OpenLogins, auto \in BOOLEAN :
          \E id \in IF dialogs[k].relogin THEN {dialogs[k].id} ELSE Ids :
              /\ Running
              /\ SetCurrentAccount(accounts, [id |-> id, token |-> "good", auto |-> auto])
              /\ dialogs' = [i \in DOMAIN dialogs |->
                    IF i = k THEN [dialogs[i] EXCEPT !.accepted = TRUE]
                    ELSE Moved(dialogs[i], id, Has(accounts, id))]
              /\ hist' = [hist EXCEPT !.used = hist.used \cup {id}]
              /\ UNCHANGED <<phase, daemon, tokenReqs>>
  BY DEF LoginSucceeds
<1>2. phase = "running"
  BY <1>1 DEF Running
<1>3. /\ WindowsType /\ ListsType /\ SameAccounts /\ Range(accounts) \subseteq Accounts /\ SessionType
      /\ ListInv /\ UsedInv /\ DialogsInv
  BY <1>2, RunningFacts DEF IInv
<1>4. k \in DOMAIN dialogs /\ dialogs[k] \in Dialogs /\ dialogs[k] \in LoginDialogs
  <2>1. k \in DOMAIN dialogs /\ dialogs[k].kind = "login"
    BY DEF OpenLogins
  <2>2. dialogs[k] \in Dialogs
    BY <1>3, <2>1, LenProperties, ElementOfSeq DEF WindowsType
  <2> QED
    BY <2>1, <2>2, DialogKinds
<1>5. (IF dialogs[k].relogin THEN {dialogs[k].id} ELSE Ids) \subseteq Ids
  BY <1>4 DEF LoginDialogs
<1>6. PICK id \in Ids :
              /\ SetCurrentAccount(accounts, [id |-> id, token |-> "good", auto |-> auto])
              /\ dialogs' = [i \in DOMAIN dialogs |->
                    IF i = k THEN [dialogs[i] EXCEPT !.accepted = TRUE]
                    ELSE Moved(dialogs[i], id, Has(accounts, id))]
              /\ hist' = [hist EXCEPT !.used = hist.used \cup {id}]
              /\ UNCHANGED <<phase, daemon, tokenReqs>>
  BY <1>1, <1>5, Zenon
<1>7. PICK a \in Accounts : a = [id |-> id, token |-> "good", auto |-> auto]
  BY DEF Accounts, Tokens
<1>8. hist'.used = hist.used \cup {id} /\ a.id = id
  BY <1>3, <1>6, <1>7 DEF SessionType
<1>9. /\ SameAccounts'
      /\ Range(accounts') = {a} \cup {x \in Range(accounts) : x.id # a.id}
      /\ accounts' # <<>> /\ accounts'[1] = a
  BY <1>3, <1>6, <1>7, SetCurrentLists DEF ListsType, SameAccounts
<1>10. Keeps
  <2>1. \A x \in Range(accounts') : x.id \in hist'.used \/ x \in Range(accounts)
    BY <1>8, <1>9
  <2> QED
    BY <1>6, <1>8, <2>1 DEF Keeps, daemon
<1>11. HeadKept
  BY <1>8, <1>9 DEF HeadKept
<1>12. ListInv'
  <2>1. \A r \in Range(rows) : \E s \in Range(rows') : s.id = r.id
    BY <1>3, <1>9, RangesNext DEF SameAccounts
  <2> QED
    BY <1>3, <1>6, <1>9, <2>1, LibrariesKept DEF ListInv, SameAccounts, daemon
<1>13. UsedInv'
  BY <1>2, <1>3, <1>10, KeepsUsed
<1>14. PICK q : q = dialogs'
  OBVIOUS
<1>15. ASSUME NEW i \in DOMAIN dialogs, dialogs[i] \in Dialogs
       PROVE  /\ q[i] \in Dialogs /\ q[i].kind = dialogs[i].kind
              /\ \A d : d = dialogs[i] /\ DialogInv(d)' => DialogInv(q[i])'
  <2>1. CASE i = k
    <3>1. q[i] = [dialogs[k] EXCEPT !.accepted = TRUE]
      BY <1>6, <1>14, <2>1
    <3>2. q[i] \in Dialogs /\ q[i].kind = "login" /\ dialogs[i].kind = "login"
      BY <1>4, <2>1, <3>1 DEF LoginDialogs, Dialogs
    <3>3. accounts' # <<>> /\ accounts'[1].id \in hist'.used
      BY <1>8, <1>9
    <3>4. DialogInv(q[i])'
      BY <3>2, <3>3 DEF DialogInv
    <3> QED
      BY <3>2, <3>4
  <2>2. CASE i # k /\ dialogs[i].kind = "expired"
    <3>1. q[i] = [dialogs[i] EXCEPT !.id = id] \/ q[i] = [dialogs[i] EXCEPT !.intact = FALSE]
      BY <1>6, <1>14, <2>2 DEF Moved
    <3>2. dialogs[i] \in ExpiredBoxes
      BY <1>15, <2>2, DialogKinds
    <3>3. q[i] \in Dialogs /\ q[i].kind = "expired"
      BY <3>1, <3>2 DEF ExpiredBoxes, Dialogs
    <3>4. DialogInv(q[i])'
      BY <3>3 DEF DialogInv
    <3> QED
      BY <2>2, <3>3, <3>4
  <2>3. CASE i # k /\ dialogs[i].kind # "expired"
    <3>1. q[i] = dialogs[i]
      BY <1>6, <1>14, <2>3 DEF Moved
    <3> QED
      BY <1>15, <3>1
  <2> QED
    BY <2>1, <2>2, <2>3
<1>16. q = [i \in DOMAIN dialogs |-> q[i]]
  BY <1>6, <1>14
<1>17. DialogsInv'
  BY <1>3, <1>10, <1>11, <1>14, <1>15, <1>16, MappedDialogs
<1> QED
  BY <1>12, <1>13, <1>17 DEF Core

\* The uppermost dialog, of which something is known
LEMMA TopInv ==
    ASSUME IInv, dialogs # <<>>
    PROVE  top \in Dialogs /\ DialogInv(top) /\ (top.kind = "settings" => Tail(dialogs) = <<>>)
<1>1. WindowsType /\ DialogsInv
  BY TypeParts DEF IInv
<1>2. Len(dialogs) \in Nat /\ Len(dialogs) # 0 /\ DOMAIN dialogs = 1..Len(dialogs)
  BY <1>1, EmptySeq, LenProperties DEF WindowsType
<1>3. top \in Dialogs /\ top = dialogs[1] /\ Tail(dialogs) \in Seq(Dialogs) /\ Len(Tail(dialogs)) = Len(dialogs) - 1
  BY <1>1, HeadTailProperties, TopProperties DEF WindowsType, top
<1>4. 1 \in DOMAIN dialogs
  BY <1>2
<1>5. PICK d : d = dialogs[1]
  OBVIOUS
<1>6. DialogInv(d) /\ (d.kind = "settings" => 1 = Len(dialogs))
  BY <1>1, <1>4, <1>5 DEF DialogsInv
<1>7. d.kind = "settings" => Tail(dialogs) = <<>>
  <2>1. ASSUME d.kind = "settings" PROVE Len(Tail(dialogs)) = 0
    <3>1. Len(dialogs) = 1
      BY <1>6, <2>1
    <3> QED
      BY <1>3, <3>1
  <2> QED
    BY <1>3, <2>1, EmptySeq
<1> QED
  BY <1>3, <1>5, <1>6, <1>7 DEF DialogInv

\* Login dialogs that end, and boxes that are closed
LEMMA ClosedKeeps ==
    ASSUME IInv, LoginReturns \/ CancelLogin \/ CloseExpired \/ CancelSettings \/ CloseFailed
    PROVE  Core'
<1>1. phase = "running" /\ dialogs # <<>> /\ UNCHANGED <<phase, accounts, rows, daemon, hist>>
  BY DEF LoginReturns, Returning, CancelLogin, CloseExpired, CancelSettings, CloseFailed, TopIs, Running
<1>2. /\ WindowsType /\ ListsType /\ RequestsType /\ ListInv /\ UsedInv /\ DialogsInv
      /\ top \in Dialogs /\ DialogInv(top)
  BY <1>1, RunningFacts, TopInv DEF IInv
<1>3. \A r \in tokenReqs' : r \in tokenReqs \/ r.id \in hist.used
  <2>1. CASE LoginReturns
    <3>1. top.kind = "login" /\ top.accepted
      BY <2>1 DEF LoginReturns, Returning, top
    <3>2. accounts # <<>> /\ accounts[1].id \in hist.used
      BY <1>2, <3>1 DEF DialogInv
    <3>3. currentAccount.id \in hist.used
      BY <1>2, <3>2, CurrentProperties DEF ListsType, currentAccount
    <3> QED
      BY <2>1, <3>3 DEF LoginReturns, GetSyncedReposToken
  <2>2. CASE CloseFailed
    <3>1. top.kind = "failed"
      BY <2>2 DEF CloseFailed, TopIs
    <3>2. top.id \in hist.used
      BY <1>2, <3>1 DEF DialogInv
    <3> QED
      BY <2>2, <3>2 DEF CloseFailed
  <2>3. CASE CancelLogin \/ CloseExpired \/ CancelSettings
    BY <2>3 DEF CancelLogin, CloseExpired, CancelSettings
  <2> QED
    BY <2>1, <2>2, <2>3
<1>4. Keeps /\ HeadKept
  BY <1>1, <1>3 DEF Keeps, HeadKept, daemon
<1>5. ListInv' /\ UsedInv'
  BY <1>1, <1>2, <1>4, SameLists, KeepsUsed DEF daemon
<1>6. CASE LoginReturns \/ CancelLogin \/ CancelSettings \/ CloseFailed
  <2>1. Close
    BY <1>6 DEF LoginReturns, CancelLogin, CancelSettings, CloseFailed
  <2> QED
    BY <1>1, <1>2, <1>4, <1>5, <2>1, SameDialogs DEF Core
<1>7. CASE CloseExpired
  <2>1. PICK id \in Ids : dialogs' = <<LoginDialog(id, TRUE, FALSE)>> \o Tail(dialogs)
    <3>1. top \in ExpiredBoxes
      BY <1>2, <1>7, DialogKinds DEF CloseExpired, TopIs
    <3> QED
      BY <1>7, <3>1 DEF CloseExpired, ExpiredBoxes
  <2>2. PICK d \in Dialogs : d = LoginDialog(id, TRUE, FALSE) /\ d.kind # "settings" /\ DialogInv(d)'
    BY NewLogin
  <2>3. PICK q : q = Tail(dialogs)
    OBVIOUS
  <2>4. q \in Seq(Dialogs) /\ Good(q)'
    BY <1>1, <1>2, <1>4, <2>3, OldDialogs
  <2>5. DialogsInv'
    BY <2>1, <2>2, <2>3, <2>4, NewDialog
  <2> QED
    BY <1>5, <2>5 DEF Core
<1> QED
  BY <1>6, <1>7

\* Answers and timers that change neither the list nor the table
LEMMA AnswersKeep ==
    ASSUME IInv, RefreshTimer \/ ServerAnswers \/ NetworkFails \/ TokensAnswered
    PROVE  Core'
<1>1. /\ phase = "running" /\ UNCHANGED <<phase, accounts, rows, synced, dialogs, hist>>
      /\ \A id \in keyed' : id \in keyed \/ id \in {r.id : r \in tokenReqs}
      /\ tokenReqs' \subseteq tokenReqs
  BY DEF RefreshTimer, ServerAnswers, NetworkFails, ListAnswered, TokensAnswered, Running, daemon
<1>2. WindowsType /\ ListInv /\ UsedInv /\ DialogsInv
  BY <1>1, RunningFacts DEF IInv
<1>3. Keeps /\ HeadKept
  BY <1>1, <1>2 DEF UsedInv, Keeps, HeadKept
<1> QED
  BY <1>1, <1>2, <1>3, SameLists, KeepsUsed, SameDialogs DEF Core

LEMMA TokensFailedKeeps ==
    ASSUME IInv, TokensFailed
    PROVE  Core'
<1>1. PICK r \in tokenReqs :
        /\ Running
        /\ tokenReqs' = tokenReqs \ {r}
        /\ Open([kind |-> "failed", id |-> r.id, left |-> r.left])
        /\ UNCHANGED <<phase, accounts, rows, daemon, refreshing, hist>>
  BY DEF TokensFailed
<1>2. phase = "running"
  BY <1>1 DEF Running
<1>3. WindowsType /\ RequestsType /\ ListInv /\ UsedInv /\ DialogsInv
  BY <1>2, RunningFacts DEF IInv
<1>4. Keeps /\ HeadKept
  BY <1>1 DEF Keeps, HeadKept, daemon
<1>5. PICK d \in Dialogs : d = [kind |-> "failed", id |-> r.id, left |-> r.left]
  BY <1>3 DEF RequestsType, TokenRequests, Dialogs, TokenBoxes
<1>6. r.id \in hist'.used
  BY <1>1, <1>2, <1>3 DEF UsedInv
<1>7. DialogInv(d)'
  BY <1>5, <1>6 DEF DialogInv
<1>8. DialogsInv'
  BY <1>1, <1>3, <1>4, <1>5, <1>7, Opened DEF Open
<1> QED
  BY <1>1, <1>2, <1>3, <1>4, <1>8, SameLists, KeepsUsed DEF Core, daemon

\* A list that is refused ends the login of the account that is current by then.
LEMMA DeliveredKeeps ==
    ASSUME IInv, ListDelivered \/ StaleDelivered
    PROVE  Core'
<1>1. /\ phase = "running" /\ UNCHANGED <<phase, synced, tokenReqs, hist>>
      /\ InvalidateCurrentLogin \/ UNCHANGED <<accounts, rows, keyed, dialogs>>
  BY DEF ListDelivered, StaleDelivered, OnRefreshed, Running
<1>2. WindowsType /\ ListsType /\ ListInv /\ UsedInv /\ DialogsInv
  BY <1>1, RunningFacts DEF IInv
<1>3. CASE UNCHANGED <<accounts, rows, keyed, dialogs>>
  <2>1. Keeps /\ HeadKept
    BY <1>1, <1>3, Quiet
  <2> QED
    BY <1>1, <1>2, <1>3, <2>1, SameLists, KeepsUsed, SameDialogs DEF Core
<1>4. CASE InvalidateCurrentLogin /\ IsValid(currentAccount)
  <2>1. PICK id : id = currentAccount.id
    OBVIOUS
  <2>2. /\ ClearAccountToken(id) /\ keyed' = clearSyncToken(id)
        /\ Open([kind |-> "expired", id |-> id, intact |-> TRUE])
    BY <1>4, <2>1 DEF InvalidateCurrentLogin, ClearAccountToken
  <2>3. Keeps /\ HeadKept /\ ListInv' /\ UsedInv'
    BY <1>1, <2>2, LogoutKeeps
  <2>4. id \in Ids
    BY <1>2, <1>4, <2>1, CurrentProperties DEF ListsType, currentAccount, Accounts
  <2>5. PICK d \in Dialogs : d = [kind |-> "expired", id |-> id, intact |-> TRUE]
    BY <2>4 DEF Dialogs, ExpiredBoxes
  <2>6. DialogInv(d)'
    BY <2>5 DEF DialogInv
  <2>7. DialogsInv'
    BY <1>2, <2>2, <2>3, <2>5, <2>6, Opened DEF Open
  <2> QED
    BY <2>3, <2>7 DEF Core
<1> QED
  BY <1>1, <1>3, <1>4 DEF InvalidateCurrentLogin

LEMMA RevokeKeeps ==
    ASSUME IInv, Revoke
    PROVE  Core'
<1>1. PICK id \in Ids :
        /\ phase = "running"
        /\ accounts' = [i \in DOMAIN accounts |-> Spoilt(accounts[i], id)]
        /\ rows' = [i \in DOMAIN rows |-> Spoilt(rows[i], id)]
        /\ dialogs' = [i \in DOMAIN dialogs |->
              IF dialogs[i].kind = "settings"
              THEN [dialogs[i] EXCEPT !.account = Spoilt(dialogs[i].account, id)]
              ELSE dialogs[i]]
        /\ UNCHANGED <<phase, daemon, tokenReqs, hist>>
  BY DEF Revoke
<1>2. /\ WindowsType /\ ListsType /\ SameAccounts /\ Range(accounts) \subseteq Accounts
      /\ ListInv /\ UsedInv /\ DialogsInv
  BY <1>1, RunningFacts DEF IInv
<1>3. ASSUME NEW s \in Seq(Accounts), NEW t, t = [i \in DOMAIN s |-> Spoilt(s[i], id)]
      PROVE  /\ t \in Seq(Accounts) /\ Len(t) = Len(s) /\ (Distinct(s) => Distinct(t))
             /\ Range(t) = {Spoilt(x, id) : x \in Range(s)}
             /\ \A i \in 1..Len(s) : t[i].id = s[i].id
  <2>1. DOMAIN s = 1..Len(s) /\ Range(s) = {s[i] : i \in 1..Len(s)} /\ \A i \in 1..Len(s) : s[i] \in Accounts
    BY LenProperties, InRange, ElementOfSeq
  <2>2. t = [i \in DOMAIN s |-> t[i]] /\ \A i \in DOMAIN s : t[i] = Spoilt(s[i], id)
    BY <1>3
  <2>3. \A i \in DOMAIN s : s[i] \in Accounts => t[i] \in Accounts /\ t[i].id = s[i].id
    BY <2>2, SpoiltProperties
  <2>4. /\ t \in Seq(Accounts) /\ Len(t) = Len(s) /\ (Distinct(s) => Distinct(t))
        /\ Range(t) = {t[i] : i \in 1..Len(s)}
    BY <2>2, <2>3, MappedList
  <2> QED
    BY <2>1, <2>2, <2>3, <2>4
<1>4. PICK s : s = accounts'
  OBVIOUS
<1>5. PICK t : t = rows'
  OBVIOUS
<1>6. /\ Distinct(s) /\ Len(s) = Len(accounts) /\ Range(s) = {Spoilt(x, id) : x \in Range(accounts)}
      /\ s \in Seq(Accounts) /\ \A i \in 1..Len(accounts) : s[i].id = accounts[i].id
  BY <1>1, <1>2, <1>3, <1>4 DEF ListsType, SameAccounts
<1>7. Range(t) = {Spoilt(x, id) : x \in Range(rows)}
  BY <1>1, <1>2, <1>3, <1>5 DEF ListsType
<1>8. SameAccounts'
  BY <1>2, <1>4, <1>5, <1>6, <1>7, RangesNext DEF SameAccounts
<1>9. \A x \in Range(s) : \E y \in Range(accounts) : y.id = x.id /\ y.auto = x.auto /\ (IsValid(x) => IsValid(y))
  BY <1>2, <1>6, SpoiltProperties
<1>10. Keeps
  BY <1>1, <1>4, <1>9 DEF Keeps, daemon
<1>11. HeadKept
  <2>1. accounts # <<>> => accounts' # <<>> /\ accounts'[1].id = accounts[1].id
    <3>1. Len(accounts) \in Nat /\ (accounts # <<>> => Len(accounts) # 0) /\ (Len(s) # 0 => s # <<>>)
      BY <1>2, <1>6, EmptySeq, LenProperties DEF ListsType
    <3> QED
      BY <1>4, <1>6, <3>1
  <2> QED
    BY <1>1, <2>1 DEF HeadKept
<1>12. ListInv'
  <2>1. \A r \in Range(rows) : Spoilt(r, id) \in Range(rows') /\ Spoilt(r, id).id = r.id
    BY <1>2, <1>5, <1>7, SpoiltProperties DEF SameAccounts
  <2> QED
    BY <1>1, <1>2, <1>8, <2>1, LibrariesKept DEF ListInv, SameAccounts, daemon
<1>13. UsedInv'
  BY <1>1, <1>2, <1>10, KeepsUsed
<1>14. PICK q : q = dialogs'
  OBVIOUS
<1>15. ASSUME NEW i \in DOMAIN dialogs, dialogs[i] \in Dialogs
       PROVE  /\ q[i] \in Dialogs /\ q[i].kind = dialogs[i].kind
              /\ \A d : d = dialogs[i] /\ DialogInv(d)' => DialogInv(q[i])'
  <2>1. CASE dialogs[i].kind = "settings"
    <3>1. q[i] = [dialogs[i] EXCEPT !.account = Spoilt(dialogs[i].account, id)]
      BY <1>1, <1>14, <2>1
    <3>2. dialogs[i] \in SettingsDialogs /\ dialogs[i].account \in Accounts
      BY <1>15, <2>1, DialogKinds DEF SettingsDialogs
    <3>3. PICK a \in Accounts : a = Spoilt(dialogs[i].account, id)
      BY <3>2, SpoiltProperties
    <3>4. /\ a.id = dialogs[i].account.id /\ a.auto = dialogs[i].account.auto
          /\ IsValid(a) <=> IsValid(dialogs[i].account)
      BY <3>2, <3>3, SpoiltProperties
    <3>5. q[i] \in Dialogs /\ q[i].kind = "settings" /\ q[i].account = a
      BY <3>1, <3>2, <3>3 DEF SettingsDialogs, Dialogs
    <3>6. ASSUME NEW d, d = dialogs[i], DialogInv(d)' PROVE DialogInv(q[i])'
      BY <2>1, <3>4, <3>5, <3>6 DEF DialogInv, IsValid
    <3> QED
      BY <2>1, <3>5, <3>6
  <2>2. CASE dialogs[i].kind # "settings"
    <3>1. q[i] = dialogs[i]
      BY <1>1, <1>14, <2>2
    <3> QED
      BY <1>15, <3>1
  <2> QED
    BY <2>1, <2>2
<1>16. q = [i \in DOMAIN dialogs |-> q[i]]
  BY <1>1, <1>14
<1>17. DialogsInv'
  BY <1>2, <1>10, <1>11, <1>14, <1>15, <1>16, MappedDialogs
<1> QED
  BY <1>12, <1>13, <1>17 DEF Core

LEMMA ReplaceProperties ==
    ASSUME NEW s \in Seq(Accounts), Distinct(s), NEW old, Has(s, old), NEW a \in Accounts, ~Has(s, a.id)
    PROVE  /\ Distinct(Replace(s, old, a))
           /\ Range(Replace(s, old, a)) = {a} \cup {x \in Range(s) : x.id # old}
<1>1. /\ DOMAIN s = 1..Len(s) /\ Len(s) \in Nat /\ Range(s) = {s[i] : i \in 1..Len(s)}
  BY LenProperties, InRange
<1>2. PICK k \in 1..Len(s) : k = Place(s, old) /\ s[k].id = old
  BY PlaceProperties
<1>3. PICK t : t = [s EXCEPT ![k] = a]
  OBVIOUS
<1>4. Replace(s, old, a) = t
  BY <1>2, <1>3 DEF Replace
<1>5. /\ t \in Seq(Accounts) /\ Len(t) = Len(s)
      /\ \A j \in 1..Len(s) : t[j] = IF j = k THEN a ELSE s[j]
  BY <1>3, ExceptSeq
<1>6. DOMAIN t = 1..Len(s) /\ Range(t) = {t[i] : i \in 1..Len(s)}
  BY <1>5, LenProperties, InRange
<1>7. \A j \in 1..Len(s) : s[j].id # a.id /\ (s[j].id = old => j = k)
  BY <1>1, <1>2 DEF Has, Distinct
<1>8. Distinct(t)
  <2>1. ASSUME NEW i \in 1..Len(s), NEW j \in 1..Len(s), t[i].id = t[j].id PROVE i = j
    <3>1. CASE i # k /\ j # k
      BY <1>1, <1>5, <2>1, <3>1 DEF Distinct
    <3>2. CASE i = k \/ j = k
      BY <1>5, <1>7, <2>1, <3>2
    <3> QED
      BY <3>1, <3>2
  <2> QED
    BY <1>6, <2>1 DEF Distinct
<1>9. Range(t) = {a} \cup {x \in Range(s) : x.id # old}
  <2>1. \A x \in Range(t) : x \in {a} \cup {y \in Range(s) : y.id # old}
    BY <1>1, <1>5, <1>6, <1>7
  <2>2. \A x \in {a} \cup {y \in Range(s) : y.id # old} : x \in Range(t)
    BY <1>1, <1>2, <1>5, <1>6
  <2> QED
    BY <2>1, <2>2
<1> QED
  BY <1>4, <1>8, <1>9

\* An account gets an address that no other account has.
LEMMA SubmitSettingsKeeps ==
    ASSUME IInv, SubmitSettings, ~EditToExisting
    PROVE  Core'
<1>1. phase = "running" /\ dialogs # <<>> /\ top.kind = "settings"
  BY DEF SubmitSettings, TopIs, Running
<1>2. /\ DaemonType /\ ListsType /\ SameAccounts /\ Range(accounts) \subseteq Accounts /\ SessionType
      /\ RequestsType /\ ListInv /\ UsedInv
      /\ top \in SettingsDialogs /\ DialogInv(top) /\ Tail(dialogs) = <<>>
  BY <1>1, RunningFacts, TopInv, DialogKinds DEF IInv
<1>3. PICK old \in Ids : old = top.account.id
  BY <1>2 DEF SettingsDialogs, Accounts
<1>4. PICK new \in Ids :
            LET o == top.account.id
                a == [top.account EXCEPT !.id = new]
                list == Replace(accounts, o, a)
            IN /\ new # o
               /\ ~Has(accounts, new)
               /\ accounts' = list
               /\ rows' = ReplaceRow(o, a)
               /\ synced' = Renamed(synced, o, new)
               /\ keyed' = Renamed(keyed, o, new)
               /\ tokenReqs' = {IF r.id = o THEN [r EXCEPT !.id = new] ELSE r : r \in tokenReqs}
               /\ hist' = [hist EXCEPT !.used = Renamed(hist.used, o, new)]
               /\ Close
               /\ UNCHANGED phase
  BY DEF SubmitSettings
<1>5. PICK a \in Accounts : a = [top.account EXCEPT !.id = new]
  BY <1>2 DEF SettingsDialogs, Accounts
<1>6. a.id = new /\ a.auto = top.account.auto /\ (IsValid(a) <=> IsValid(top.account))
  BY <1>2, <1>5 DEF SettingsDialogs, Accounts, IsValid
<1>7. /\ new # old /\ ~Has(accounts, new)
      /\ accounts' = Replace(accounts, old, a) /\ rows' = ReplaceRow(old, a)
      /\ synced' = Renamed(synced, old, new) /\ keyed' = Renamed(keyed, old, new)
      /\ tokenReqs' = {IF r.id = old THEN [r EXCEPT !.id = new] ELSE r : r \in tokenReqs}
      /\ hist' = [hist EXCEPT !.used = Renamed(hist.used, old, new)]
      /\ Close /\ UNCHANGED phase
  BY <1>3, <1>4, <1>5
<1>8. /\ \A id : Has(accounts, id) <=> \E x \in Range(accounts) : x.id = id
      /\ \A id : Has(rows, id) <=> \E x \in Range(accounts) : x.id = id
  BY <1>2, DistinctRange DEF ListsType, SameAccounts
<1>9. /\ SameAccounts'
      /\ \A x \in Range(accounts') :
             \/ x = a /\ \E y \in Range(accounts) : y.id = old
             \/ x \in Range(accounts) /\ x.id # old
      /\ \A x \in Range(accounts) : x.id # old => x \in Range(accounts')
      /\ (\E y \in Range(accounts) : y.id = old) => a \in Range(accounts')
  <2>1. CASE \E y \in Range(accounts) : y.id = old
    <3>1. Has(accounts, old) /\ Has(rows, old) /\ ~Has(rows, a.id) /\ ~Has(accounts, a.id)
      BY <1>6, <1>7, <1>8, <2>1
    <3>2. Distinct(accounts') /\ Range(accounts') = {a} \cup {x \in Range(accounts) : x.id # old}
      BY <1>2, <1>7, <3>1, ReplaceProperties DEF ListsType, SameAccounts
    <3>3. PICK w : w = Without(rows, old)
      OBVIOUS
    <3>4. w \in Seq(Accounts) /\ Distinct(w) /\ Range(w) = {x \in Range(rows) : x.id # old}
      BY <1>2, <3>3, WithoutProperties DEF ListsType
    <3>5. \A x \in Range(w) : x.id # a.id
      BY <1>2, <1>6, <1>7, <1>8, <3>4 DEF SameAccounts
    <3>6. Range(<<a>> \o w) = {a} \cup Range(w)
      BY <3>4, <3>5, FirstAdded
    <3>7. rows' = <<a>> \o w
      BY <1>7, <3>1, <3>3 DEF ReplaceRow
    <3>8. Range(rows') = Range(accounts')
      BY <1>2, <3>2, <3>4, <3>6, <3>7 DEF SameAccounts
    <3> QED
      BY <2>1, <3>2, <3>8, RangesNext DEF SameAccounts
  <2>2. CASE \A y \in Range(accounts) : y.id # old
    <3>1. accounts' = accounts /\ rows' = rows
      BY <1>7, <1>8, <2>2 DEF Replace, ReplaceRow
    <3> QED
      BY <1>2, <2>2, <3>1, RangesNext DEF SameAccounts
  <2> QED
    BY <2>1, <2>2
<1>10. /\ \A s \in synced : \E x \in Range(accounts) : x.id = s
       /\ keyed \subseteq synced /\ new \notin keyed /\ new \notin synced
  BY <1>2, <1>7, <1>8 DEF ListInv, SameAccounts, DaemonType
<1>11. ListInv'
  <2>1. \A s \in synced' : \E x \in Range(accounts') : x.id = s
    BY <1>6, <1>7, <1>9, <1>10 DEF Renamed
  <2>2. synced' \subseteq {r.id : r \in Range(rows')}
    BY <1>9, <2>1, RangesNext DEF SameAccounts
  <2> QED
    BY <1>9, <2>2, RangesNext DEF ListInv, SameAccounts
<1>12. hist'.used = Renamed(hist.used, old, new)
  BY <1>2, <1>7 DEF SessionType
<1>13. ASSUME NEW x \in Range(accounts'), IsValid(x) \/ (~x.auto /\ x.id \in keyed')
       PROVE  x.id \in hist'.used
  <2>1. CASE x \in Range(accounts) /\ x.id # old
    <3>1. x.id # new
      BY <1>7, <1>8, <2>1
    <3>2. x.id \in keyed' => x.id \in keyed
      BY <1>7, <3>1 DEF Renamed
    <3>3. x.id \in hist.used
      BY <1>1, <1>2, <1>13, <2>1, <3>2 DEF UsedInv
    <3> QED
      BY <1>12, <2>1, <3>3 DEF Renamed
  <2>2. CASE x = a /\ \E y \in Range(accounts) : y.id = old
    <3>1. PICK y \in Range(accounts) : y.id = old
      BY <2>2
    <3>2. old \in hist.used
      <4>1. CASE IsValid(top.account)
        BY <1>1, <1>2, <1>3, <4>1 DEF DialogInv
      <4>2. CASE ~IsValid(top.account)
        <5>1. ~a.auto /\ old \in keyed
          BY <1>6, <1>7, <1>10, <1>13, <2>2, <4>2 DEF Renamed
        <5>2. y.auto = a.auto \/ old \in hist.used
          BY <1>1, <1>2, <1>3, <1>6, <3>1 DEF DialogInv
        <5>3. CASE y.auto = a.auto
          BY <1>1, <1>2, <3>1, <5>1, <5>3 DEF UsedInv
        <5> QED
          BY <5>2, <5>3
      <4> QED
        BY <4>1, <4>2
    <3> QED
      BY <1>6, <1>12, <2>2, <3>2 DEF Renamed
  <2> QED
    BY <1>9, <2>1, <2>2
<1>14. ASSUME NEW r \in tokenReqs' PROVE r.id \in hist'.used
  <2>1. PICK o \in tokenReqs : r = IF o.id = old THEN [o EXCEPT !.id = new] ELSE o
    BY <1>7
  <2>2. o.id \in hist.used /\ o \in TokenRequests
    BY <1>1, <1>2 DEF UsedInv, RequestsType
  <2>3. CASE o.id = old
    BY <1>12, <2>1, <2>2, <2>3 DEF Renamed, TokenRequests
  <2>4. CASE o.id # old
    BY <1>12, <2>1, <2>2, <2>4 DEF Renamed
  <2> QED
    BY <2>3, <2>4
<1>15. UsedInv'
  BY <1>13, <1>14, RangesNext DEF UsedInv, IsValid
<1>16. DialogsInv'
  BY <1>2, <1>7 DEF Close, DialogsInv
<1> QED
  BY <1>11, <1>15, <1>16 DEF Core

LEMMA NonautoProperties ==
    ASSUME NEW s \in Seq(Accounts)
    PROVE  \A id : id \in NonautoIds(s) <=> \E x \in Range(s) : x.id = id /\ ~x.auto
<1>1. DOMAIN s = 1..Len(s) /\ Range(s) = {s[i] : i \in 1..Len(s)}
  BY LenProperties, InRange
<1> QED
  BY <1>1 DEF NonautoIds

LEMMA StartKeeps ==
    ASSUME IInv, TypeOK', Start
    PROVE  Core'
<1>1. ListsType /\ WindowsType /\ Distinct(rows) /\ ListInv /\ OffInv /\ phase = "off"
  BY TypeParts DEF IInv, ListsType, Start
<1>2. PICK list \in Seq(Accounts) : list = loadAccounts /\ Distinct(list) /\ Range(list) = Range(rows)
  BY <1>1, LoadProperties DEF ListsType
<1>3. PICK a : a = CurrentIn(list)
  OBVIOUS
<1>4. /\ a.id \in Ids \cup {NoId}
      /\ a.id # NoId => a \in Accounts /\ a \in Range(list)
  BY <1>3, CurrentProperties
<1>5. /\ phase' = "running"
      /\ keyed' = RemoveNonautoLoginSyncTokens(rows)
      /\ \/ a.id # NoId /\ SetCurrentAccount(list, a) /\ dialogs' = <<>>
         \/ /\ accounts' = IF a.auto THEN list ELSE Forget(list, a.id)
            /\ rows' = IF a.auto THEN rows ELSE Forget(rows, a.id)
            /\ dialogs' = <<LoginDialog(a.id, a.id # NoId, FALSE)>>
      /\ hist' = [used |-> {id \in Ids : \E i \in DOMAIN accounts' : accounts'[i].id = id /\ IsValid(accounts'[i])},
                  clean |-> FALSE]
      /\ UNCHANGED <<synced, tokenReqs>>
  BY <1>2, <1>3 DEF Start
<1>6. Range(rows) \subseteq Accounts
  BY <1>1, InRange DEF ListsType
<1>7. /\ SameAccounts'
      /\ \A x \in Range(accounts') : \E y \in Range(rows) : y.id = x.id /\ y.auto = x.auto
      /\ \A y \in Range(rows) : \E x \in Range(accounts') : x.id = y.id
  <2>1. CASE a.id # NoId /\ SetCurrentAccount(list, a)
    <3>1. /\ SameAccounts'
          /\ Range(accounts') = {a} \cup {x \in Range(list) : x.id # a.id}
      BY <1>1, <1>2, <1>4, <2>1, SetCurrentLists
    <3> QED
      BY <1>2, <1>4, <2>1, <3>1
  <2>2. CASE /\ accounts' = IF a.auto THEN list ELSE Forget(list, a.id)
             /\ rows' = IF a.auto THEN rows ELSE Forget(rows, a.id)
    <3>1. /\ Distinct(Forget(list, a.id)) /\ Range(Forget(list, a.id)) = ForgottenIn(Range(list), a.id)
          /\ Range(Forget(rows, a.id)) = ForgottenIn(Range(rows), a.id)
      BY <1>1, <1>2, ForgetProperties DEF ListsType, ForgottenIn
    <3>2. SameAccounts' /\ (Range(accounts') = Range(rows) \/ Range(accounts') = ForgottenIn(Range(rows), a.id))
      BY <1>2, <2>2, <3>1, RangesNext DEF SameAccounts
    <3>3. /\ \A x \in ForgottenIn(Range(rows), a.id) : \E y \in Range(rows) : y.id = x.id /\ y.auto = x.auto
          /\ \A y \in Range(rows) : \E x \in ForgottenIn(Range(rows), a.id) : x.id = y.id
      BY <1>6, ForgottenProperties
    <3> QED
      BY <3>2, <3>3
  <2> QED
    BY <1>5, <2>1, <2>2
<1>8. ListInv'
  <2>1. \A r \in Range(rows) : \E s \in Range(rows') : s.id = r.id
    BY <1>7, RangesNext DEF SameAccounts
  <2> QED
    BY <1>1, <1>5, <1>7, <2>1, LibrariesKept DEF ListInv, SameAccounts
<1>9. ASSUME NEW x \in Range(accounts'), IsValid(x) PROVE x.id \in hist'.used
  <2>1. PICK s : s = accounts'
    OBVIOUS
  <2>2. s \in Seq(Accounts)
    BY <2>1, TypeParts DEF ListsType
  <2>3. PICK i \in DOMAIN s : x = s[i] /\ x \in Accounts
    BY <1>9, <2>1, <2>2, InRange DEF Range
  <2>4. x.id \in Ids
    BY <2>3 DEF Accounts
  <2> QED
    BY <1>5, <1>9, <2>1, <2>3, <2>4
<1>10. ASSUME NEW x \in Range(accounts'), ~x.auto PROVE x.id \notin keyed'
  <2>1. x.id \in NonautoIds(rows)
    BY <1>1, <1>7, <1>10, NonautoProperties DEF ListsType
  <2> QED
    BY <1>5, <2>1 DEF RemoveNonautoLoginSyncTokens
<1>11. tokenReqs' = {}
  BY <1>1, <1>5 DEF OffInv
<1>12. UsedInv'
  BY <1>9, <1>10, <1>11, RangesNext DEF UsedInv, IsValid
<1>13. DialogsInv'
  <2>1. CASE dialogs' = <<>>
    BY <2>1 DEF DialogsInv
  <2>2. CASE dialogs' = <<LoginDialog(a.id, a.id # NoId, FALSE)>>
    <3>1. (a.id # NoId) \in BOOLEAN /\ (a.id # NoId => a.id \in Ids)
      BY <1>4
    <3>2. PICK d \in Dialogs : d = LoginDialog(a.id, a.id # NoId, FALSE) /\ d.kind # "settings" /\ DialogInv(d)'
      BY <1>4, <3>1, NewLogin
    <3>3. PICK q : q = <<d>>
      OBVIOUS
    <3>4. DOMAIN q = {1} /\ q[1] = d
      BY <3>3
    <3>5. Good(q)'
      BY <3>2, <3>4 DEF Good
    <3> QED
      BY <2>2, <3>2, <3>3, <3>5, DialogsNext
  <2> QED
    BY <1>5, <2>1, <2>2
<1> QED
  BY <1>8, <1>12, <1>13 DEF Core

\* The client is gone, and has forgotten what it must if it quit.
LEMMA GoneKeeps ==
    ASSUME IInv, TypeOK', Quit \/ Crash
    PROVE  IInv'
<1>1. /\ ListsType /\ SameAccounts /\ ListInv /\ phase = "running"
      /\ DOMAIN rows = 1..Len(rows) /\ \A i \in 1..Len(rows) : rows[i] \in Accounts
  <2>1. phase = "running"
    BY DEF Quit, Crash
  <2>2. ListsType /\ SameAccounts /\ ListInv
    BY <2>1, RunningFacts DEF IInv
  <2> QED
    BY <2>1, <2>2, LenProperties, ElementOfSeq DEF ListsType
<1>2. OffInv' /\ DialogsInv' /\ UsedInv'
  BY DEF Quit, Crash, Gone, OffInv, DialogsInv, UsedInv
<1>3. CASE Quit
  <2>1. PICK t : t = rows'
    OBVIOUS
  <2>2. t = [i \in DOMAIN rows |-> IF rows[i].id \in NonautoIds(accounts) THEN Forgotten(rows[i]) ELSE rows[i]]
    BY <1>3, <2>1 DEF Quit, LogoutDeviceNonautoLogin, Forgotten
  <2>3. DOMAIN t = DOMAIN rows /\ \A i \in DOMAIN rows : t[i].id = rows[i].id /\ t[i].auto = rows[i].auto
    BY <1>1, <2>2 DEF Forgotten, Accounts
  <2>4. {r.id : r \in Range(t)} = {r.id : r \in Range(rows)}
    BY <2>3 DEF Range
  <2>5. ListInv'
    BY <1>1, <1>3, <2>1, <2>4, RangesNext DEF ListInv, Quit, Gone
  <2>6. ASSUME NEW i \in DOMAIN t, ~t[i].auto PROVE ~IsValid(t[i]) /\ t[i].id \notin keyed'
    <3>1. rows[i] \in Range(accounts) /\ ~rows[i].auto /\ t[i].id = rows[i].id
      BY <1>1, <2>3, <2>6 DEF SameAccounts, Range
    <3>2. rows[i].id \in NonautoIds(accounts)
      BY <1>1, <3>1, NonautoProperties DEF ListsType
    <3>3. t[i] = Forgotten(rows[i]) /\ rows[i] \in Accounts
      BY <1>1, <2>2, <2>3, <3>2
    <3>4. ~IsValid(t[i])
      BY <3>3 DEF Forgotten, Accounts, IsValid
    <3> QED
      BY <1>3, <3>1, <3>2, <3>4 DEF Quit, LogoutDeviceNonautoLogin
  <2>7. QuitForgets'
    BY <2>1, <2>6 DEF QuitForgets, IsValid
  <2> QED
    BY <1>2, <2>5, <2>7 DEF IInv
<1>4. CASE Crash
  <2>1. ListInv'
    BY <1>1, <1>4, RangesNext DEF Crash, Gone, ListInv, daemon
  <2>2. QuitForgets'
    BY <1>4 DEF Crash, QuitForgets
  <2> QED
    BY <1>2, <2>1, <2>2 DEF IInv
<1> QED
  BY <1>3, <1>4

LEMMA StutterKeeps ==
    ASSUME IInv, UNCHANGED vars
    PROVE  IInv'
<1>1. TypeOK'
  BY NextTypes DEF IInv
<1>2. OffInv' /\ ListInv' /\ UsedInv' /\ DialogsInv' /\ QuitForgets'
  <2>1. UNCHANGED <<phase, accounts, rows, synced, keyed, dialogs, tokenReqs, hist>>
    BY DEF vars, daemon
  <2>2. OffInv' /\ ListInv' /\ QuitForgets'
    BY <2>1, SameLists DEF IInv, OffInv, QuitForgets
  <2>3. Keeps /\ HeadKept /\ WindowsType
    BY <2>1, Quiet, TypeParts DEF IInv
  <2>4. UsedInv'
    BY <2>1, RangesNext DEF IInv, UsedInv
  <2> QED
    BY <2>1, <2>2, <2>3, <2>4, SameDialogs DEF IInv
<1> QED
  BY <1>1, <1>2 DEF IInv

LEMMA InitInv == Init => IInv
<1> SUFFICES ASSUME Init PROVE IInv
  OBVIOUS
<1>1. TypeOK
  BY InitTypes
<1>2. OffInv /\ ListInv /\ UsedInv /\ DialogsInv /\ QuitForgets
  BY DEF Init, OffInv, ListInv, UsedInv, DialogsInv, QuitForgets
<1> QED
  BY <1>1, <1>2 DEF IInv

LEMMA NextInv ==
    ASSUME IInv, [Next]_vars, ~EditToExisting
    PROVE  IInv'
<1>1. TypeOK'
  BY NextTypes DEF IInv
<1>2. CASE Quit \/ Crash
  BY <1>1, <1>2, GoneKeeps
<1>3. CASE UNCHANGED vars
  BY <1>3, StutterKeeps
<1>4. CASE Start
  <2>1. phase' = "running"
    BY <1>4 DEF Start
  <2> QED
    BY <1>1, <1>4, <2>1, StartKeeps, CoreIsEnough
<1>5. CASE \/ SwitchAccount \/ ToggleAccount \/ DeleteAccount \/ AddAccount \/ OpenSettings \/ SyncLibrary
           \/ LoginSucceeds \/ LoginReturns \/ CancelLogin \/ CloseExpired \/ SubmitSettings \/ CancelSettings
           \/ RefreshTimer \/ ServerAnswers \/ NetworkFails \/ ListDelivered \/ StaleDelivered
           \/ TokensAnswered \/ TokensFailed \/ CloseFailed \/ Revoke
  <2>1. phase' = "running"
    BY <1>5 DEF SwitchAccount, ToggleAccount, DeleteAccount, AddAccount, OpenSettings, SyncLibrary, LoginSucceeds,
       LoginReturns, CancelLogin, CloseExpired, SubmitSettings, CancelSettings, RefreshTimer, ServerAnswers,
       NetworkFails, ListAnswered, ListDelivered, StaleDelivered, OnRefreshed, TokensAnswered, TokensFailed,
       CloseFailed, Revoke, Idle, TopIs, Running
  <2>2. Core'
    BY <1>5, SwitchAccountKeeps, ToggleAccountKeeps, DeleteAccountKeeps, AddAccountKeeps, OpenSettingsKeeps,
       SyncLibraryKeeps, LoginSucceedsKeeps, ClosedKeeps, SubmitSettingsKeeps, AnswersKeep, TokensFailedKeeps,
       DeliveredKeeps, RevokeKeeps
  <2> QED
    BY <1>1, <2>1, <2>2, CoreIsEnough
<1> QED
  BY <1>2, <1>3, <1>4, <1>5 DEF Next

-----------------------------------------------------------------------------
(* The theorems, as long as the user gives no account the address of       *)
(* another one: replaceAccount then leaves the list with two entries for   *)
(* an account that the table has once.                                     *)

\* List, table, daemon, dialogs and exit fit together: the invariant on which the
\* three theorems below rest.
THEOREM AccountsInvariant == ASSUME ~EditToExisting PROVE Spec => []IInv
<1>1. Init => IInv
  BY InitInv
<1>2. IInv /\ [Next]_vars => IInv'
  BY NextInv
<1> QED
  BY <1>1, <1>2, PTL DEF Spec

\* A client that is killed at any moment finds its accounts in the table as they
\* were in memory, none twice and none missing.
THEOREM TableIsMemory == ASSUME ~EditToExisting PROVE Spec => []MemoryMatchesDb
<1>1. IInv => MemoryMatchesDb
  <2> SUFFICES ASSUME IInv, phase = "running" PROVE Len(accounts) = Len(rows) /\ Range(accounts) = Range(rows)
    BY DEF MemoryMatchesDb
  <2>1. ListsType /\ SameAccounts
    BY RunningFacts
  <2>2. Cardinality(Range(accounts)) = Len(accounts) /\ Cardinality(Range(rows)) = Len(rows)
    BY <2>1, LengthIsCardinality DEF ListsType, SameAccounts
  <2> QED
    BY <2>1, <2>2 DEF SameAccounts
<1> QED
  BY <1>1, AccountsInvariant, PTL

\* No late answer, and no dialog that goes on after the accounts have changed,
\* lets the daemon sync the libraries of an account without automatic login that
\* this client has had no token of.
THEOREM NobodySyncsUnused == ASSUME ~EditToExisting PROVE Spec => []SyncNeedsLogin
<1>1. IInv => SyncNeedsLogin
  <2> SUFFICES ASSUME IInv, phase = "running", NEW i \in DOMAIN accounts,
                      ~accounts[i].auto /\ accounts[i].id \in keyed
               PROVE  accounts[i].id \in hist.used
    BY DEF SyncNeedsLogin
  <2>1. accounts[i] \in Range(accounts)
    BY RunningFacts
  <2> QED
    BY <2>1 DEF IInv, UsedInv
<1> QED
  BY <1>1, AccountsInvariant, PTL

\* A client that has quit properly has left no token of an account without
\* automatic login, in its table or in the daemon, whatever dialogs were open.
THEOREM NothingIsRemembered == ASSUME ~EditToExisting PROVE Spec => []QuitForgets
<1>1. IInv => QuitForgets
  BY DEF IInv
<1> QED
  BY <1>1, AccountsInvariant, PTL

=============================================================================
