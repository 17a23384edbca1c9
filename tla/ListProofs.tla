----------------------------- MODULE ListProofs -----------------------------
(***************************************************************************)
(* Lemmas about the lists of module Lists, stated with Listed and Distinct *)
(* so that the proofs about a component need no list index.                *)
(***************************************************************************)
EXTENDS Lists, TLAPS

LEMMA ConcatCells ==
  ASSUME NEW S, NEW l \in Seq(S), NEW r \in Seq(S)
  PROVE  /\ l \o r \in Seq(S)
         /\ Len(l \o r) = Len(l) + Len(r)
         /\ \A k \in 1..(Len(l) + Len(r)) :
              (l \o r)[k] = IF k <= Len(l) THEN l[k] ELSE r[k - Len(l)]
<1>1. l \o r \in Seq(S)
  OBVIOUS
<1>2. Len(l \o r) = Len(l) + Len(r)
  OBVIOUS
<1>3. ASSUME NEW k \in 1..(Len(l) + Len(r))
      PROVE  (l \o r)[k] = IF k <= Len(l) THEN l[k] ELSE r[k - Len(l)]
  OBVIOUS
<1> QED
  BY <1>1, <1>2, <1>3

\* Removing a cell keeps the order of the others.
LEMMA RemoveIndexCells ==
  ASSUME NEW S, NEW s \in Seq(S), NEW i \in 1..Len(s)
  PROVE  /\ RemoveIndex(s, i) \in Seq(S)
         /\ Len(RemoveIndex(s, i)) = Len(s) - 1
         /\ \A k \in 1..(Len(s) - 1) :
              RemoveIndex(s, i)[k] = IF k < i THEN s[k] ELSE s[k + 1]
<1> DEFINE l == SubSeq(s, 1, i - 1)
           r == SubSeq(s, i + 1, Len(s))
<1>1. l \in Seq(S) /\ Len(l) = i - 1 /\ \A k \in 1..(i - 1) : l[k] = s[k]
  OBVIOUS
<1>2. /\ r \in Seq(S)
      /\ Len(r) = Len(s) - i
      /\ \A k \in 1..(Len(s) - i) : r[k] = s[k + i]
  OBVIOUS
<1>4. RemoveIndex(s, i) = l \o r
  BY DEF RemoveIndex
<1> HIDE DEF l, r
<1>3. /\ l \o r \in Seq(S)
      /\ Len(l \o r) = Len(l) + Len(r)
      /\ \A k \in 1..(Len(l) + Len(r)) :
           (l \o r)[k] = IF k <= Len(l) THEN l[k] ELSE r[k - Len(l)]
  BY <1>1, <1>2, ConcatCells, Zenon
<1>5. Len(s) \in Nat /\ Len(l) + Len(r) = Len(s) - 1
  BY <1>1, <1>2
<1>6. ASSUME NEW k \in 1..(Len(s) - 1)
      PROVE  (l \o r)[k] = IF k < i THEN s[k] ELSE s[k + 1]
  <2>1. CASE k < i
    BY <1>1, <1>3, <1>5, <2>1
  <2>2. CASE k >= i
    <3>1. (l \o r)[k] = r[k - (i - 1)]
      BY <1>1, <1>3, <1>5, <2>2
    <3>2. k - (i - 1) \in 1..(Len(s) - i) /\ (k - (i - 1)) + i = k + 1
      BY <1>5, <2>2
    <3>3. r[k - (i - 1)] = s[(k - (i - 1)) + i]
      BY <1>2, <3>2
    <3>4. ~(k < i)
      BY <1>5, <2>2
    <3> QED
      BY <3>1, <3>2, <3>3, <3>4
  <2> QED
    BY <1>5, <2>1, <2>2
<1> QED
  BY <1>3, <1>4, <1>5, <1>6

\* Without removes exactly its argument from a list without repetitions.
LEMMA WithoutCells ==
  ASSUME NEW S, NEW s \in Seq(S), NEW x, Distinct(s)
  PROVE  /\ Without(s, x) \in Seq(S)
         /\ Distinct(Without(s, x))
         /\ \A y : Listed(Without(s, x), y) <=> Listed(s, y) /\ y # x
         /\ Len(Without(s, x)) <= Len(s)
<1>1. CASE ~Listed(s, x)
  BY <1>1 DEF Without, Listed
<1>2. CASE Listed(s, x)
  <2>1. PICK p \in 1..Len(s) : s[p] = x
    BY <1>2 DEF Listed
  <2> DEFINE First(i) == s[i] = x /\ \A k \in 1..(i - 1) : s[k] # x
  <2>2. First(p)
    BY <2>1 DEF Distinct
  <2>3. PICK i \in 1..Len(s) : First(i) /\ Without(s, x) = RemoveIndex(s, i)
    BY <1>2, <2>2, Zenon DEF Without
  <2> DEFINE t == RemoveIndex(s, i)
  <2>4. /\ t \in Seq(S)
        /\ Len(t) = Len(s) - 1
        /\ \A k \in 1..(Len(s) - 1) : t[k] = IF k < i THEN s[k] ELSE s[k + 1]
    BY RemoveIndexCells
  <2> HIDE DEF t
  <2>5. Distinct(t)
    BY <2>4 DEF Distinct
  <2>6. ASSUME NEW y PROVE Listed(t, y) <=> Listed(s, y) /\ y # x
    <3>1. ASSUME Listed(t, y) PROVE Listed(s, y) /\ y # x
      BY <2>3, <2>4, <3>1 DEF Listed, Distinct
    <3>2. ASSUME Listed(s, y), y # x PROVE Listed(t, y)
      <4>1. PICK k \in 1..Len(s) : s[k] = y
        BY <3>2 DEF Listed
      <4>2. k # i
        BY <2>3, <3>2, <4>1
      <4>3. CASE k < i
        BY <2>4, <4>1, <4>3 DEF Listed
      <4>4. CASE k > i
        <5>1. k - 1 \in 1..(Len(s) - 1) /\ t[k - 1] = s[k]
          BY <2>4, <4>4
        <5> QED
          BY <2>4, <4>1, <5>1 DEF Listed
      <4> QED
        BY <4>2, <4>3, <4>4
    <3> QED
      BY <3>1, <3>2
  <2>7. Without(s, x) = t /\ Len(t) <= Len(s)
    BY <2>3, <2>4 DEF t
  <2> QED
    BY <2>4, <2>5, <2>6, <2>7
<1> QED
  BY <1>1, <1>2

\* Appending a new element.
LEMMA AppendCells ==
  ASSUME NEW S, NEW s \in Seq(S), NEW x \in S, Distinct(s), ~Listed(s, x)
  PROVE  /\ Append(s, x) \in Seq(S)
         /\ Append(s, x) # <<>>
         /\ Distinct(Append(s, x))
         /\ Len(Append(s, x)) = Len(s) + 1
         /\ \A y : Listed(Append(s, x), y) <=> Listed(s, y) \/ y = x
<1> DEFINE t == Append(s, x)
<1>1. /\ t \in Seq(S) /\ t # <<>>
      /\ Len(t) = Len(s) + 1
      /\ \A i \in 1..Len(s) : t[i] = s[i]
      /\ t[Len(s) + 1] = x
  OBVIOUS
<1> HIDE DEF t
<1>2. Distinct(t)
  BY <1>1 DEF Distinct, Listed
<1>3. ASSUME NEW y PROVE Listed(t, y) <=> Listed(s, y) \/ y = x
  <2>1. ASSUME Listed(s, y) PROVE Listed(t, y)
    <3>1. PICK i \in 1..Len(s) : s[i] = y
      BY <2>1 DEF Listed
    <3>2. i \in 1..Len(t) /\ t[i] = y
      BY <1>1, <3>1
    <3> QED
      BY <3>2 DEF Listed
  <2>2. Listed(t, x)
    <3>1. Len(s) + 1 \in 1..Len(t)
      BY <1>1
    <3> QED
      BY <1>1, <3>1 DEF Listed
  <2>3. ASSUME Listed(t, y) PROVE Listed(s, y) \/ y = x
    BY <1>1, <2>3 DEF Listed
  <2> QED
    BY <2>1, <2>2, <2>3
<1> QED
  BY <1>1, <1>2, <1>3 DEF t

\* Removing the head.
LEMMA TailCells ==
  ASSUME NEW S, NEW s \in Seq(S), s # <<>>, Distinct(s)
  PROVE  /\ Head(s) \in S /\ Listed(s, Head(s))
         /\ Tail(s) \in Seq(S)
         /\ Distinct(Tail(s))
         /\ Len(Tail(s)) = Len(s) - 1
         /\ \A y : Listed(Tail(s), y) <=> Listed(s, y) /\ y # Head(s)
<1>1. Len(s) \in Nat /\ Len(s) > 0 /\ Head(s) = s[1] /\ Head(s) \in S
  OBVIOUS
<1> DEFINE t == Tail(s)
<1>2. /\ t \in Seq(S)
      /\ Len(t) = Len(s) - 1
      /\ \A i \in 1..(Len(s) - 1) : t[i] = s[i + 1]
  OBVIOUS
<1> HIDE DEF t
<1>3. Listed(s, Head(s))
  BY <1>1 DEF Listed
<1>4. Distinct(t)
  BY <1>2 DEF Distinct
<1>5. ASSUME NEW y PROVE Listed(t, y) <=> Listed(s, y) /\ y # Head(s)
  <2>1. ASSUME Listed(t, y) PROVE Listed(s, y) /\ y # Head(s)
    BY <1>1, <1>2, <2>1 DEF Listed, Distinct
  <2>2. ASSUME Listed(s, y), y # Head(s) PROVE Listed(t, y)
    <3>1. PICK i \in 1..Len(s) : s[i] = y
      BY <2>2 DEF Listed
    <3>2. i - 1 \in 1..Len(t) /\ t[i - 1] = y
      BY <1>1, <1>2, <2>2, <3>1
    <3> QED
      BY <3>2 DEF Listed
  <2> QED
    BY <2>1, <2>2
<1> QED
  BY <1>1, <1>2, <1>3, <1>4, <1>5 DEF t

\* A list is empty when nothing is listed.
LEMMA EmptyCells ==
  ASSUME NEW S, NEW s \in Seq(S)
  PROVE  s = <<>> <=> \A y : ~Listed(s, y)
<1>1. ASSUME s # <<>> PROVE Listed(s, s[1])
  BY <1>1 DEF Listed
<1>2. ASSUME s = <<>>, NEW y PROVE ~Listed(s, y)
  BY <1>2 DEF Listed
<1> QED
  BY <1>1, <1>2

\* The selected cells, in order.
LEMMA PickCells ==
  ASSUME NEW S, NEW s \in Seq(S), Distinct(s),
         NEW I \in SUBSET (1..Len(s)), NEW f \in Ascending(I, Len(s))
  PROVE  /\ Pick(s, f) \in Seq(S)
         /\ Distinct(Pick(s, f))
         /\ Len(Pick(s, f)) <= Len(s)
         /\ \A y : Listed(Pick(s, f), y) <=> \E i \in I : s[i] = y
<1> DEFINE t == Pick(s, f)
<1>1. Len(s) \in Nat
  OBVIOUS
<1>2. PICK n \in 0..Len(s) : f \in [1..n -> I]
  BY Zenon DEF Ascending
<1>3. /\ f \in [1..n -> I]
      /\ \A a, b \in 1..n : a < b => f[a] < f[b]
      /\ \A i \in I : \E a \in 1..n : f[a] = i
  <2>1. DOMAIN f = 1..n
    BY <1>2
  <2> QED
    BY <1>2, <2>1, Zenon DEF Ascending
<1>4. t = [k \in 1..n |-> s[f[k]]]
  BY <1>3 DEF Pick
<1> HIDE DEF t
<1>5. ASSUME NEW k \in 1..n PROVE s[f[k]] \in S
  <2>1. f[k] \in 1..Len(s)
    BY <1>3, Zenon
  <2> QED
    BY <2>1
<1>6. t \in [1..n -> S]
  BY <1>4, <1>5
<1>7. t \in Seq(S) /\ Len(t) = n
  BY <1>1, <1>2, <1>4, <1>5
<1>8. Distinct(t)
  <2> SUFFICES ASSUME NEW a \in 1..n, NEW b \in 1..n, t[a] = t[b]
               PROVE  a = b
    BY <1>7 DEF Distinct
  <2>1. f[a] \in 1..Len(s) /\ f[b] \in 1..Len(s) /\ s[f[a]] = s[f[b]]
    BY <1>3, <1>4, Zenon
  <2>2. f[a] = f[b]
    BY <2>1 DEF Distinct
  <2>3. ~(a < b) /\ ~(b < a)
    BY <1>3, <2>1, <2>2
  <2> QED
    BY <1>1, <1>2, <2>3
<1>9. ASSUME NEW y PROVE Listed(t, y) <=> \E i \in I : s[i] = y
  BY <1>3, <1>4, <1>7, Zenon DEF Listed
<1> QED
  BY <1>1, <1>2, <1>7, <1>8, <1>9 DEF t

\* The tail of a list that may repeat a cell.
LEMMA TailListed ==
  ASSUME NEW S, NEW s \in Seq(S), s # <<>>
  PROVE  /\ Head(s) \in S /\ Listed(s, Head(s))
         /\ Tail(s) \in Seq(S)
         /\ \A y : Listed(Tail(s), y) => Listed(s, y)
         /\ Tail(s) = <<>> <=> Len(s) = 1
<1>1. Len(s) \in Nat /\ Len(s) > 0 /\ Head(s) = s[1] /\ Head(s) \in S
  OBVIOUS
<1> DEFINE t == Tail(s)
<1>2. /\ t \in Seq(S)
      /\ Len(t) = Len(s) - 1
      /\ \A i \in 1..(Len(s) - 1) : t[i] = s[i + 1]
  OBVIOUS
<1> HIDE DEF t
<1>3. \A y : Listed(t, y) => Listed(s, y)
  BY <1>1, <1>2 DEF Listed
<1>4. t = <<>> <=> Len(s) = 1
  BY <1>1, <1>2
<1>5. Listed(s, Head(s))
  BY <1>1 DEF Listed
<1> QED
  BY <1>1, <1>2, <1>3, <1>4, <1>5 DEF t

\* A list that may repeat a cell, with one more.
LEMMA AppendListed ==
  ASSUME NEW S, NEW s \in Seq(S), NEW x \in S
  PROVE  /\ Append(s, x) \in Seq(S)
         /\ \A y : Listed(Append(s, x), y) => Listed(s, y) \/ y = x
<1> DEFINE t == Append(s, x)
<1>1. /\ t \in Seq(S) /\ Len(t) = Len(s) + 1 /\ t[Len(s) + 1] = x
      /\ \A i \in 1..Len(s) : t[i] = s[i]
  OBVIOUS
<1> HIDE DEF t
<1>2. Len(s) \in Nat
  OBVIOUS
<1>3. ASSUME NEW y, Listed(t, y) PROVE Listed(s, y) \/ y = x
  <2>1. PICK i \in 1..Len(t) : t[i] = y
    BY <1>3 DEF Listed
  <2>2. i \in 1..Len(s) \/ i = Len(s) + 1
    BY <1>1, <1>2
  <2> QED
    BY <1>1, <2>1, <2>2 DEF Listed
<1> QED
  BY <1>1, <1>3 DEF t
=============================================================================
