----------------------------- MODULE ListLemmas -----------------------------
(***************************************************************************)
(* Facts about the list operators the models use for std::vector: the      *)
(* search of std::find_if (SelectInSeq) and the removal of vector::erase   *)
(* (RemoveAt).                                                             *)
(***************************************************************************)
EXTENDS Integers, SequencesExt, SequenceTheorems, WellFoundedInduction, TLAPS

(***************************************************************************)
(* Every nonempty set of natural numbers has a least element: what the     *)
(* searches for a first position and for a least priority rest on.         *)
(***************************************************************************)
LEMMA LeastNat ==
  ASSUME NEW T \in SUBSET Nat, T # {}
  PROVE  \E x \in T : \A y \in T : x <= y
<1>1. \E x \in T : \A y \in T : ~ (<<y, x>> \in OpToRel(<, Nat))
  BY NatLessThanWellFounded, WFMin
<1>2. PICK x \in T : \A y \in T : ~ (<<y, x>> \in OpToRel(<, Nat))
  BY <1>1
<1>3. ASSUME NEW y \in T  PROVE x <= y
  <2>1. <<y, x>> \in Nat \X Nat
    OBVIOUS
  <2>2. ~ (y < x)
    BY <1>2, <2>1 DEF OpToRel
  <2> QED
    BY <2>2
<1> QED
  BY <1>3

\* The least element of a nonempty set of natural numbers is in it.
LEMMA MinInSet ==
  ASSUME NEW T \in SUBSET Nat, T # {}
  PROVE  Min(T) \in T
BY LeastNat DEF Min

(***************************************************************************)
(* erase at a position of a list leaves a list of the same kind, and every *)
(* element that is left was there before.                                  *)
(***************************************************************************)
LEMMA RemoveAtProperties ==
  ASSUME NEW S, NEW s \in Seq(S), NEW k \in DOMAIN s
  PROVE  /\ RemoveAt(s, k) \in Seq(S)
         /\ \A j \in DOMAIN RemoveAt(s, k) : \E m \in DOMAIN s : RemoveAt(s, k)[j] = s[m]
<1> DEFINE a == SubSeq(s, 1, k - 1)
           b == SubSeq(s, k + 1, Len(s))
           R == {s[m] : m \in DOMAIN s}
<1>1. DOMAIN s = 1 .. Len(s) /\ Len(s) \in Nat /\ k \in 1 .. Len(s)
  BY LenProperties
<1>2. a \in Seq(R)
  <2>1. \A i \in 1 .. k - 1 : s[i] \in R
    BY <1>1
  <2> QED
    BY <1>1, <2>1, SubSeqProperties
<1>3. b \in Seq(R)
  <2>1. \A i \in k + 1 .. Len(s) : s[i] \in R
    BY <1>1
  <2> QED
    BY <1>1, <2>1, SubSeqProperties
<1>4. a \o b \in Seq(R)
  BY <1>2, <1>3, ConcatProperties
<1>5. RemoveAt(s, k) = a \o b
  BY DEF RemoveAt
<1>6. R \subseteq S
  BY <1>1, ElementOfSeq
<1>7. RemoveAt(s, k) \in Seq(S)
  BY <1>4, <1>5, <1>6, SeqMonotonic
<1>8. \A j \in DOMAIN RemoveAt(s, k) : RemoveAt(s, k)[j] \in R
  BY <1>4, <1>5, LenProperties, ElementOfSeq
<1> QED
  BY <1>7, <1>8

\* Which element is where after erase.
LEMMA RemoveAtElements ==
  ASSUME NEW S, NEW s \in Seq(S), NEW k \in DOMAIN s
  PROVE  /\ DOMAIN RemoveAt(s, k) = 1 .. Len(s) - 1
         /\ \A j \in 1 .. Len(s) - 1 : RemoveAt(s, k)[j] = IF j < k THEN s[j] ELSE s[j + 1]
<1> DEFINE a == SubSeq(s, 1, k - 1)
           b == SubSeq(s, k + 1, Len(s))
<1>1. DOMAIN s = 1 .. Len(s) /\ Len(s) \in Nat /\ k \in 1 .. Len(s)
  BY LenProperties
<1>2. \A i \in 1 .. Len(s) : s[i] \in S
  BY ElementOfSeq
<1>3. /\ a \in Seq(S) /\ Len(a) = k - 1
      /\ \A i \in 1 .. k - 1 : a[i] = s[i]
  <2>1. /\ a \in Seq(S) /\ Len(a) = IF 1 <= k - 1 THEN k - 1 - 1 + 1 ELSE 0
        /\ \A i \in 1 .. k - 1 - 1 + 1 : a[i] = s[1 + i - 1]
    BY <1>1, <1>2, SubSeqProperties
  <2> HIDE DEF a
  <2> QED
    BY <1>1, <2>1
<1>4. /\ b \in Seq(S) /\ Len(b) = Len(s) - k
      /\ \A i \in 1 .. Len(s) - k : b[i] = s[k + i]
  <2>1. /\ b \in Seq(S)
        /\ Len(b) = IF k + 1 <= Len(s) THEN Len(s) - (k + 1) + 1 ELSE 0
        /\ \A i \in 1 .. Len(s) - (k + 1) + 1 : b[i] = s[k + 1 + i - 1]
    BY <1>1, <1>2, SubSeqProperties
  <2> HIDE DEF b
  <2>2. Len(s) - (k + 1) + 1 = Len(s) - k /\ (~ (k + 1 <= Len(s)) => Len(s) - k = 0)
    BY <1>1
  <2>3. Len(b) = Len(s) - k
    BY <2>1, <2>2
  <2>4. ASSUME NEW i \in 1 .. Len(s) - k  PROVE b[i] = s[k + i]
    <3>1. k + 1 + i - 1 = k + i
      BY <1>1
    <3> QED
      BY <2>1, <2>2, <3>1
  <2> QED
    BY <2>1, <2>3, <2>4
<1> HIDE DEF a, b
<1>5. /\ a \o b \in Seq(S)
      /\ Len(a \o b) = Len(s) - 1
      /\ \A i \in 1 .. Len(s) - 1 : (a \o b)[i] = IF i <= k - 1 THEN a[i] ELSE b[i - (k - 1)]
  <2>1. Len(a) + Len(b) = Len(s) - 1 /\ Len(a) = k - 1
    BY <1>1, <1>3, <1>4
  <2>2. /\ a \o b \in Seq(S)
        /\ Len(a \o b) = Len(a) + Len(b)
        /\ \A i \in 1 .. Len(a) + Len(b) : (a \o b)[i] = IF i <= Len(a) THEN a[i] ELSE b[i - Len(a)]
    BY <1>3, <1>4, ConcatProperties
  <2> QED
    BY <2>1, <2>2
<1>6. ASSUME NEW j \in 1 .. Len(s) - 1
      PROVE  (a \o b)[j] = IF j < k THEN s[j] ELSE s[j + 1]
  <2>1. CASE j < k
    BY <1>1, <1>3, <1>5, <2>1
  <2>2. CASE ~ (j < k)
    <3>1. j - (k - 1) \in 1 .. Len(s) - k /\ k + (j - (k - 1)) = j + 1
      BY <1>1, <2>2
    <3>2. (a \o b)[j] = b[j - (k - 1)]
      BY <1>1, <1>5, <2>2
    <3>3. b[j - (k - 1)] = s[k + (j - (k - 1))]
      BY <1>4, <3>1
    <3> QED
      BY <2>2, <3>1, <3>2, <3>3
  <2> QED
    BY <2>1, <2>2
<1>7. RemoveAt(s, k) = a \o b
  BY DEF RemoveAt, a, b
<1> QED
  BY <1>5, <1>6, <1>7, LenProperties

\* erase takes one position away, and leaves no element twice that was there once.
LEMMA RemoveAtKeepsOthers ==
  ASSUME NEW S, NEW s \in Seq(S), NEW k \in DOMAIN s
  PROVE  /\ \A m \in DOMAIN s \ {k} : \E j \in DOMAIN RemoveAt(s, k) : RemoveAt(s, k)[j] = s[m]
         /\ IsInjective(s) => IsInjective(RemoveAt(s, k))
<1> DEFINE r == RemoveAt(s, k)
<1>1. DOMAIN s = 1 .. Len(s) /\ Len(s) \in Nat /\ k \in 1 .. Len(s)
  BY LenProperties
<1>2. /\ DOMAIN r = 1 .. Len(s) - 1
      /\ \A j \in 1 .. Len(s) - 1 : r[j] = IF j < k THEN s[j] ELSE s[j + 1]
  BY RemoveAtElements
<1> HIDE DEF r
<1>3. ASSUME NEW m \in DOMAIN s \ {k}  PROVE \E j \in DOMAIN r : r[j] = s[m]
  <2>1. CASE m < k
    <3>1. m \in DOMAIN r /\ r[m] = s[m]
      BY <1>1, <1>2, <2>1
    <3> QED
      BY <3>1
  <2>2. CASE ~ (m < k)
    <3>1. m - 1 \in 1 .. Len(s) - 1 /\ ~ (m - 1 < k) /\ (m - 1) + 1 = m
      BY <1>1, <2>2
    <3>2. m - 1 \in DOMAIN r /\ r[m - 1] = s[m]
      BY <1>2, <3>1
    <3> QED
      BY <3>2
  <2> QED
    BY <2>1, <2>2
<1>4. ASSUME IsInjective(s)  PROVE IsInjective(r)
  <2>1. \A i, j \in 1 .. Len(s) : s[i] = s[j] => i = j
    BY <1>1, <1>4 DEF IsInjective
  <2>2. ASSUME NEW i \in 1 .. Len(s) - 1, NEW j \in 1 .. Len(s) - 1, r[i] = r[j]
        PROVE  i = j
    <3> DEFINE at(x) == IF x < k THEN x ELSE x + 1
    <3>1. at(i) \in 1 .. Len(s) /\ at(j) \in 1 .. Len(s)
      BY <1>1
    <3>2. s[at(i)] = s[at(j)]
      BY <1>2, <2>2
    <3>3. at(i) = at(j)
      BY <2>1, <3>1, <3>2
    <3> QED
      BY <1>1, <3>3
  <2> QED
    BY <1>2, <2>2 DEF IsInjective
<1> QED
  BY <1>3, <1>4 DEF r

\* push_back of a new element leaves no element twice.
LEMMA AppendKeepsInjective ==
  ASSUME NEW S, NEW s \in Seq(S), IsInjective(s), NEW x \in S, \A k \in DOMAIN s : s[k] # x
  PROVE  IsInjective(Append(s, x))
<1>1. /\ Append(s, x) \in Seq(S)
      /\ Len(Append(s, x)) = Len(s) + 1
      /\ \A i \in 1 .. Len(s) : Append(s, x)[i] = s[i]
      /\ Append(s, x)[Len(s) + 1] = x
  BY AppendProperties
<1>2. DOMAIN s = 1 .. Len(s) /\ Len(s) \in Nat
  BY LenProperties
<1>3. DOMAIN Append(s, x) = 1 .. Len(s) + 1
  BY <1>1, LenProperties
<1> QED
  BY <1>1, <1>2, <1>3 DEF IsInjective

(***************************************************************************)
(* Which element is where after a message is taken from the front of a     *)
(* list, put at its end, or a list is put after it.                        *)
(***************************************************************************)
LEMMA TailElements ==
  ASSUME NEW S, NEW s \in Seq(S), s # <<>>
  PROVE  /\ Len(s) \in Nat \ {0} /\ DOMAIN s = 1 .. Len(s) /\ Head(s) = s[1] /\ Head(s) \in S
         /\ Tail(s) \in Seq(S) /\ DOMAIN Tail(s) = 1 .. Len(s) - 1
         /\ \A k \in 1 .. Len(s) - 1 : Tail(s)[k] = s[k + 1]
<1>1. Len(s) \in Nat \ {0} /\ DOMAIN s = 1 .. Len(s)
  BY EmptySeq, LenProperties
<1>2. /\ Head(s) \in S /\ Tail(s) \in Seq(S) /\ Len(Tail(s)) = Len(s) - 1
      /\ \A k \in 1 .. Len(Tail(s)) : Tail(s)[k] = s[k + 1]
  BY HeadTailProperties
<1>3. DOMAIN Tail(s) = 1 .. Len(Tail(s))
  BY <1>2, LenProperties
<1>4. Head(s) = s[1]
  OBVIOUS
<1> QED
  BY <1>1, <1>2, <1>3, <1>4

LEMMA AppendElements ==
  ASSUME NEW S, NEW s \in Seq(S), NEW x \in S
  PROVE  /\ Len(s) \in Nat /\ DOMAIN s = 1 .. Len(s)
         /\ Append(s, x) \in Seq(S) /\ DOMAIN Append(s, x) = 1 .. Len(s) + 1
         /\ \A k \in 1 .. Len(s) : Append(s, x)[k] = s[k]
         /\ Append(s, x)[Len(s) + 1] = x
<1>1. /\ Append(s, x) \in Seq(S) /\ Len(Append(s, x)) = Len(s) + 1
      /\ \A k \in 1 .. Len(s) : Append(s, x)[k] = s[k]
      /\ Append(s, x)[Len(s) + 1] = x
  BY AppendProperties
<1>2. Len(s) \in Nat /\ DOMAIN s = 1 .. Len(s) /\ DOMAIN Append(s, x) = 1 .. Len(Append(s, x))
  BY <1>1, LenProperties
<1> QED
  BY <1>1, <1>2

LEMMA ConcatElements ==
  ASSUME NEW S, NEW s \in Seq(S), NEW t \in Seq(S)
  PROVE  /\ Len(s) \in Nat /\ DOMAIN s = 1 .. Len(s)
         /\ Len(t) \in Nat /\ DOMAIN t = 1 .. Len(t)
         /\ s \o t \in Seq(S) /\ DOMAIN (s \o t) = 1 .. Len(s) + Len(t)
         /\ \A k \in 1 .. Len(s) : (s \o t)[k] = s[k]
         /\ \A k \in 1 .. Len(t) : (s \o t)[Len(s) + k] = t[k]
<1>1. /\ s \o t \in Seq(S) /\ Len(s \o t) = Len(s) + Len(t)
      /\ \A k \in 1 .. Len(s) + Len(t) :
           (s \o t)[k] = IF k <= Len(s) THEN s[k] ELSE t[k - Len(s)]
  BY ConcatProperties
<1>2. /\ Len(s) \in Nat /\ DOMAIN s = 1 .. Len(s)
      /\ Len(t) \in Nat /\ DOMAIN t = 1 .. Len(t)
      /\ DOMAIN (s \o t) = 1 .. Len(s \o t)
  BY <1>1, LenProperties
<1>3. ASSUME NEW k \in 1 .. Len(s)  PROVE (s \o t)[k] = s[k]
  BY <1>1, <1>2
<1>4. ASSUME NEW k \in 1 .. Len(t)  PROVE (s \o t)[Len(s) + k] = t[k]
  <2>1. Len(s) + k \in 1 .. Len(s) + Len(t) /\ ~(Len(s) + k <= Len(s)) /\ Len(s) + k - Len(s) = k
    BY <1>2
  <2> QED
    BY <1>1, <2>1
<1> QED
  BY <1>1, <1>2, <1>3, <1>4

\* The head of the second list moves to the end of the first.
LEMMA HeadMoves ==
  ASSUME NEW S, NEW s \in Seq(S), NEW t \in Seq(S), t # <<>>
  PROVE  Append(s, Head(t)) \o Tail(t) = s \o t
<1> DEFINE u == Append(s, Head(t)) \o Tail(t)
           v == s \o t
           n == Len(s)
           m == Len(t)
<1>1. /\ m \in Nat \ {0} /\ Head(t) = t[1] /\ Head(t) \in S /\ Tail(t) \in Seq(S)
      /\ DOMAIN Tail(t) = 1 .. m - 1 /\ \A k \in 1 .. m - 1 : Tail(t)[k] = t[k + 1]
  BY TailElements
<1>2. /\ n \in Nat /\ Append(s, Head(t)) \in Seq(S) /\ DOMAIN Append(s, Head(t)) = 1 .. n + 1
      /\ \A k \in 1 .. n : Append(s, Head(t))[k] = s[k]
      /\ Append(s, Head(t))[n + 1] = Head(t)
  BY <1>1, AppendElements
<1>3. Len(Append(s, Head(t))) = n + 1 /\ Len(Tail(t)) = m - 1
  BY <1>1, <1>2, LenProperties
<1>4. /\ u \in Seq(S) /\ DOMAIN u = 1 .. n + m
      /\ \A k \in 1 .. n + 1 : u[k] = Append(s, Head(t))[k]
      /\ \A k \in 1 .. m - 1 : u[n + 1 + k] = Tail(t)[k]
  <2>1. n + 1 + (m - 1) = n + m
    BY <1>1, <1>2
  <2> QED
    BY <1>1, <1>2, <1>3, <2>1, ConcatElements
<1>5. /\ v \in Seq(S) /\ DOMAIN v = 1 .. n + m
      /\ \A k \in 1 .. n : v[k] = s[k]
      /\ \A k \in 1 .. m : v[n + k] = t[k]
  BY ConcatElements
<1> HIDE DEF u, v, n, m
<1>6. Len(u) = n + m /\ Len(v) = n + m
  BY <1>1, <1>2, <1>4, <1>5, LenProperties
<1>7. ASSUME NEW k \in 1 .. n + m  PROVE u[k] = v[k]
  <2>1. CASE k \in 1 .. n
    BY <1>2, <1>4, <1>5, <2>1
  <2>2. CASE k = n + 1
    <3>1. k \in 1 .. n + 1 /\ 1 \in 1 .. m
      BY <1>1, <1>2, <2>2
    <3>2. v[n + 1] = t[1]
      BY <1>5, <3>1
    <3> QED
      BY <1>1, <1>2, <1>4, <2>2, <3>1, <3>2
  <2>3. CASE k \in n + 2 .. n + m
    <3> DEFINE j == k - (n + 1)
    <3>1. j \in 1 .. m - 1 /\ n + 1 + j = k /\ j + 1 \in 1 .. m /\ n + (j + 1) = k
      BY <1>1, <1>2, <2>3
    <3> HIDE DEF j
    <3>2. u[k] = Tail(t)[j]
      BY <1>4, <3>1
    <3>3. v[k] = t[j + 1]
      BY <1>5, <3>1
    <3> QED
      BY <1>1, <3>1, <3>2, <3>3
  <2> QED
    BY <1>1, <1>2, <2>1, <2>2, <2>3
<1>8. u = v
  BY <1>4, <1>5, <1>6, <1>7, SeqEqual
<1> QED
  BY <1>8 DEF u, v

\* The tail of a list that another one follows.
LEMMA TailOfConcat ==
  ASSUME NEW S, NEW s \in Seq(S), NEW t \in Seq(S), s # <<>>
  PROVE  /\ s \o t \in Seq(S) /\ s \o t # <<>> /\ Head(s \o t) = Head(s)
         /\ Tail(s \o t) = Tail(s) \o t
<1>1. /\ Len(s) \in Nat \ {0} /\ Head(s) = s[1] /\ Tail(s) \in Seq(S)
      /\ DOMAIN Tail(s) = 1 .. Len(s) - 1
      /\ \A k \in 1 .. Len(s) - 1 : Tail(s)[k] = s[k + 1]
  BY TailElements
<1>2. Len(Tail(s)) = Len(s) - 1
  BY <1>1, LenProperties
<1>3. /\ Len(t) \in Nat /\ DOMAIN t = 1 .. Len(t)
      /\ s \o t \in Seq(S) /\ DOMAIN (s \o t) = 1 .. Len(s) + Len(t)
      /\ \A k \in 1 .. Len(s) : (s \o t)[k] = s[k]
      /\ \A k \in 1 .. Len(t) : (s \o t)[Len(s) + k] = t[k]
  BY ConcatElements
<1>4. Len(s \o t) = Len(s) + Len(t) /\ s \o t # <<>>
  <2>1. Len(s \o t) = Len(s) + Len(t)
    BY <1>3, LenProperties
  <2> QED
    BY <1>1, <1>3, <2>1
<1>5. /\ Head(s \o t) = (s \o t)[1] /\ Tail(s \o t) \in Seq(S)
      /\ DOMAIN Tail(s \o t) = 1 .. Len(s) + Len(t) - 1
      /\ \A k \in 1 .. Len(s) + Len(t) - 1 : Tail(s \o t)[k] = (s \o t)[k + 1]
  BY <1>3, <1>4, TailElements
<1>6. /\ Tail(s) \o t \in Seq(S)
      /\ DOMAIN (Tail(s) \o t) = 1 .. (Len(s) - 1) + Len(t)
      /\ \A k \in 1 .. Len(s) - 1 : (Tail(s) \o t)[k] = Tail(s)[k]
      /\ \A k \in 1 .. Len(t) : (Tail(s) \o t)[(Len(s) - 1) + k] = t[k]
  BY <1>1, <1>2, ConcatElements
<1>7. Head(s \o t) = Head(s)
  <2>1. 1 \in 1 .. Len(s)
    BY <1>1
  <2> QED
    BY <1>1, <1>3, <1>5, <2>1
<1> DEFINE u == Tail(s \o t)
           v == Tail(s) \o t
           n == Len(s) + Len(t) - 1
<1>8. n \in Nat /\ Len(u) = n /\ Len(v) = n
  <2>1. n \in Nat /\ (Len(s) - 1) + Len(t) = n
    BY <1>1, <1>3
  <2> QED
    BY <1>5, <1>6, <2>1, LenProperties
<1>9. ASSUME NEW k \in 1 .. n  PROVE u[k] = v[k]
  <2>1. u[k] = (s \o t)[k + 1]
    BY <1>5
  <2>2. CASE k \in 1 .. Len(s) - 1
    <3>1. k + 1 \in 1 .. Len(s)
      BY <1>1, <2>2
    <3> QED
      BY <1>1, <1>3, <1>6, <2>1, <2>2, <3>1
  <2>3. CASE k \in Len(s) .. n
    <3> DEFINE j == k - (Len(s) - 1)
    <3>1. j \in 1 .. Len(t) /\ (Len(s) - 1) + j = k /\ Len(s) + j = k + 1
      BY <1>1, <1>3, <2>3
    <3> HIDE DEF j
    <3>2. v[k] = t[j]
      BY <1>6, <3>1
    <3>3. (s \o t)[k + 1] = t[j]
      BY <1>3, <3>1
    <3> QED
      BY <2>1, <3>2, <3>3
  <2> QED
    BY <1>1, <1>3, <2>2, <2>3
<1>10. u = v
  <2> HIDE DEF u, v
  <2>1. u \in Seq(S) /\ v \in Seq(S)
    BY <1>5, <1>6 DEF u, v
  <2> QED
    BY <1>8, <1>9, <2>1, SeqEqual
<1> QED
  BY <1>3, <1>4, <1>7, <1>10

=============================================================================
