----------------------------- MODULE ListLemmas -----------------------------
(***************************************************************************)
(* Facts about the operators that the kernel's lists are modelled with:    *)
(* a list is a sequence, a node is linked with InsertAt or Append and      *)
(* unlinked with RemoveFirst.  The other proof modules cite them.          *)
(***************************************************************************)
EXTENDS Integers, FiniteSets, SequencesExt, TLAPS,
        FiniteSetTheorems, SequenceTheorems, WellFoundedInduction

\* A set of naturals that is not empty has a least element: what a search
\* through a list finds first.
LEMMA LeastElement ==
    ASSUME NEW T, T \subseteq Nat, T # {}
    PROVE  \E m \in T : \A n \in T : m <= n
<1>1. \E x \in T : \A y \in T : ~(<<y, x>> \in OpToRel(<, Nat))
  BY NatLessThanWellFounded, WFMin, Zenon
<1>2. \A x, y \in Nat : x < y => <<x, y>> \in OpToRel(<, Nat)
  BY DEF OpToRel
<1>3. PICK x \in T : \A y \in T : ~(<<y, x>> \in OpToRel(<, Nat))
  BY <1>1
<1>4. \A y \in T : ~(y < x)
  BY <1>2, <1>3
<1> QED  BY <1>4

\* Induction, as a statement about sets.
LEMMA SetInduction ==
    ASSUME NEW T, 0 \in T, \A n \in Nat : n \in T => n + 1 \in T
    PROVE  Nat \subseteq T
<1> SUFFICES ASSUME ~(Nat \subseteq T) PROVE FALSE
  OBVIOUS
<1> DEFINE U == Nat \ T
<1>1. U \subseteq Nat /\ U # {}
  OBVIOUS
<1>2. PICK m \in U : \A n \in U : m <= n
  BY <1>1, LeastElement, Zenon
<1>3. m # 0 /\ m - 1 \in Nat /\ m - 1 \notin U
  BY <1>2
<1> QED  BY <1>3

\* Min finds the least element.
LEMMA MinProperties ==
    ASSUME NEW T, T \subseteq Nat, T # {}
    PROVE  /\ Min(T) \in T
           /\ \A n \in T : Min(T) <= n
<1>1. \E m \in T : \A n \in T : m <= n
  BY LeastElement, Zenon
<1> QED  BY <1>1 DEF Min

-----------------------------------------------------------------------------

\* ToSet and Contains say the same.
LEMMA ContainsIsToSet ==
    ASSUME NEW S, NEW l \in Seq(S), NEW x
    PROVE  Contains(l, x) <=> x \in ToSet(l)
BY DEF Contains, ToSet

\* A list with no repetition has as many nodes as members.
LEMMA LenIsCardinality ==
    ASSUME NEW S, NEW l \in Seq(S), IsInjective(l)
    PROVE  IsFiniteSet(ToSet(l)) /\ Cardinality(ToSet(l)) = Len(l)
<1>1. l \in [1..Len(l) -> ToSet(l)] /\ Len(l) \in Nat /\ DOMAIN l = 1..Len(l)
  BY DEF ToSet
<1>2. l \in Bijection(1..Len(l), ToSet(l))
  BY <1>1 DEF Bijection, Injection, Surjection, IsInjective, ToSet
<1>3. ExistsBijection(1..Len(l), ToSet(l))
  BY <1>2 DEF ExistsBijection
<1>4. IsFiniteSet(ToSet(l))
  BY <1>1, <1>3, FS_NatBijection, Zenon
<1> QED  BY <1>1, <1>3, <1>4, FS_CountingElements, Zenon

\* Linking a node before the i-th.
LEMMA InsertAtProperties ==
    ASSUME NEW S, NEW l \in Seq(S), NEW i \in 1..Len(l) + 1, NEW x \in S
    PROVE  /\ InsertAt(l, i, x) \in Seq(S)
           /\ Len(InsertAt(l, i, x)) = Len(l) + 1
           /\ \A j \in 1..Len(l) + 1 :
                 InsertAt(l, i, x)[j] = IF j < i THEN l[j] ELSE IF j = i THEN x ELSE l[j - 1]
           /\ ToSet(InsertAt(l, i, x)) = ToSet(l) \cup {x}
           /\ IsInjective(l) /\ x \notin ToSet(l) => IsInjective(InsertAt(l, i, x))
<1> DEFINE a == SubSeq(l, 1, i - 1)
           b == SubSeq(l, i, Len(l))
           r == InsertAt(l, i, x)
<1>1. a \in Seq(S) /\ Len(a) = i - 1 /\ \A j \in 1..i - 1 : a[j] = l[j]
  OBVIOUS
<1>2. /\ b \in Seq(S) /\ Len(b) = Len(l) - i + 1
      /\ \A j \in 1..Len(l) - i + 1 : b[j] = l[j + i - 1]
  OBVIOUS
<1> DEFINE c == a \o <<x>>
<1>3. r = c \o b
  BY DEF InsertAt
<1> HIDE DEF a, b, r
<1>4. c \in Seq(S) /\ Len(c) = i /\ \A j \in 1..i : c[j] = IF j < i THEN l[j] ELSE x
  BY <1>1
<1> HIDE DEF c
<1>5. /\ r \in Seq(S) /\ Len(r) = Len(c) + Len(b)
      /\ \A j \in 1..Len(c) + Len(b) : r[j] = IF j <= Len(c) THEN c[j] ELSE b[j - Len(c)]
  BY <1>2, <1>3, <1>4, ConcatProperties
<1> DEFINE n == Len(l)
<1>n. n \in Nat /\ i \in 1..n + 1 /\ Len(c) = i /\ Len(b) = n - i + 1
  BY <1>2, <1>4
<1>d. Len(r) = n + 1 /\ DOMAIN r = 1..n + 1
  BY <1>5, <1>n
<1>6. ASSUME NEW j \in 1..n + 1
      PROVE  r[j] = IF j < i THEN l[j] ELSE IF j = i THEN x ELSE l[j - 1]
  <2>1. CASE j <= i
    BY <2>1, <1>n, <1>4, <1>5
  <2>2. CASE j > i
    <3>1. j - i \in 1..n - i + 1 /\ (j - i) + i - 1 = j - 1
      BY <2>2, <1>n
    <3>2. r[j] = b[j - i]
      BY <2>2, <1>n, <1>5
    <3>3. b[j - i] = l[(j - i) + i - 1]
      BY <3>1, <1>2
    <3> QED  BY <2>2, <3>1, <3>2, <3>3, <1>n
  <2> QED  BY <2>1, <2>2, <1>n
<1>7. ToSet(r) = ToSet(l) \cup {x}
  <2>1. ASSUME NEW y \in ToSet(l) PROVE y \in ToSet(r)
    <3>1. PICK j \in 1..Len(l) : y = l[j]
      BY DEF ToSet
    <3>2. y = r[j] \/ y = r[j + 1]
      BY <1>6, <3>1
    <3>3. j \in 1..n + 1 /\ j + 1 \in 1..n + 1
      BY <1>n
    <3> QED  BY <1>d, <3>2, <3>3 DEF ToSet
  <2>2. x \in ToSet(r)
    BY <1>d, <1>6 DEF ToSet
  <2>3. ToSet(r) \subseteq ToSet(l) \cup {x}
    BY <1>d, <1>6 DEF ToSet
  <2> QED  BY <2>1, <2>2, <2>3
<1>8. ASSUME IsInjective(l), x \notin ToSet(l) PROVE IsInjective(r)
  <2> SUFFICES ASSUME NEW j \in 1..Len(l) + 1, NEW k \in 1..Len(l) + 1, j < k, r[j] = r[k]
               PROVE  FALSE
    BY <1>d DEF IsInjective
  <2>1. \A m \in 1..Len(l) : l[m] # x
    BY <1>8 DEF ToSet
  <2>2. \A m, k2 \in 1..Len(l) : l[m] = l[k2] => m = k2
    BY <1>8 DEF IsInjective
  <2> QED  BY <1>6, <2>1, <2>2
<1> QED  BY <1>5, <1>d, <1>6, <1>7, <1>8 DEF r

\* Unlinking a node: the nodes behind it move up.
LEMMA RemoveAtProperties ==
    ASSUME NEW S, NEW l \in Seq(S), NEW i \in 1..Len(l)
    PROVE  /\ RemoveAt(l, i) \in Seq(S)
           /\ Len(RemoveAt(l, i)) = Len(l) - 1
           /\ \A j \in 1..Len(l) - 1 : RemoveAt(l, i)[j] = IF j < i THEN l[j] ELSE l[j + 1]
<1> DEFINE a == SubSeq(l, 1, i - 1)
           b == SubSeq(l, i + 1, Len(l))
           r == RemoveAt(l, i)
           n == Len(l)
<1>1. a \in Seq(S) /\ Len(a) = i - 1 /\ \A j \in 1..i - 1 : a[j] = l[j]
  OBVIOUS
<1>2. b \in Seq(S) /\ Len(b) = n - i /\ \A j \in 1..n - i : b[j] = l[j + i]
  OBVIOUS
<1>3. r = a \o b
  BY DEF RemoveAt
<1> HIDE DEF a, b, r
<1>4. /\ r \in Seq(S) /\ Len(r) = Len(a) + Len(b)
      /\ \A j \in 1..Len(a) + Len(b) : r[j] = IF j <= Len(a) THEN a[j] ELSE b[j - Len(a)]
  BY <1>1, <1>2, <1>3, ConcatProperties
<1>5. n \in Nat /\ i \in 1..n
  OBVIOUS
<1>6. ASSUME NEW j \in 1..n - 1
      PROVE  r[j] = IF j < i THEN l[j] ELSE l[j + 1]
  <2>1. CASE j < i
    <3>1. j \in 1..i - 1 /\ j \in 1..Len(a) + Len(b) /\ j <= Len(a)
      BY <2>1, <1>5, <1>1, <1>2
    <3> QED  BY <2>1, <3>1, <1>1, <1>4
  <2>2. CASE j >= i
    <3> DEFINE d == j - (i - 1)
    <3>1. d \in 1..n - i /\ d + i = j + 1 /\ ~(j < i)
      BY <2>2, <1>5
    <3>2. j \in 1..Len(a) + Len(b) /\ ~(j <= Len(a)) /\ j - Len(a) = d
      BY <2>2, <1>5, <1>1, <1>2
    <3>3. r[j] = b[j - Len(a)]
      BY <3>2, <1>4
    <3>4. b[d] = l[d + i]
      BY <3>1, <1>2
    <3>5. r[j] = l[j + 1]
      BY <3>1, <3>2, <3>3, <3>4
    <3> QED  BY <3>1, <3>5
  <2> QED  BY <2>1, <2>2, <1>5
<1> QED  BY <1>1, <1>2, <1>4, <1>5, <1>6 DEF r

\* RemoveFirst unlinks the node that it finds, or nothing.
LEMMA RemoveFirstIsRemoveAt ==
    ASSUME NEW S, NEW l \in Seq(S), NEW x
    PROVE  /\ x \notin ToSet(l) => RemoveFirst(l, x) = l
           /\ x \in ToSet(l) => \E i \in 1..Len(l) : l[i] = x /\ RemoveFirst(l, x) = RemoveAt(l, i)
<1>1. CASE x \notin ToSet(l)
  <2>1. ~\E i \in 1..Len(l) : l[i] = x
    BY <1>1 DEF ToSet
  <2> QED  BY <1>1, <2>1 DEF RemoveFirst
<1>2. CASE x \in ToSet(l)
  <2> DEFINE I == {i \in 1..Len(l) : l[i] = x}
  <2>1. I # {} /\ I \subseteq Nat
    BY <1>2 DEF ToSet
  <2>2. RemoveFirst(l, x) = RemoveAt(l, Min(I))
    BY <2>1 DEF RemoveFirst, SelectInSeq
  <2>3. Min(I) \in I
    BY <2>1, MinProperties, Zenon
  <2> QED  BY <2>2, <2>3, <1>2
<1> QED  BY <1>1, <1>2

\* Unlinking a node of a list without repetitions takes it out and keeps the
\* order of the others.
LEMMA RemoveFirstProperties ==
    ASSUME NEW S, NEW l \in Seq(S), NEW x
    PROVE  /\ RemoveFirst(l, x) \in Seq(S)
           /\ ToSet(RemoveFirst(l, x)) \subseteq ToSet(l)
           /\ ToSet(l) \subseteq ToSet(RemoveFirst(l, x)) \cup {x}
           /\ IsInjective(l) => /\ IsInjective(RemoveFirst(l, x))
                                /\ x \notin ToSet(RemoveFirst(l, x))
           /\ x \notin ToSet(l) => RemoveFirst(l, x) = l
           /\ x \in ToSet(l) => Len(RemoveFirst(l, x)) = Len(l) - 1
           /\ \A j, k \in DOMAIN RemoveFirst(l, x) : j < k =>
                 \E m, n \in DOMAIN l : /\ m < n /\ RemoveFirst(l, x)[j] = l[m]
                                        /\ RemoveFirst(l, x)[k] = l[n]
<1> DEFINE r == RemoveFirst(l, x)
           n == Len(l)
<1>0. n \in Nat /\ DOMAIN l = 1..n
  OBVIOUS
<1>1. CASE x \notin ToSet(l)
  <2>1. r = l
    BY <1>1, RemoveFirstIsRemoveAt, Zenon
  <2> QED  BY <2>1, <1>1
<1>2. CASE x \in ToSet(l)
  <2>1. PICK i \in 1..n : l[i] = x /\ r = RemoveAt(l, i)
    BY <1>2, RemoveFirstIsRemoveAt, Zenon
  <2>2. /\ r \in Seq(S) /\ Len(r) = n - 1
        /\ \A j \in 1..n - 1 : r[j] = IF j < i THEN l[j] ELSE l[j + 1]
    BY <2>1, RemoveAtProperties, Zenon
  <2> HIDE DEF r
  <2>3. DOMAIN r = 1..n - 1
    BY <2>2
  <2>4. ToSet(r) \subseteq ToSet(l)
    <3>1. \A j \in 1..n - 1 : \E k \in 1..n : r[j] = l[k]
      <4> SUFFICES ASSUME NEW j \in 1..n - 1 PROVE \E k \in 1..n : r[j] = l[k]
        OBVIOUS
      <4>1. CASE j < i
        BY <1>0, <2>2, <4>1
      <4>2. CASE ~(j < i)
        <5>1. j + 1 \in 1..n /\ r[j] = l[j + 1]
          BY <1>0, <2>2, <4>2
        <5> QED  BY <5>1
      <4> QED  BY <4>1, <4>2
    <3> QED  BY <3>1, <1>0, <2>3 DEF ToSet
  <2>5. ASSUME NEW y \in ToSet(l), y # x PROVE y \in ToSet(r)
    <3>1. PICK j \in 1..n : y = l[j]
      BY <1>0 DEF ToSet
    <3>2. j # i
      BY <3>1, <2>5, <2>1
    <3>3. CASE j < i
      BY <3>3, <3>1, <1>0, <2>2, <2>3 DEF ToSet
    <3>4. CASE j > i
      <4>1. j - 1 \in 1..n - 1 /\ r[j - 1] = l[(j - 1) + 1] /\ (j - 1) + 1 = j
        BY <3>4, <1>0, <2>2
      <4> QED  BY <4>1, <3>1, <2>3 DEF ToSet
    <3> QED  BY <3>2, <3>3, <3>4, <1>0
  <2>6. ASSUME IsInjective(l) PROVE IsInjective(r) /\ x \notin ToSet(r)
    <3>1. \A j, k \in 1..n : l[j] = l[k] => j = k
      BY <2>6, <1>0 DEF IsInjective
    <3>2. IsInjective(r)
      BY <3>1, <1>0, <2>2, <2>3 DEF IsInjective
    <3>3. \A j \in 1..n - 1 : r[j] # x
      BY <3>1, <1>0, <2>1, <2>2
    <3> QED  BY <3>2, <3>3, <2>3 DEF ToSet
  <2>7. ASSUME NEW j \in 1..n - 1, NEW k \in 1..n - 1, j < k
        PROVE  \E p, q \in 1..n : p < q /\ r[j] = l[p] /\ r[k] = l[q]
    <3>1. CASE k < i
      <4>1. r[j] = l[j] /\ r[k] = l[k] /\ j \in 1..n /\ k \in 1..n
        BY <3>1, <2>2, <2>7, <1>0
      <4> QED  BY <4>1, <2>7
    <3>2. CASE j < i /\ k >= i
      <4>1. r[j] = l[j] /\ r[k] = l[k + 1] /\ j \in 1..n /\ k + 1 \in 1..n /\ j < k + 1
        BY <3>2, <2>2, <2>7, <1>0
      <4> QED  BY <4>1
    <3>3. CASE j >= i
      <4>1. r[j] = l[j + 1] /\ r[k] = l[k + 1] /\ j + 1 \in 1..n /\ k + 1 \in 1..n /\ j + 1 < k + 1
        BY <3>3, <2>2, <2>7, <1>0
      <4> QED  BY <4>1
    <3> QED  BY <3>1, <3>2, <3>3, <1>0
  <2>8. \A j, k \in DOMAIN r : j < k =>
            \E p, q \in DOMAIN l : p < q /\ r[j] = l[p] /\ r[k] = l[q]
    <3> SUFFICES ASSUME NEW j \in DOMAIN r, NEW k \in DOMAIN r, j < k
                 PROVE  \E p, q \in DOMAIN l : p < q /\ r[j] = l[p] /\ r[k] = l[q]
      OBVIOUS
    <3>1. j \in 1..n - 1 /\ k \in 1..n - 1
      BY <2>3, Zenon
    <3>2. PICK p \in 1..n, q \in 1..n : p < q /\ r[j] = l[p] /\ r[k] = l[q]
      BY <2>7, <3>1, Zenon
    <3>3. p \in DOMAIN l /\ q \in DOMAIN l
      BY <1>0, <3>2
    <3> QED  BY <3>2, <3>3, Zenon
  <2>9. ToSet(l) \subseteq ToSet(r) \cup {x}
    BY <2>5
  <2> QED  BY <1>2, <2>2, <2>4, <2>6, <2>8, <2>9, Zenon DEF r
<1> QED  BY <1>1, <1>2

\* Taking the first node off a list.
LEMMA HeadTailSet ==
    ASSUME NEW S, NEW l \in Seq(S), l # <<>>
    PROVE  /\ Head(l) \in ToSet(l) /\ Head(l) \in S
           /\ Tail(l) \in Seq(S) /\ Len(Tail(l)) = Len(l) - 1
           /\ ToSet(l) = ToSet(Tail(l)) \cup {Head(l)}
           /\ IsInjective(l) => IsInjective(Tail(l)) /\ Head(l) \notin ToSet(Tail(l))
<1> DEFINE n == Len(l)
           r == Tail(l)
<1>1. n \in Nat /\ n > 0 /\ DOMAIN l = 1..n /\ Head(l) = l[1] /\ Head(l) \in S
  OBVIOUS
<1>2. /\ r \in Seq(S) /\ Len(r) = n - 1 /\ DOMAIN r = 1..n - 1
      /\ \A j \in 1..n - 1 : r[j] = l[j + 1]
  OBVIOUS
<1> HIDE DEF n, r
<1>3. Head(l) \in ToSet(l)
  BY <1>1 DEF ToSet
<1>4. ToSet(r) \subseteq ToSet(l)
  <2>1. \A j \in 1..n - 1 : \E k \in 1..n : r[j] = l[k]
    BY <1>1, <1>2
  <2>2. ToSet(r) = {r[j] : j \in 1..n - 1} /\ ToSet(l) = {l[k] : k \in 1..n}
    BY <1>1, <1>2, Zenon DEF ToSet
  <2> QED  BY <2>1, <2>2, Zenon
<1>5. ASSUME NEW y \in ToSet(l), y # Head(l) PROVE y \in ToSet(r)
  <2>1. PICK j \in 1..n : y = l[j]
    BY <1>1 DEF ToSet
  <2>2. j # 1
    BY <2>1, <1>5, <1>1
  <2>3. j - 1 \in 1..n - 1 /\ r[j - 1] = l[(j - 1) + 1] /\ (j - 1) + 1 = j
    BY <2>2, <1>1, <1>2
  <2> QED  BY <2>1, <2>3, <1>2 DEF ToSet
<1>6. ASSUME IsInjective(l) PROVE IsInjective(r) /\ Head(l) \notin ToSet(r)
  <2>1. \A j, k \in 1..n : l[j] = l[k] => j = k
    BY <1>6, <1>1 DEF IsInjective
  <2>2. IsInjective(r)
    BY <2>1, <1>1, <1>2 DEF IsInjective
  <2>3. \A j \in 1..n - 1 : r[j] # l[1]
    BY <2>1, <1>1, <1>2
  <2> QED  BY <2>2, <2>3, <1>1, <1>2 DEF ToSet
<1>7. ToSet(l) = ToSet(r) \cup {Head(l)}
  BY <1>3, <1>4, <1>5
<1> QED  BY <1>1, <1>2, <1>3, <1>6, <1>7 DEF r, n

\* Linking a node in front.
LEMMA ConsSet ==
    ASSUME NEW S, NEW l \in Seq(S), NEW x \in S
    PROVE  /\ <<x>> \o l \in Seq(S) /\ Len(<<x>> \o l) = Len(l) + 1
           /\ ToSet(<<x>> \o l) = ToSet(l) \cup {x}
           /\ IsInjective(l) /\ x \notin ToSet(l) => IsInjective(<<x>> \o l)
<1> DEFINE r == InsertAt(l, 1, x)
           c == <<x>> \o l
           n == Len(l)
<1>0. 1 \in 1..Len(l) + 1
  OBVIOUS
<1>1. /\ r \in Seq(S) /\ Len(r) = n + 1
      /\ \A j \in 1..n + 1 : r[j] = IF j < 1 THEN l[j] ELSE IF j = 1 THEN x ELSE l[j - 1]
      /\ ToSet(r) = ToSet(l) \cup {x}
      /\ IsInjective(l) /\ x \notin ToSet(l) => IsInjective(r)
  BY <1>0, InsertAtProperties
<1>2. /\ c \in Seq(S) /\ Len(c) = n + 1
      /\ \A j \in 1..n + 1 : c[j] = IF j = 1 THEN x ELSE l[j - 1]
  OBVIOUS
<1> HIDE DEF r, c
<1>3. \A j \in 1..n + 1 : c[j] = r[j]
  BY <1>1, <1>2
<1>4. c = r
  BY <1>1, <1>2, <1>3, SeqEqual
<1> QED  BY <1>1, <1>2, <1>4 DEF c

\* Linking a node at the end.
LEMMA AppendSet ==
    ASSUME NEW S, NEW l \in Seq(S), NEW x \in S
    PROVE  /\ Append(l, x) \in Seq(S) /\ Len(Append(l, x)) = Len(l) + 1
           /\ ToSet(Append(l, x)) = ToSet(l) \cup {x}
           /\ IsInjective(l) /\ x \notin ToSet(l) => IsInjective(Append(l, x))
<1> DEFINE n == Len(l)
           r == InsertAt(l, n + 1, x)
           c == Append(l, x)
<1>0. n + 1 \in 1..Len(l) + 1 /\ n \in Nat
  OBVIOUS
<1>1. /\ r \in Seq(S) /\ Len(r) = n + 1
      /\ \A j \in 1..n + 1 : r[j] = IF j < n + 1 THEN l[j] ELSE IF j = n + 1 THEN x ELSE l[j - 1]
      /\ ToSet(r) = ToSet(l) \cup {x}
      /\ IsInjective(l) /\ x \notin ToSet(l) => IsInjective(r)
  BY <1>0, InsertAtProperties
<1>2. /\ c \in Seq(S) /\ Len(c) = n + 1
      /\ \A j \in 1..n + 1 : c[j] = IF j < n + 1 THEN l[j] ELSE x
  OBVIOUS
<1> HIDE DEF r, c
<1>3. \A j \in 1..n + 1 : c[j] = r[j]
  BY <1>0, <1>1, <1>2
<1>4. c = r
  BY <1>1, <1>2, <1>3, SeqEqual
<1> QED  BY <1>1, <1>2, <1>4 DEF c

\* SetToSeq lists every member of a finite set once.
LEMMA SetToSeqProperties ==
    ASSUME NEW S, IsFiniteSet(S)
    PROVE  /\ SetToSeq(S) \in Seq(S) /\ Len(SetToSeq(S)) = Cardinality(S)
           /\ IsInjective(SetToSeq(S)) /\ ToSet(SetToSeq(S)) = S
<1> DEFINE n == Cardinality(S)
           r == SetToSeq(S)
<1>1. n \in Nat /\ ExistsBijection(1..n, S)
  BY FS_CardinalityType, Zenon
<1>2. PICK f : f \in Bijection(1..n, S)
  BY <1>1 DEF ExistsBijection
<1>3. f \in [1..n -> S] /\ IsInjective(f)
  BY <1>2 DEF Bijection, Injection
<1>4. r \in [1..n -> S] /\ IsInjective(r)
  BY <1>3, Zenon DEF SetToSeq
<1> HIDE DEF r
<1>5. r \in Seq(S) /\ Len(r) = n /\ DOMAIN r = 1..n
  BY <1>1, <1>4
<1>6. IsFiniteSet(ToSet(r)) /\ Cardinality(ToSet(r)) = n
  BY <1>4, <1>5, LenIsCardinality
<1>7. ToSet(r) \subseteq S
  BY <1>4, <1>5 DEF ToSet
<1>8. ToSet(r) = S
  BY <1>6, <1>7, FS_Subset, Zenon
<1> QED  BY <1>4, <1>5, <1>8 DEF r

-----------------------------------------------------------------------------

\* A list in the order of the values f of its members.
Ordered(l, f) == \A i, j \in DOMAIN l : i < j => f[l[i]] <= f[l[j]]

\* Unlinking a node keeps the order.
LEMMA RemoveOrdered ==
    ASSUME NEW S, NEW l \in Seq(S), NEW f, Ordered(l, f), NEW x
    PROVE  Ordered(RemoveFirst(l, x), f)
<1> DEFINE r == RemoveFirst(l, x)
<1>0. \A j, k \in DOMAIN RemoveFirst(l, x) : j < k =>
         \E m, n \in DOMAIN l : /\ m < n /\ RemoveFirst(l, x)[j] = l[m]
                                /\ RemoveFirst(l, x)[k] = l[n]
  BY RemoveFirstProperties
<1>1. \A j, k \in DOMAIN r : j < k => \E m, n \in DOMAIN l : m < n /\ r[j] = l[m] /\ r[k] = l[n]
  BY <1>0
<1> HIDE DEF r
<1>2. Ordered(r, f)
  BY <1>1 DEF Ordered
<1> QED  BY <1>2 DEF r

\* Linking a node before the first one of greater value, or at the end, keeps it.
LEMMA InsertOrdered ==
    ASSUME NEW S, NEW l \in Seq(S), NEW f \in [S -> Int], Ordered(l, f), NEW x \in S,
           NEW i \in 1..Len(l) + 1,
           \A j \in 1..Len(l) : j < i => f[l[j]] <= f[x],
           i <= Len(l) => f[x] <= f[l[i]]
    PROVE  Ordered(InsertAt(l, i, x), f)
<1> DEFINE r == InsertAt(l, i, x)
           n == Len(l)
<1>1. /\ r \in Seq(S) /\ Len(r) = n + 1
      /\ \A j \in 1..n + 1 : r[j] = IF j < i THEN l[j] ELSE IF j = i THEN x ELSE l[j - 1]
  BY InsertAtProperties
<1>2. n \in Nat /\ DOMAIN l = 1..n
  OBVIOUS
<1>3. \A j, k \in 1..n : j < k => f[l[j]] <= f[l[k]]
  BY <1>2 DEF Ordered
<1>4. \A j \in 1..n : f[l[j]] \in Int
  OBVIOUS
<1>5. f[x] \in Int
  OBVIOUS
<1> HIDE DEF r, n
<1>6. \A j \in 1..n : j >= i => f[x] <= f[l[j]]
  <2> SUFFICES ASSUME NEW j \in 1..n, j >= i PROVE f[x] <= f[l[j]]
    OBVIOUS
  <2>1. i \in 1..n /\ f[x] <= f[l[i]]
    BY <1>2 DEF n
  <2>2. i = j \/ f[l[i]] <= f[l[j]]
    BY <1>2, <1>3, <2>1
  <2> QED  BY <1>4, <1>5, <2>1, <2>2
<1>7. \A j \in 1..n : j < i => f[l[j]] <= f[x]
  BY DEF n
<1>8. ASSUME NEW j \in 1..n + 1, NEW k \in 1..n + 1, j < k PROVE f[r[j]] <= f[r[k]]
  <2>0. i \in 1..n + 1
    BY DEF n
  <2>1. CASE k < i
    <3>1. j \in 1..n /\ k \in 1..n /\ j < i
      BY <1>2, <1>8, <2>0, <2>1
    <3>2. r[j] = l[j] /\ r[k] = l[k]
      BY <1>1, <1>8, <2>1, <3>1
    <3> QED  BY <1>3, <1>8, <3>1, <3>2
  <2>2. CASE k = i
    <3>1. j \in 1..n /\ j < i /\ r[j] = l[j] /\ r[k] = x
      BY <1>1, <1>2, <1>8, <2>0, <2>2
    <3> QED  BY <1>7, <3>1
  <2>3. CASE k > i
    <3>1. k - 1 \in 1..n /\ r[k] = l[k - 1] /\ k - 1 >= i
      BY <1>1, <1>2, <1>8, <2>0, <2>3
    <3>2. CASE j < i
      <4>1. j \in 1..n /\ r[j] = l[j] /\ j < k - 1
        BY <1>1, <1>2, <1>8, <2>0, <3>1, <3>2
      <4> QED  BY <1>3, <3>1, <4>1
    <3>3. CASE j = i
      BY <1>1, <1>6, <3>1, <3>3
    <3>4. CASE j > i
      <4>1. j - 1 \in 1..n /\ r[j] = l[j - 1] /\ j - 1 < k - 1
        BY <1>1, <1>2, <1>8, <2>0, <3>1, <3>4
      <4> QED  BY <1>3, <3>1, <4>1
    <3> QED  BY <2>0, <3>2, <3>3, <3>4
  <2> QED  BY <2>0, <2>1, <2>2, <2>3
<1>9. DOMAIN r = 1..n + 1
  BY <1>1, <1>2
<1>10. Ordered(r, f)
  BY <1>8, <1>9 DEF Ordered
<1> QED  BY <1>10 DEF r

-----------------------------------------------------------------------------
(* Sums.                                                                    *)

\* One round of summing up f over s, with g for the rest of s.
Round(f, g, s) ==
    IF s = {} THEN 0 ELSE f[CHOOSE x \in s : TRUE] + g[s \ {CHOOSE x \in s : TRUE}]

\* g solves the equation for the subsets of S.
Solves(f, g, S) == \A s \in SUBSET S : g[s] = Round(f, g, s)

\* One element less.
LEMMA Smaller ==
    ASSUME NEW S, IsFiniteSet(S), NEW x \in S
    PROVE  /\ IsFiniteSet(S \ {x}) /\ Cardinality(S) \in Nat
           /\ Cardinality(S \ {x}) \in Nat /\ Cardinality(S \ {x}) = Cardinality(S) - 1
BY FS_RemoveElement, FS_CardinalityType, Zenon

\* The recursion of SumFunctionOnSet has a solution.
LEMMA SumExists ==
    ASSUME NEW S, IsFiniteSet(S), NEW f, \A x \in S : f[x] \in Int
    PROVE  \E g \in [SUBSET S -> Int] : Solves(f, g, S)
<1> DEFINE Good(g, n) == \A s \in SUBSET S : Cardinality(s) <= n => g[s] = Round(f, g, s)
           T == {n \in Nat : \E g \in [SUBSET S -> Int] : Good(g, n)}
<1>0. \A s \in SUBSET S : IsFiniteSet(s) /\ Cardinality(s) \in Nat
  BY FS_Subset, FS_CardinalityType, Zenon
<1>1. 0 \in T
  <2> DEFINE g == [s \in SUBSET S |-> 0]
  <2>1. ASSUME NEW s \in SUBSET S, Cardinality(s) <= 0 PROVE g[s] = Round(f, g, s)
    <3>0. Cardinality(s) = 0
      BY <1>0, <2>1
    <3>1. s = {}
      BY <1>0, <3>0, FS_EmptySet, Zenon
    <3> QED  BY <3>1 DEF Round
  <2>2. g \in [SUBSET S -> Int]
    OBVIOUS
  <2>3. Good(g, 0)
    BY <2>1
  <2> HIDE DEF g, Good
  <2> QED  BY <2>2, <2>3
<1>2. ASSUME NEW n \in Nat, n \in T PROVE n + 1 \in T
  <2>1. PICK g \in [SUBSET S -> Int] : Good(g, n)
    BY <1>2
  <2> DEFINE h == [s \in SUBSET S |-> Round(f, g, s)]
  <2>2. ASSUME NEW s \in SUBSET S PROVE Round(f, g, s) \in Int
    BY DEF Round
  <2>3. h \in [SUBSET S -> Int]
    BY <2>2
  <2>4. ASSUME NEW s \in SUBSET S, Cardinality(s) <= n + 1 PROVE h[s] = Round(f, h, s)
    <3>1. CASE s = {}
      BY <3>1 DEF Round
    <3>2. CASE s # {}
      <4> DEFINE x == CHOOSE y \in s : TRUE
      <4>1. x \in s
        BY <3>2
      <4> HIDE DEF x
      <4>2. IsFiniteSet(s)
        BY <1>0
      <4>3. Cardinality(s \ {x}) = Cardinality(s) - 1 /\ Cardinality(s) \in Nat
        BY <4>1, <4>2, Smaller, Zenon
      <4>4. s \ {x} \in SUBSET S /\ Cardinality(s \ {x}) <= n
        BY <4>3, <2>4
      <4>5. g[s \ {x}] = h[s \ {x}]
        BY <2>1, <4>4
      <4>6. h[s] = f[x] + g[s \ {x}] /\ Round(f, h, s) = f[x] + h[s \ {x}]
        BY <3>2 DEF Round, x
      <4> QED  BY <4>5, <4>6
    <3> QED  BY <3>1, <3>2
  <2>5. Good(h, n + 1)
    BY <2>4
  <2> HIDE DEF h, Good
  <2> QED  BY <2>3, <2>5
<1> DEFINE c == Cardinality(S)
<1>3. c \in T
  <2> HIDE DEF T
  <2> QED  BY <1>0, <1>1, <1>2, SetInduction
<1>4. PICK g \in [SUBSET S -> Int] : Good(g, c)
  BY <1>3
<1>5. ASSUME NEW s \in SUBSET S PROVE Cardinality(s) <= c
  BY FS_Subset, Zenon
<1> QED  BY <1>4, <1>5 DEF Solves

\* Two solutions agree where both are defined.
LEMMA SumUnique ==
    ASSUME NEW S, IsFiniteSet(S), NEW f, NEW g, NEW h, Solves(f, g, S), Solves(f, h, S)
    PROVE  g[S] = h[S]
<1> USE DEF Solves
<1> DEFINE T == {n \in Nat : \A s \in SUBSET S : Cardinality(s) = n => g[s] = h[s]}
<1>0. \A s \in SUBSET S : IsFiniteSet(s) /\ Cardinality(s) \in Nat
  BY FS_Subset, FS_CardinalityType, Zenon
<1>1. 0 \in T
  <2>1. ASSUME NEW s \in SUBSET S, Cardinality(s) = 0 PROVE g[s] = h[s]
    <3>1. s = {}
      BY <1>0, <2>1, FS_EmptySet, Zenon
    <3> QED  BY <3>1 DEF Round
  <2> QED  BY <2>1
<1>2. ASSUME NEW n \in Nat, n \in T PROVE n + 1 \in T
  <2>1. ASSUME NEW s \in SUBSET S, Cardinality(s) = n + 1 PROVE g[s] = h[s]
    <3> DEFINE x == CHOOSE y \in s : TRUE
    <3>1. s # {}
      BY <2>1, FS_EmptySet
    <3>2. x \in s
      BY <3>1
    <3>3. g[s] = f[x] + g[s \ {x}] /\ h[s] = f[x] + h[s \ {x}]
      BY <3>1 DEF Round
    <3> HIDE DEF x
    <3>4. IsFiniteSet(s)
      BY <1>0
    <3>5. Cardinality(s \ {x}) = Cardinality(s) - 1
      BY <3>2, <3>4, Smaller, Zenon
    <3>6. g[s \ {x}] = h[s \ {x}]
      BY <3>5, <2>1, <1>2
    <3> QED  BY <3>3, <3>6
  <2> QED  BY <2>1
<1>3. Cardinality(S) \in T
  <2> HIDE DEF T
  <2> QED  BY <1>0, <1>1, <1>2, SetInduction
<1> QED  BY <1>3

\* The sum over a set is that over one element and the rest.
LEMMA SumRound ==
    ASSUME NEW S, IsFiniteSet(S), NEW f, \A x \in S : f[x] \in Int
    PROVE  /\ SumFunctionOnSet(f, S) \in Int
           /\ S # {} => SumFunctionOnSet(f, S) =
                  f[CHOOSE x \in S : TRUE] + SumFunctionOnSet(f, S \ {CHOOSE x \in S : TRUE})
           /\ S = {} => SumFunctionOnSet(f, S) = 0
<1>1. ASSUME NEW U \in SUBSET S
      PROVE  \E g \in [SUBSET U -> Int] : Solves(f, g, U) /\ SumFunctionOnSet(f, U) = g[U]
  <2>1. IsFiniteSet(U)
    BY FS_Subset, Zenon
  <2>2. PICK g \in [SUBSET U -> Int] : Solves(f, g, U)
    BY <2>1, SumExists, Zenon
  <2>3. g = [s \in SUBSET U |-> Round(f, g, s)]
    BY <2>2 DEF Solves
  <2> DEFINE h == CHOOSE i : i = [s \in SUBSET U |-> Round(f, i, s)]
  <2>4. h = [s \in SUBSET U |-> Round(f, h, s)]
    BY <2>3
  <2>5. SumFunctionOnSet(f, U) = h[U]
    BY DEF SumFunctionOnSet, FoldFunctionOnSet, MapThenFoldSet, Round
  <2> HIDE DEF h
  <2>6. Solves(f, h, U)
    BY <2>4 DEF Solves
  <2>7. g[U] = h[U]
    BY <2>1, <2>2, <2>6, SumUnique, Zenon
  <2> QED  BY <2>2, <2>5, <2>7
<1>2. PICK g \in [SUBSET S -> Int] : Solves(f, g, S) /\ SumFunctionOnSet(f, S) = g[S]
  BY <1>1
<1>3. SumFunctionOnSet(f, S) \in Int
  BY <1>2
<1>4. ASSUME S # {}
      PROVE  SumFunctionOnSet(f, S) =
                  f[CHOOSE x \in S : TRUE] + SumFunctionOnSet(f, S \ {CHOOSE x \in S : TRUE})
  <2> DEFINE x == CHOOSE y \in S : TRUE
             U == S \ {x}
  <2>1. x \in S
    BY <1>4
  <2>2. g[S] = f[x] + g[U]
    BY <1>2, <1>4 DEF Round, Solves
  <2> HIDE DEF x
  <2>3. PICK h \in [SUBSET U -> Int] : Solves(f, h, U) /\ SumFunctionOnSet(f, U) = h[U]
    BY <1>1
  <2>4. Solves(f, g, U)
    BY <1>2 DEF Solves
  <2>5. IsFiniteSet(U)
    BY FS_Subset
  <2> HIDE DEF U
  <2>6. g[U] = h[U]
    BY <2>3, <2>4, <2>5, SumUnique, Zenon
  <2> QED  BY <1>2, <2>2, <2>3, <2>6 DEF x, U
<1>5. S = {} => SumFunctionOnSet(f, S) = 0
  BY <1>2 DEF Round, Solves
<1> QED  BY <1>3, <1>4, <1>5

\* It does not matter which element.
LEMMA SumRemove ==
    ASSUME NEW S, IsFiniteSet(S), NEW f, \A x \in S : f[x] \in Int, NEW x \in S
    PROVE  SumFunctionOnSet(f, S) = f[x] + SumFunctionOnSet(f, S \ {x})
<1> DEFINE T == {n \in Nat : \A s \in SUBSET S : \A y \in s : Cardinality(s) = n =>
                                SumFunctionOnSet(f, s) = f[y] + SumFunctionOnSet(f, s \ {y})}
<1>0. \A s \in SUBSET S : IsFiniteSet(s) /\ Cardinality(s) \in Nat
  BY FS_Subset, FS_CardinalityType, Zenon
<1>1. 0 \in T
  <2>1. ASSUME NEW s \in SUBSET S, Cardinality(s) = 0 PROVE s = {}
    BY <1>0, <2>1, FS_EmptySet, Zenon
  <2> QED  BY <2>1
<1>2. ASSUME NEW n \in Nat, n \in T PROVE n + 1 \in T
  <2>1. ASSUME NEW s \in SUBSET S, NEW y \in s, Cardinality(s) = n + 1
        PROVE  SumFunctionOnSet(f, s) = f[y] + SumFunctionOnSet(f, s \ {y})
    <3> DEFINE c == CHOOSE z \in s : TRUE
               F(u) == SumFunctionOnSet(f, u)
    <3>1. c \in s
      BY <2>1
    <3>2. \A u \in SUBSET S : F(u) \in Int
      BY <1>0, SumRound
    <3>3. F(s) = f[c] + F(s \ {c})
      BY <1>0, <2>1, SumRound
    <3> HIDE DEF c, F
    <3>4. CASE c = y
      BY <3>3, <3>4 DEF F
    <3>5. CASE c # y
      <4>1. IsFiniteSet(s)
        BY <1>0
      <4>2. Cardinality(s \ {c}) = n /\ Cardinality(s \ {y}) = n
        BY <2>1, <3>1, <4>1, Smaller
      <4>3. y \in s \ {c} /\ c \in s \ {y} /\ s \ {c} \in SUBSET S /\ s \ {y} \in SUBSET S
        BY <3>5, <3>1
      <4>4. F(s \ {c}) = f[y] + F((s \ {c}) \ {y})
        BY <1>2, <4>2, <4>3 DEF F
      <4>5. F(s \ {y}) = f[c] + F((s \ {y}) \ {c})
        BY <1>2, <4>2, <4>3 DEF F
      <4>6. (s \ {c}) \ {y} = (s \ {y}) \ {c}
        OBVIOUS
      <4> DEFINE r == F((s \ {y}) \ {c})
      <4>7. r \in Int /\ f[c] \in Int /\ f[y] \in Int
        BY <3>1, <3>2
      <4>8. F(s) = f[c] + (f[y] + r) /\ F(s \ {y}) = f[c] + r
        BY <3>3, <4>4, <4>5, <4>6
      <4> HIDE DEF r
      <4> QED  BY <4>7, <4>8 DEF F
    <3> QED  BY <3>4, <3>5
  <2> QED  BY <2>1
<1>3. Cardinality(S) \in T
  <2> HIDE DEF T
  <2> QED  BY <1>0, <1>1, <1>2, SetInduction
<1> QED  BY <1>3

\* The sum depends on the values in the set only.
LEMMA SumCongruence ==
    ASSUME NEW S, IsFiniteSet(S), NEW f, NEW g, \A x \in S : f[x] \in Int /\ g[x] = f[x]
    PROVE  SumFunctionOnSet(f, S) = SumFunctionOnSet(g, S)
<1> DEFINE T == {n \in Nat : \A s \in SUBSET S : Cardinality(s) = n =>
                                SumFunctionOnSet(f, s) = SumFunctionOnSet(g, s)}
<1>0. \A s \in SUBSET S : IsFiniteSet(s) /\ Cardinality(s) \in Nat
  BY FS_Subset, FS_CardinalityType, Zenon
<1>1. 0 \in T
  <2>1. ASSUME NEW s \in SUBSET S, Cardinality(s) = 0
        PROVE  SumFunctionOnSet(f, s) = SumFunctionOnSet(g, s)
    <3>1. s = {}
      BY <1>0, <2>1, FS_EmptySet, Zenon
    <3> QED  BY <1>0, <3>1, SumRound
  <2> QED  BY <2>1
<1>2. ASSUME NEW n \in Nat, n \in T PROVE n + 1 \in T
  <2>1. ASSUME NEW s \in SUBSET S, Cardinality(s) = n + 1
        PROVE  SumFunctionOnSet(f, s) = SumFunctionOnSet(g, s)
    <3>1. s # {}
      BY <2>1, FS_EmptySet
    <3>2. PICK x : x \in s
      BY <3>1
    <3>3. IsFiniteSet(s) /\ \A y \in s : f[y] \in Int /\ g[y] \in Int
      BY <1>0
    <3>4. SumFunctionOnSet(f, s) = f[x] + SumFunctionOnSet(f, s \ {x})
      BY <3>2, <3>3, SumRemove
    <3>5. SumFunctionOnSet(g, s) = g[x] + SumFunctionOnSet(g, s \ {x})
      BY <3>2, <3>3, SumRemove
    <3>6. Cardinality(s \ {x}) = n
      BY <2>1, <3>2, <3>3, Smaller
    <3>7. SumFunctionOnSet(f, s \ {x}) = SumFunctionOnSet(g, s \ {x})
      BY <1>2, <3>6
    <3> QED  BY <3>2, <3>4, <3>5, <3>7
  <2> QED  BY <2>1
<1>3. Cardinality(S) \in T
  <2> HIDE DEF T
  <2> QED  BY <1>0, <1>1, <1>2, SetInduction
<1> QED  BY <1>3

=============================================================================
