-------------------------- MODULE InductionLemmas --------------------------
(***************************************************************************)
(* Induction on the natural numbers, stated of sets, walks along a linked  *)
(* list, which it is needed for, and subsequences.                         *)
(***************************************************************************)
EXTENDS Integers, Sequences, Subsequence, FiniteSets, FiniteSetTheorems, TLAPS

(* A set with 0 and every successor of its members has all numbers, by the *)
(* pigeonhole principle: of the numbers up to n that are missing from S    *)
(* the predecessors are missing too, and n is none of these.               *)
LEMMA NatSetInduction ==
  ASSUME NEW S, 0 \in S, \A n \in Nat : n \in S => n + 1 \in S
  PROVE  Nat \subseteq S
<1> SUFFICES ASSUME NEW n \in Nat, n \notin S PROVE FALSE
  OBVIOUS
<1> DEFINE T == {m \in 0..n : m \notin S}
           f == [m \in T |-> m - 1]
<1>1. IsFiniteSet(T) /\ n \in T
  <2>1. IsFiniteSet(0..n)
    BY FS_Interval
  <2> QED
    BY <2>1, FS_Subset
<1>2. f \in [T -> T \ {n}]
  <2> SUFFICES ASSUME NEW m \in T PROVE m - 1 \in T \ {n}
    OBVIOUS
  <2>1. m # 0 /\ m - 1 \in 0..n /\ m - 1 # n
    OBVIOUS
  <2>2. m - 1 \in Nat /\ (m - 1) + 1 = m
    BY <2>1
  <2>3. m - 1 \notin S
    BY <2>2
  <2> QED
    BY <2>1, <2>3
<1>3. /\ IsFiniteSet(T \ {n})
      /\ Cardinality(T \ {n}) = Cardinality(T) - 1
      /\ Cardinality(T) \in Nat
  BY <1>1, FS_RemoveElement, FS_CardinalityType
<1>4. PICK x \in T, y \in T : x # y /\ f[x] = f[y]
  <2> HIDE DEF T, f
  <2>1. Cardinality(T \ {n}) < Cardinality(T)
    BY <1>3
  <2> QED
    BY <1>1, <1>2, <1>3, <2>1, FS_PigeonHole
<1> QED
  BY <1>4

(* A set of natural numbers that is not empty has a least member.          *)
LEMMA LeastMember ==
  ASSUME NEW S \in SUBSET Nat, S # {}
  PROVE  \E m \in S : \A n \in S : m <= n
<1> SUFFICES ASSUME \A m \in S : \E n \in S : ~(m <= n) PROVE FALSE
  OBVIOUS
<1> DEFINE U == {n \in Nat : \A m \in S : n < m}
<1>1. 0 \in U
  <2> SUFFICES ASSUME NEW m \in S PROVE 0 < m
    OBVIOUS
  <2> QED
    OBVIOUS
<1>2. \A n \in Nat : n \in U => n + 1 \in U
  <2> SUFFICES ASSUME NEW n \in Nat, n \in U, NEW m \in S PROVE n + 1 < m
    OBVIOUS
  <2>1. PICK l \in S : ~(m <= l)
    OBVIOUS
  <2> QED
    BY <2>1
<1>3. Nat \subseteq U
  <2> HIDE DEF U
  <2> QED
    BY <1>1, <1>2, NatSetInduction
<1>4. PICK m \in S : TRUE
  OBVIOUS
<1>5. m \in U
  <2> HIDE DEF U
  <2> QED
    BY <1>3, <1>4
<1> QED
  BY <1>4, <1>5

-----------------------------------------------------------------------------
(* Sequences without repetition.                                           *)

Elements(s) == {s[i] : i \in DOMAIN s}

Distinct(s) == \A i, j \in DOMAIN s : s[i] = s[j] => i = j

(* Such a sequence is as long as it has elements.                          *)
LEMMA DistinctLength ==
  ASSUME NEW S, NEW l \in Seq(S), Distinct(l)
  PROVE  IsFiniteSet(Elements(l)) /\ Cardinality(Elements(l)) = Len(l)
<1>1. PICK k \in Nat : k = Len(l) /\ DOMAIN l = 1..k
  OBVIOUS
<1> DEFINE f == [i \in 1..k |-> l[i]]
<1>2. IsFiniteSet(1..k) /\ Cardinality(1..k) = k
  BY FS_Interval
<1>3. f \in Surjection(1..k, Elements(l))
  BY <1>1 DEF Surjection, Elements
<1>4. f \in Injection(1..k, Elements(l))
  BY <1>1, <1>3 DEF Injection, IsInjective, Surjection, Distinct
<1>5. IsFiniteSet(Elements(l))
  BY <1>2, <1>3, FS_Surjection
<1>6. Cardinality(1..k) = Cardinality(Elements(l))
  BY <1>3, <1>4, <1>5, FS_Injection
<1> QED
  BY <1>1, <1>2, <1>5, <1>6

LEMMA DistinctFits ==
  ASSUME NEW S, IsFiniteSet(S), NEW l \in Seq(S), Distinct(l)
  PROVE  Len(l) <= Cardinality(S)
<1>1. Elements(l) \in SUBSET S
  BY DEF Elements
<1>2. Cardinality(Elements(l)) <= Cardinality(S)
  BY <1>1, FS_Subset
<1> QED
  BY <1>2, DistinctLength

-----------------------------------------------------------------------------
(* Walks.                                                                  *)

(* The i-th element of the list from head along next, null past its end.   *)
Walk(head, next, null) ==
  LET nth[i \in Nat] ==
        IF i = 0 THEN head
        ELSE IF nth[i-1] = null THEN null ELSE next[nth[i-1]]
  IN  nth

(* What a walk w of N steps comes by.                                      *)
Collected(w, N, null) ==
  [i \in 1..Cardinality({i \in 0..N : w[i] # null}) |-> w[i-1]]

(* The pointers link the elements of l, in this order.                     *)
Linked(l, head, next, null) ==
  /\ head = IF l = <<>> THEN null ELSE l[1]
  /\ \A i \in 1..Len(l) : next[l[i]] = IF i = Len(l) THEN null ELSE l[i + 1]

(* The walk meets them and then the end.                                   *)
LEMMA WalkAlong ==
  ASSUME NEW S, NEW l \in Seq(S), NEW head, NEW next, NEW null,
         null \notin S, Linked(l, head, next, null)
  PROVE  /\ DOMAIN Walk(head, next, null) = Nat
         /\ \A i \in Nat : Walk(head, next, null)[i] = IF i < Len(l) THEN l[i + 1] ELSE null
<1> DEFINE Is(f) == f = [i \in Nat |-> IF i = 0 THEN head
                                     ELSE IF f[i-1] = null THEN null ELSE next[f[i-1]]]
           w == Walk(head, next, null)
           g == [i \in Nat |-> IF i < Len(l) THEN l[i + 1] ELSE null]
<1>1. PICK k \in Nat : k = Len(l)
  OBVIOUS
<1>2. /\ \A i \in 1..k : l[i] \in S /\ l[i] # null
      /\ \A i \in 1..k : next[l[i]] = IF i = k THEN null ELSE l[i + 1]
      /\ head = IF k = 0 THEN null ELSE l[1]
  BY <1>1 DEF Linked
<1>3. \A i \in Nat : g[i] = IF i < k THEN l[i + 1] ELSE null
  BY <1>1
<1> HIDE DEF g
<1>4. ASSUME NEW i \in Nat
      PROVE  g[i] = IF i = 0 THEN head
                    ELSE IF g[i-1] = null THEN null ELSE next[g[i-1]]
  <2>1. CASE i = 0
    BY <1>2, <1>3, <2>1
  <2>2. CASE i # 0 /\ i - 1 < k
    <3>1. i - 1 \in Nat /\ i \in 1..k /\ g[i-1] = l[i] /\ l[i] # null
      BY <1>1, <1>2, <1>3, <2>2
    <3>2. next[l[i]] = IF i = k THEN null ELSE l[i + 1]
      BY <1>2, <3>1
    <3> QED
      BY <1>1, <1>3, <2>2, <3>1, <3>2
  <2>3. CASE i # 0 /\ ~(i - 1 < k)
    BY <1>1, <1>3, <2>3
  <2> QED
    BY <2>1, <2>2, <2>3
<1>5. Is(g)
  BY <1>4 DEF g
<1>6. Is(w)
  <2>1. w = CHOOSE f : Is(f)
    BY DEF Walk
  <2> HIDE DEF w, Is
  <2> QED
    BY <1>5, <2>1
<1> HIDE DEF w
<1>7. /\ DOMAIN w = Nat
      /\ \A i \in Nat : w[i] = IF i = 0 THEN head
                              ELSE IF w[i-1] = null THEN null ELSE next[w[i-1]]
  BY <1>6
<1> HIDE DEF Is
<1> DEFINE Same == {i \in Nat : w[i] = g[i]}
<1>8. 0 \in Same
  BY <1>4, <1>7
<1>9. \A i \in Nat : i \in Same => i + 1 \in Same
  <2> SUFFICES ASSUME NEW i \in Nat, w[i] = g[i] PROVE w[i + 1] = g[i + 1]
    OBVIOUS
  <2>1. i + 1 \in Nat /\ i + 1 # 0 /\ (i + 1) - 1 = i
    OBVIOUS
  <2>2. w[i + 1] = IF w[i] = null THEN null ELSE next[w[i]]
    BY <1>7, <2>1
  <2>3. g[i + 1] = IF g[i] = null THEN null ELSE next[g[i]]
    BY <1>4, <2>1
  <2> QED
    BY <2>2, <2>3
<1>10. Nat \subseteq Same
  <2> HIDE DEF Same
  <2> QED
    BY <1>8, <1>9, NatSetInduction
<1> QED
  BY <1>1, <1>3, <1>7, <1>10 DEF w

(* A walk of enough steps comes by the list and nothing else.              *)
LEMMA WalkCollects ==
  ASSUME NEW S, NEW l \in Seq(S), NEW head, NEW next, NEW null,
         null \notin S, Linked(l, head, next, null), NEW N \in Nat, Len(l) <= N + 1,
         NEW w, w = Walk(head, next, null)
  PROVE  Collected(w, N, null) = l
<1> DEFINE n == Cardinality({i \in 0..N : w[i] # null})
<1>1. \A i \in Nat : w[i] = IF i < Len(l) THEN l[i + 1] ELSE null
  BY WalkAlong
<1>2. PICK k \in Nat : k = Len(l)
  OBVIOUS
<1>3. \A i \in 1..k : l[i] # null
  BY <1>2
<1>4. {i \in 0..N : w[i] # null} = 0..(k - 1)
  <2>1. ASSUME NEW i \in 0..N PROVE w[i] # null <=> i < k
    <3>1. i < k => i + 1 \in 1..k
      BY <1>2
    <3> QED
      BY <1>1, <1>2, <1>3, <3>1
  <2>2. 0..(k - 1) \subseteq 0..N
    BY <1>2
  <2> QED
    BY <2>1, <2>2
<1>5. n = k
  <2>1. Cardinality(0..(k - 1)) = k
    BY FS_Interval
  <2> QED
    BY <1>4, <2>1
<1> HIDE DEF n
<1>6. \A i \in 1..k : w[i - 1] = l[i]
  <2> SUFFICES ASSUME NEW i \in 1..k PROVE w[i - 1] = l[i]
    OBVIOUS
  <2>1. i - 1 \in Nat /\ i - 1 < k /\ (i - 1) + 1 = i
    OBVIOUS
  <2> QED
    BY <1>1, <1>2, <2>1
<1>7. l = [i \in 1..k |-> l[i]]
  BY <1>2
<1>8. [i \in 1..n |-> w[i - 1]] = l
  BY <1>5, <1>6, <1>7
<1> QED
  BY <1>8 DEF n, Collected

-----------------------------------------------------------------------------
(* Linking in and out.                                                     *)

(* Only the pointers of its own elements matter to a list.                 *)
LEMMA LinkedFrame ==
  ASSUME NEW S, NEW l \in Seq(S), NEW head, NEW next, NEW next2, NEW null,
         Linked(l, head, next, null), \A x \in Elements(l) : next2[x] = next[x]
  PROVE  Linked(l, head, next2, null)
<1>1. \A i \in 1..Len(l) : l[i] \in Elements(l)
  BY DEF Elements
<1> QED
  BY <1>1 DEF Linked

(* l is a list with two ends.                                              *)
IsList(l, head, last, next, null) ==
  /\ Linked(l, head, next, null)
  /\ Distinct(l)
  /\ l # <<>> => last = l[Len(l)]

(* The pointers after t was linked in behind the last element, and after   *)
(* the first element was unlinked.                                         *)
PutLast(S, head, next, last, t, null) ==
  [u \in S |-> IF u = t THEN null
               ELSE IF head # null /\ u = last THEN t ELSE next[u]]

TakeFirst(head, next, null) == [next EXCEPT ![head] = null]

LEMMA LinkLast ==
  ASSUME NEW S, NEW null, NEW l \in Seq(S), NEW head, NEW last,
         NEW next \in [S -> S \cup {null}], null \notin S,
         IsList(l, head, last, next, null), NEW t \in S \ Elements(l),
         NEW head2, head2 = IF head = null THEN t ELSE head
  PROVE  /\ IsList(Append(l, t), head2, t, PutLast(S, head, next, last, t, null), null)
         /\ Elements(Append(l, t)) = Elements(l) \cup {t}
<1> DEFINE l2 == Append(l, t)
           next2 == PutLast(S, head, next, last, t, null)
<1>1. PICK k \in Nat : k = Len(l) /\ DOMAIN l = 1..k
  OBVIOUS
<1>2. \A i \in 1..k : l[i] \in S /\ l[i] # t /\ l[i] # null
  BY <1>1 DEF Elements
<1>3. \A i \in 1..k : next[l[i]] = IF i = k THEN null ELSE l[i + 1]
  BY <1>1 DEF IsList, Linked
<1>4. l = <<>> <=> k = 0
  BY <1>1
<1>5. head = IF k = 0 THEN null ELSE l[1]
  BY <1>4 DEF IsList, Linked
<1>6. \A i, j \in 1..k : l[i] = l[j] => i = j
  BY <1>1 DEF IsList, Distinct
<1>7. head # null <=> k # 0
  <2>1. k # 0 => 1 \in 1..k
    BY <1>1
  <2> QED
    BY <1>2, <1>5, <2>1
<1>8. k # 0 => last = l[k]
  BY <1>1, <1>4 DEF IsList
<1>9. /\ l2 \in Seq(S) /\ Len(l2) = k + 1 /\ DOMAIN l2 = 1..(k + 1) /\ l2 # <<>>
      /\ \A i \in 1..k : l2[i] = l[i]
      /\ l2[k + 1] = t
  <2>1. l2 \in Seq(S) /\ Len(l2) = k + 1
    BY <1>1
  <2>2. (\A i \in 1..k : l2[i] = l[i]) /\ l2[k + 1] = t
    BY <1>1
  <2> HIDE DEF l2
  <2>3. l2 # <<>>
    BY <1>1, <2>1
  <2>4. DOMAIN l2 = 1..(k + 1)
    BY <2>1
  <2> QED
    BY <2>1, <2>2, <2>3, <2>4
<1>10. \A u \in S : next2[u] = IF u = t THEN null
                              ELSE IF head # null /\ u = last THEN t ELSE next[u]
  BY DEF PutLast
<1> HIDE DEF l2, next2
<1>11. \A i \in 1..(k + 1) : i \in 1..k \/ i = k + 1
  BY <1>1
<1>12. head2 = l2[1]
  <2>1. k # 0 => 1 \in 1..k
    BY <1>1
  <2> QED
    BY <1>1, <1>5, <1>7, <1>9, <2>1
<1>13. ASSUME NEW i \in 1..(k + 1)
       PROVE  next2[l2[i]] = IF i = k + 1 THEN null ELSE l2[i + 1]
  <2>1. CASE i = k + 1
    BY <1>9, <1>10, <2>1
  <2>2. CASE i = k /\ i \in 1..k
    <3>1. next2[l[k]] = t
      <4>1. head # null /\ l[k] = last
        BY <1>7, <1>8, <2>2
      <4> QED
        BY <1>2, <1>10, <2>2, <4>1
    <3> QED
      BY <1>1, <1>9, <2>2, <3>1
  <2>3. CASE i # k /\ i \in 1..k
    <3>1. k # 0 /\ k \in 1..k /\ i + 1 \in 1..k /\ i # k + 1
      BY <1>1, <2>3
    <3>2. l[i] # last
      BY <1>6, <1>8, <2>3, <3>1
    <3>3. next2[l[i]] = l[i + 1]
      BY <1>2, <1>3, <1>10, <2>3, <3>2
    <3> QED
      BY <1>9, <2>3, <3>1, <3>3
  <2> QED
    BY <1>11, <2>1, <2>2, <2>3
<1>14. Linked(l2, head2, next2, null)
  BY <1>9, <1>12, <1>13 DEF Linked
<1>15. Distinct(l2)
  BY <1>2, <1>6, <1>9, <1>11 DEF Distinct
<1>16. Elements(l2) = Elements(l) \cup {t}
  <2>1. k + 1 \in 1..(k + 1) /\ \A i \in 1..k : i \in 1..(k + 1)
    BY <1>1
  <2> QED
    BY <1>1, <1>9, <1>11, <2>1 DEF Elements
<1>17. IsList(l2, head2, t, next2, null)
  BY <1>9, <1>14, <1>15 DEF IsList
<1> QED
  BY <1>16, <1>17 DEF l2, next2

(* Unlinking the first element.                                            *)
LEMMA UnlinkFirst ==
  ASSUME NEW S, NEW null, NEW l \in Seq(S), l # <<>>, NEW head, NEW last,
         NEW next \in [S -> S \cup {null}], null \notin S,
         IsList(l, head, last, next, null)
  PROVE  /\ head \in Elements(l)
         /\ IsList(Tail(l), next[head], last, TakeFirst(head, next, null), null)
         /\ Elements(Tail(l)) = Elements(l) \ {head}
<1> DEFINE l2 == Tail(l)
           next2 == TakeFirst(head, next, null)
<1>1. PICK k \in Nat : Len(l) = k + 1 /\ DOMAIN l = 1..(k + 1)
  <2>1. Len(l) \in Nat /\ Len(l) # 0
    OBVIOUS
  <2>2. PICK k \in Nat : Len(l) = k + 1
    <3>1. Len(l) - 1 \in Nat /\ Len(l) = (Len(l) - 1) + 1
      BY <2>1
    <3> QED
      BY <3>1
  <2>3. DOMAIN l = 1..Len(l)
    OBVIOUS
  <2> QED
    BY <2>2, <2>3
<1>2. \A i \in 1..(k + 1) : l[i] \in S /\ l[i] \in Elements(l)
  BY <1>1 DEF Elements
<1>3. \A i \in 1..(k + 1) : next[l[i]] = IF i = k + 1 THEN null ELSE l[i + 1]
  BY <1>1 DEF IsList, Linked
<1>4. 1 \in 1..(k + 1) /\ \A i \in 1..k : i \in 1..(k + 1) /\ i + 1 \in 1..(k + 1) /\ i + 1 # 1
  BY <1>1
<1>5. head = l[1] /\ head \in Elements(l)
  BY <1>2, <1>4 DEF IsList, Linked
<1>6. \A i, j \in 1..(k + 1) : l[i] = l[j] => i = j
  BY <1>1 DEF IsList, Distinct
<1>7. /\ l2 \in Seq(S) /\ Len(l2) = k /\ DOMAIN l2 = 1..k
      /\ \A i \in 1..k : l2[i] = l[i + 1]
  BY <1>1
<1> HIDE DEF l2
<1>8. l2 = <<>> <=> k = 0
  BY <1>1, <1>7
<1>9. \A i \in 1..k : next2[l2[i]] = next[l[i + 1]]
  BY <1>2, <1>4, <1>5, <1>6, <1>7 DEF TakeFirst
<1> HIDE DEF next2
<1>10. ASSUME NEW i \in 1..k
       PROVE  next2[l2[i]] = IF i = k THEN null ELSE l2[i + 1]
  <2>1. i + 1 \in 1..(k + 1) /\ (i + 1 = k + 1 <=> i = k)
    BY <1>1
  <2>2. next[l[i + 1]] = IF i + 1 = k + 1 THEN null ELSE l[(i + 1) + 1]
    BY <1>3, <2>1
  <2>3. i # k => i + 1 \in 1..k
    BY <1>1
  <2> QED
    BY <1>7, <1>9, <2>1, <2>2, <2>3
<1>11. next[head] = IF k = 0 THEN null ELSE l2[1]
  <2>1. k # 0 => 1 \in 1..k /\ 1 + 1 = 2
    BY <1>1
  <2>2. next[l[1]] = IF 1 = k + 1 THEN null ELSE l[1 + 1]
    BY <1>3, <1>4
  <2>3. 1 = k + 1 <=> k = 0
    BY <1>1
  <2> QED
    BY <1>5, <1>7, <2>1, <2>2, <2>3
<1>12. Linked(l2, next[head], next2, null)
  BY <1>7, <1>8, <1>10, <1>11 DEF Linked
<1>13. Distinct(l2)
  <2> SUFFICES ASSUME NEW i \in 1..k, NEW j \in 1..k, l2[i] = l2[j] PROVE i = j
    BY <1>7 DEF Distinct
  <2>1. l[i + 1] = l[j + 1] /\ i + 1 \in 1..(k + 1) /\ j + 1 \in 1..(k + 1)
    BY <1>4, <1>7
  <2>2. i + 1 = j + 1
    BY <1>6, <2>1
  <2> QED
    BY <2>2
<1>14. Elements(l2) = Elements(l) \ {head}
  <2>1. ASSUME NEW i \in 1..k PROVE l2[i] \in Elements(l) \ {head}
    <3>1. l2[i] = l[i + 1] /\ i + 1 \in 1..(k + 1) /\ i + 1 # 1
      BY <1>4, <1>7
    <3>2. l[i + 1] # l[1]
      BY <1>4, <1>6, <3>1
    <3> QED
      BY <1>2, <1>5, <3>1, <3>2
  <2>2. ASSUME NEW i \in 1..(k + 1), l[i] # head PROVE l[i] \in Elements(l2)
    <3>1. i - 1 \in 1..k /\ (i - 1) + 1 = i
      BY <1>1, <1>5, <2>2
    <3> QED
      BY <1>7, <3>1 DEF Elements
  <2>3. Elements(l2) \subseteq Elements(l) \ {head}
    BY <1>7, <2>1 DEF Elements
  <2>4. Elements(l) \ {head} \subseteq Elements(l2)
    BY <1>1, <2>2 DEF Elements
  <2> QED
    BY <2>3, <2>4
<1>15. l2 # <<>> => last = l2[Len(l2)]
  <2>1. k # 0 => k \in 1..k
    BY <1>1
  <2>2. l # <<>> => last = l[Len(l)]
    BY DEF IsList
  <2> QED
    BY <1>1, <1>7, <1>8, <2>1, <2>2
<1>16. IsList(l2, next[head], last, next2, null)
  BY <1>12, <1>13, <1>15 DEF IsList
<1> QED
  BY <1>5, <1>14, <1>16 DEF l2, next2

-----------------------------------------------------------------------------
(* Subsequences.                                                           *)

(* Of a sequence, all is kept whose elements are all in the set.           *)
LEMMA KeptAll ==
  ASSUME NEW T, NEW q \in Seq(T), NEW S, Elements(q) \subseteq S
  PROVE  Kept(q, S) = q
<1>1. PICK n \in Nat : n = Len(q) /\ DOMAIN q = 1..n
  OBVIOUS
<1> DEFINE at == {i \in DOMAIN q : q[i] \in S}
           nth(k) == CHOOSE i \in at : Cardinality({j \in at : j <= i}) = k
<1>2. at = 1..n
  BY <1>1 DEF Elements
<1>3. \A i \in 1..n : Cardinality({j \in at : j <= i}) = i
  <2> SUFFICES ASSUME NEW i \in 1..n PROVE Cardinality({j \in at : j <= i}) = i
    OBVIOUS
  <2>1. {j \in at : j <= i} = 1..i
    BY <1>2
  <2>2. Cardinality(1..i) = i
    BY FS_Interval
  <2> QED
    BY <2>1, <2>2
<1>4. \A k \in 1..n : nth(k) = k
  BY <1>2, <1>3
<1>5. Cardinality(at) = n
  <2>1. Cardinality(1..n) = n
    BY FS_Interval
  <2> QED
    BY <1>2, <2>1
<1>6. Kept(q, S) = [k \in 1..Cardinality(at) |-> q[nth(k)]]
  BY DEF Kept
<1> HIDE DEF at, nth
<1> QED
  BY <1>1, <1>4, <1>5, <1>6

(* Nothing is kept if none of its elements is in the set.                  *)
LEMMA KeptNone ==
  ASSUME NEW T, NEW q \in Seq(T), NEW S, Elements(q) \cap S = {}
  PROVE  Kept(q, S) = <<>>
<1> DEFINE at == {i \in DOMAIN q : q[i] \in S}
           nth(k) == CHOOSE i \in at : Cardinality({j \in at : j <= i}) = k
<1>1. at = {}
  BY DEF Elements
<1>2. Cardinality(at) = 0
  BY <1>1, FS_EmptySet
<1>3. Kept(q, S) = [k \in 1..Cardinality(at) |-> q[nth(k)]]
  BY DEF Kept
<1> HIDE DEF at, nth
<1>4. DOMAIN Kept(q, S) = {}
  BY <1>2, <1>3
<1>5. Kept(q, S) = [k \in 1..0 |-> q[nth(k)]]
  BY <1>2, <1>3
<1>6. Kept(q, S) \in Seq(T)
  BY <1>5
<1>7. Len(Kept(q, S)) = 0
  BY <1>5
<1> QED
  BY <1>6, <1>7
=============================================================================
