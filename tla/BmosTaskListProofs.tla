------------------------- MODULE BmosTaskListProofs -------------------------
(***************************************************************************)
(* The order of TASK_LIST, for any number of tasks and any priorities.     *)
(***************************************************************************)
EXTENDS BmosTaskList, InductionLemmas, SequenceTheorems

-----------------------------------------------------------------------------
(* Sequences with one element more.                                        *)

(* s with t behind its first i elements.                                   *)
Insert(s, i, t) ==
  [j \in 1..(Len(s) + 1) |-> IF j <= i THEN s[j] ELSE IF j = i + 1 THEN t ELSE s[j-1]]

(* The elements of s keep their order, the first i come before t, the      *)
(* others behind it.                                                       *)
LEMMA InsertOrder ==
  ASSUME NEW s \in Seq(Task), NEW i \in 0..Len(s), NEW t \in Task,
         Distinct(s), t \notin Elements(s)
  PROVE  LET s2 == Insert(s, i, t)
         IN  /\ s2 \in Seq(Task) /\ Len(s2) = Len(s) + 1
             /\ Elements(s2) = Elements(s) \cup {t}
             /\ Distinct(s2)
             /\ \A u, v \in Elements(s) : Before(s2, u, v) <=> Before(s, u, v)
             /\ \A j \in 1..Len(s) : Before(s2, t, s[j]) <=> j > i
             /\ \A j \in 1..Len(s) : Before(s2, s[j], t) <=> j <= i
             /\ ~Before(s2, t, t)
<1> DEFINE s2 == Insert(s, i, t)
           m(j) == IF j <= i THEN j ELSE j + 1
<1>1. PICK k \in Nat : k = Len(s) /\ DOMAIN s = 1..k
  OBVIOUS
<1>2. /\ s2 \in Seq(Task) /\ Len(s2) = k + 1 /\ DOMAIN s2 = 1..(k + 1)
      /\ s2[i + 1] = t
      /\ i + 1 \in 1..(k + 1)
      /\ \A j \in 1..k : m(j) \in 1..(k + 1) /\ m(j) # i + 1 /\ s2[m(j)] = s[j]
  BY <1>1 DEF Insert
<1>3. \A l \in 1..(k + 1) : l = i + 1 \/ \E j \in 1..k : l = m(j)
  <2> SUFFICES ASSUME NEW l \in 1..(k + 1), l # i + 1 PROVE \E j \in 1..k : l = m(j)
    OBVIOUS
  <2>1. CASE l <= i
    BY <1>1, <2>1
  <2>2. CASE ~(l <= i)
    <3>1. l - 1 \in 1..k /\ l = m(l - 1)
      BY <1>1, <2>2
    <3> QED
      BY <3>1
  <2> QED
    BY <2>1, <2>2
<1>4. \A j, l \in 1..k : m(j) < m(l) <=> j < l
  BY <1>1
<1>5. \A j \in 1..k : (m(j) < i + 1 <=> j <= i) /\ (i + 1 < m(j) <=> j > i)
  BY <1>1
<1>6. \A j, l \in 1..k : m(j) = m(l) => j = l
  BY <1>1
<1> HIDE DEF s2, m
<1>7. \A j \in 1..k : s[j] # t /\ s[j] \in Elements(s)
  BY <1>1 DEF Elements
<1>8. Elements(s2) = Elements(s) \cup {t}
  <2>1. ASSUME NEW l \in 1..(k + 1) PROVE s2[l] \in Elements(s) \cup {t}
    BY <1>2, <1>3, <1>7
  <2>2. ASSUME NEW j \in 1..k PROVE s[j] \in Elements(s2)
    BY <1>2 DEF Elements
  <2>3. t \in Elements(s2)
    BY <1>2 DEF Elements
  <2> QED
    BY <1>1, <1>2, <2>1, <2>2, <2>3 DEF Elements
<1>9. Distinct(s2)
  <2> SUFFICES ASSUME NEW x \in 1..(k + 1), NEW y \in 1..(k + 1), s2[x] = s2[y]
               PROVE  x = y
    BY <1>2 DEF Distinct
  <2>1. CASE x = i + 1 \/ y = i + 1
    BY <1>2, <1>3, <1>7, <2>1
  <2>2. CASE x # i + 1 /\ y # i + 1
    <3>1. PICK j \in 1..k, l \in 1..k : x = m(j) /\ y = m(l)
      BY <1>3, <2>2
    <3>2. s[j] = s[l]
      BY <1>2, <3>1
    <3> QED
      BY <1>1, <3>1, <3>2 DEF Distinct
  <2> QED
    BY <2>1, <2>2
(* Where elements are in s2 is where they are in s, by m.                  *)
<1>10. \A l \in 1..(k + 1) : \A j \in 1..k : s2[l] = s[j] => l = m(j)
  BY <1>2, <1>9 DEF Distinct
<1>11. \A l \in 1..(k + 1) : s2[l] = t => l = i + 1
  BY <1>2, <1>9 DEF Distinct
<1>12. \A x, y : Before(s2, x, y) <=> \E l, n \in 1..(k + 1) : l < n /\ s2[l] = x /\ s2[n] = y
  BY <1>2 DEF Before
<1>13. \A j, l \in 1..k : Before(s2, s[j], s[l]) <=> j < l
  <2> SUFFICES ASSUME NEW j \in 1..k, NEW l \in 1..k
               PROVE  Before(s2, s[j], s[l]) <=> j < l
    OBVIOUS
  <2>1. Before(s2, s[j], s[l]) <=> m(j) < m(l)
    BY <1>2, <1>10, <1>12
  <2> QED
    BY <1>4, <2>1
<1>14. \A j, l \in 1..k : Before(s, s[j], s[l]) <=> j < l
  <2> SUFFICES ASSUME NEW j \in 1..k, NEW l \in 1..k
               PROVE  Before(s, s[j], s[l]) <=> j < l
    OBVIOUS
  <2> QED
    BY <1>1 DEF Before, Distinct
<1>15. \A u, v \in Elements(s) : Before(s2, u, v) <=> Before(s, u, v)
  <2> SUFFICES ASSUME NEW u \in Elements(s), NEW v \in Elements(s)
               PROVE  Before(s2, u, v) <=> Before(s, u, v)
    OBVIOUS
  <2>1. PICK j \in 1..k, l \in 1..k : u = s[j] /\ v = s[l]
    BY <1>1 DEF Elements
  <2> QED
    BY <1>13, <1>14, <2>1
<1>16. \A j \in 1..k : /\ Before(s2, t, s[j]) <=> j > i
                       /\ Before(s2, s[j], t) <=> j <= i
  <2> SUFFICES ASSUME NEW j \in 1..k
               PROVE  /\ Before(s2, t, s[j]) <=> j > i
                      /\ Before(s2, s[j], t) <=> j <= i
    OBVIOUS
  <2>1. Before(s2, t, s[j]) <=> i + 1 < m(j)
    BY <1>2, <1>10, <1>11, <1>12
  <2>2. Before(s2, s[j], t) <=> m(j) < i + 1
    BY <1>2, <1>10, <1>11, <1>12
  <2> QED
    BY <1>5, <2>1, <2>2
<1>17. ~Before(s2, t, t)
  BY <1>11, <1>12
<1> QED
  BY <1>1, <1>2, <1>8, <1>9, <1>15, <1>16, <1>17 DEF s2

(* Append inserts at the end.                                              *)
LEMMA AppendInserts ==
  ASSUME NEW s \in Seq(Task), NEW t \in Task
  PROVE  Append(s, t) = Insert(s, Len(s), t)
<1>1. PICK k \in Nat : k = Len(s) /\ DOMAIN s = 1..k
  OBVIOUS
<1> DEFINE a == Append(s, t)
           b == Insert(s, k, t)
<1>2. /\ a \in Seq(Task) /\ Len(a) = k + 1
      /\ \A j \in 1..k : a[j] = s[j]
      /\ a[k + 1] = t
  BY <1>1
<1>3. /\ b \in Seq(Task) /\ Len(b) = k + 1
      /\ \A j \in 1..k : b[j] = s[j]
      /\ b[k + 1] = t
  BY <1>1 DEF Insert
<1> HIDE DEF a, b
<1>4. \A j \in 1..(k + 1) : a[j] = b[j]
  <2> SUFFICES ASSUME NEW j \in 1..(k + 1) PROVE a[j] = b[j]
    OBVIOUS
  <2>1. j \in 1..k \/ j = k + 1
    OBVIOUS
  <2> QED
    BY <1>2, <1>3, <2>1
<1>5. a = b
  BY <1>2, <1>3, <1>4, SeqEqual
<1> QED
  BY <1>1, <1>5 DEF a, b

(* Linking t in behind i elements.                                         *)
LEMMA LinkIn ==
  ASSUME NEW s \in Seq(Task), NEW i \in 0..Len(s), NEW t \in Task,
         Distinct(s), t \notin Elements(s),
         NEW head, NEW nxt \in [Task -> Task \cup {NULL}], Linked(s, head, nxt, NULL)
  PROVE  Linked(Insert(s, i, t),
                IF i = 0 THEN t ELSE head,
                [u \in Task |-> IF u = t THEN IF i < Len(s) THEN s[i + 1] ELSE NULL
                                ELSE IF i > 0 /\ u = s[i] THEN t ELSE nxt[u]],
                NULL)
<1> DEFINE s2 == Insert(s, i, t)
           nxt2 == [u \in Task |-> IF u = t THEN IF i < Len(s) THEN s[i + 1] ELSE NULL
                                   ELSE IF i > 0 /\ u = s[i] THEN t ELSE nxt[u]]
           head2 == IF i = 0 THEN t ELSE head
<1>1. PICK k \in Nat : k = Len(s) /\ DOMAIN s = 1..k
  OBVIOUS
<1>2. /\ \A j \in 1..k : /\ s[j] \in Task /\ s[j] # t
                         /\ nxt[s[j]] = IF j = k THEN NULL ELSE s[j + 1]
      /\ head = IF k = 0 THEN NULL ELSE s[1]
      /\ \A j, l \in 1..k : s[j] = s[l] => j = l
  <2>1. \A j \in 1..k : s[j] \in Task /\ s[j] # t
    BY <1>1 DEF Elements
  <2>2. \A j \in 1..k : nxt[s[j]] = IF j = k THEN NULL ELSE s[j + 1]
    BY <1>1 DEF Linked
  <2>3. s = <<>> <=> k = 0
    BY <1>1
  <2>4. head = IF k = 0 THEN NULL ELSE s[1]
    BY <2>3 DEF Linked
  <2>5. \A j, l \in 1..k : s[j] = s[l] => j = l
    BY <1>1 DEF Distinct
  <2> QED
    BY <2>1, <2>2, <2>4, <2>5
<1>3. /\ Len(s2) = k + 1 /\ s2 # <<>>
      /\ \A j \in 1..(k + 1) : s2[j] = IF j <= i THEN s[j] ELSE IF j = i + 1 THEN t ELSE s[j - 1]
  BY <1>1 DEF Insert
<1>4. \A u \in Task : nxt2[u] = IF u = t THEN IF i < k THEN s[i + 1] ELSE NULL
                                ELSE IF i > 0 /\ u = s[i] THEN t ELSE nxt[u]
  BY <1>1
<1> HIDE DEF s2, nxt2
<1>5. head2 = s2[1]
  <2>1. CASE i = 0
    BY <1>1, <1>3, <2>1
  <2>2. CASE i # 0
    <3>1. i >= 1 /\ k >= 1
      BY <1>1, <2>2
    <3>2. s2[1] = s[1]
      BY <1>1, <1>3, <3>1
    <3> QED
      BY <1>2, <2>2, <3>1, <3>2
  <2> QED
    BY <2>1, <2>2
<1>6. ASSUME NEW j \in 1..(k + 1)
      PROVE  nxt2[s2[j]] = IF j = k + 1 THEN NULL ELSE s2[j + 1]
  <2>1. CASE j < i
    <3>1. j \in 1..k /\ j # k /\ i \in 1..k /\ j + 1 \in 1..k
      BY <1>1, <2>1
    <3>2. s2[j] = s[j] /\ s2[j + 1] = s[j + 1]
      BY <1>1, <1>3, <2>1, <3>1
    <3>3. nxt2[s[j]] = nxt[s[j]]
      BY <1>2, <1>4, <2>1, <3>1
    <3> QED
      BY <1>1, <1>2, <3>1, <3>2, <3>3
  <2>2. CASE j = i
    <3>1. j \in 1..k /\ j # k + 1 /\ i > 0 /\ j + 1 \in 1..(k + 1)
      BY <1>1, <2>2
    <3>2. s2[j] = s[j] /\ s2[j + 1] = t
      BY <1>1, <1>3, <2>2, <3>1
    <3>3. nxt2[s[j]] = t
      BY <1>2, <1>4, <2>2, <3>1
    <3> QED
      BY <3>1, <3>2, <3>3
  <2>3. CASE j = i + 1
    <3>1. s2[j] = t
      BY <1>1, <1>3, <2>3
    <3>2. nxt2[t] = IF i < k THEN s[i + 1] ELSE NULL
      BY <1>4
    <3>3. i < k => s2[j + 1] = s[i + 1]
      <4> SUFFICES ASSUME i < k PROVE s2[j + 1] = s[i + 1]
        OBVIOUS
      <4>1. j + 1 \in 1..(k + 1) /\ ~(j + 1 <= i) /\ j + 1 # i + 1 /\ (j + 1) - 1 = i + 1
        BY <1>1, <2>3
      <4> QED
        BY <1>3, <4>1
    <3> QED
      BY <1>1, <2>3, <3>1, <3>2, <3>3
  <2>4. CASE j > i + 1
    <3>1. PICK l \in 1..k : j = l + 1 /\ l > i
      <4>1. j - 1 \in 1..k /\ j = (j - 1) + 1 /\ j - 1 > i
        BY <1>1, <2>4
      <4> QED
        BY <4>1
    <3>2. s2[j] = s[l]
      <4>1. ~(j <= i) /\ j # i + 1 /\ j - 1 = l
        BY <1>1, <3>1
      <4> QED
        BY <1>3, <4>1
    <3>3. s[l] # t /\ ~(i > 0 /\ s[l] = s[i])
      BY <1>1, <1>2, <3>1
    <3>4. nxt2[s[l]] = nxt[s[l]]
      BY <1>2, <1>4, <3>3
    <3>5. nxt[s[l]] = IF l = k THEN NULL ELSE s[l + 1]
      BY <1>2
    <3>6. l # k => s2[j + 1] = s[l + 1]
      <4> SUFFICES ASSUME l # k PROVE s2[j + 1] = s[l + 1]
        OBVIOUS
      <4>1. j + 1 \in 1..(k + 1) /\ ~(j + 1 <= i) /\ j + 1 # i + 1 /\ (j + 1) - 1 = l + 1
        BY <1>1, <3>1
      <4> QED
        BY <1>3, <4>1
    <3> QED
      BY <1>1, <3>1, <3>2, <3>4, <3>5, <3>6
  <2> QED
    BY <1>1, <2>1, <2>2, <2>3, <2>4
<1>7. Linked(s2, head2, nxt2, NULL)
  BY <1>1, <1>3, <1>5, <1>6 DEF Linked
<1> QED
  BY <1>7 DEF s2, nxt2

-----------------------------------------------------------------------------
(* The invariant: s is the list, and its order.                            *)

TypeInv ==
  /\ TASK_LIST \in Task \cup {NULL}
  /\ next \in [Task -> Task \cup {NULL}]
  /\ prio \in [Task -> Nat]
  /\ created \in Seq(Task)
  /\ Distinct(created)

InOrder(s) ==
  \A u, v \in Created :
    Before(s, u, v) <=> \/ prio[u] > prio[v]
                        \/ prio[u] = prio[v] /\ Before(created, u, v)

IsTaskList(s) ==
  /\ Linked(s, TASK_LIST, next, NULL)
  /\ Len(s) = Len(created)
  /\ Elements(s) = Created
  /\ Distinct(s)
  /\ InOrder(s)
  /\ Idle \in Created => s # <<>> /\ s[Len(s)] = Idle

ListInv == TypeInv /\ \E s \in Seq(Task) : IsTaskList(s)

LEMMA InitList == TaskListInit => ListInv
<1> SUFFICES ASSUME TaskListInit PROVE ListInv
  OBVIOUS
<1>1. TypeInv
  BY DEF TypeInv, TaskListInit, Distinct
<1>2. <<>> \in Seq(Task) /\ Created = {} /\ Elements(<<>>) = {}
  BY DEF TaskListInit, Created, Elements
<1>3. IsTaskList(<<>>)
  BY <1>2 DEF IsTaskList, TaskListInit, Linked, Distinct, InOrder
<1> QED
  BY <1>1, <1>2, <1>3 DEF ListInv

(* task_init(t, p), whatever p is, with idle only at priority 0.           *)
LEMMA InitTask ==
  ASSUME ListInv, NEW t \in Task, NEW p \in Nat, Idle \notin Created,
         t = Idle => p = 0, task_init(t, p)
  PROVE  ListInv'
<1> USE TaskListAssumption DEF TaskListAssumption
<1>1. PICK s \in Seq(Task) : IsTaskList(s)
  BY DEF ListInv
<1>2. PICK k \in Nat : k = Len(s) /\ DOMAIN s = 1..k
  OBVIOUS
<1>3. /\ TypeInv
      /\ Linked(s, TASK_LIST, next, NULL)
      /\ k = Len(created) /\ Elements(s) = Created /\ Distinct(s)
      /\ InOrder(s)
  BY <1>1, <1>2 DEF ListInv, IsTaskList
<1>4. \A n \in Nat : Nth[n] = IF n < k THEN s[n + 1] ELSE NULL
  BY <1>2, <1>3, WalkAlong DEF Nth, Walk
<1>5. \A j \in 1..k : s[j] \in Task /\ s[j] # NULL /\ s[j] \in Created
  BY <1>2, <1>3 DEF Elements
<1>6. PICK i \in Nat :
         /\ StopsAt(p, i)
         /\ TASK_LIST' = IF i = 0 THEN t ELSE TASK_LIST
         /\ next' = [u \in Task |->
              IF u = t THEN Nth[i]
              ELSE IF i > 0 /\ u = Nth[i-1] THEN t ELSE next[u]]
  <2>1. Cardinality(Task) \in Nat
    BY FS_CardinalityType
  <2> QED
    BY <2>1 DEF task_init
<1>7. /\ t \notin Created
      /\ prio' = [prio EXCEPT ![t] = p]
      /\ created' = Append(created, t)
  BY DEF task_init
<1>8. i <= k
  <2> SUFFICES ASSUME i > k PROVE FALSE
    BY <1>2
  <2>1. k \in 0..i-1 /\ Nth[k] = NULL
    BY <1>2, <1>4
  <2> QED
    BY <1>6, <2>1 DEF StopsAt
<1>9. \A j \in 1..i : p <= prio[s[j]]
  <2> SUFFICES ASSUME NEW j \in 1..i PROVE p <= prio[s[j]]
    OBVIOUS
  <2>1. j - 1 \in 0..i-1 /\ j - 1 \in Nat /\ j - 1 < k /\ (j - 1) + 1 = j
    BY <1>2, <1>8
  <2>2. Nth[j - 1] = s[j]
    BY <1>4, <2>1
  <2> QED
    BY <1>6, <2>1, <2>2 DEF StopsAt
<1>10. i < k => p > prio[s[i + 1]]
  <2> SUFFICES ASSUME i < k PROVE p > prio[s[i + 1]]
    OBVIOUS
  <2>1. i + 1 \in 1..k /\ Nth[i] = s[i + 1]
    BY <1>2, <1>4
  <2> QED
    BY <1>5, <1>6, <2>1 DEF StopsAt
<1> DEFINE s2 == Insert(s, i, t)
<1>11. /\ i \in 0..Len(s) /\ t \notin Elements(s)
       /\ k \in 0..Len(created) /\ created \in Seq(Task)
       /\ Elements(created) = Created
       /\ Distinct(created) /\ t \notin Elements(created)
  <2>1. i \in 0..Len(s)
    BY <1>2, <1>8
  <2>2. k \in 0..Len(created)
    BY <1>2, <1>3
  <2>3. Elements(created) = Created
    BY DEF Elements, Created
  <2>4. created \in Seq(Task) /\ Distinct(created)
    BY <1>3 DEF TypeInv
  <2> QED
    BY <1>3, <1>7, <2>1, <2>2, <2>3, <2>4
<1>12. /\ s2 \in Seq(Task) /\ Len(s2) = Len(s) + 1
       /\ Elements(s2) = Elements(s) \cup {t}
       /\ Distinct(s2)
       /\ \A u, v \in Elements(s) : Before(s2, u, v) <=> Before(s, u, v)
       /\ \A j \in 1..Len(s) : Before(s2, t, s[j]) <=> j > i
       /\ \A j \in 1..Len(s) : Before(s2, s[j], t) <=> j <= i
       /\ ~Before(s2, t, t)
  BY <1>3, <1>11, InsertOrder
<1>13. created' = Insert(created, k, t)
  BY <1>3, <1>7, <1>11, AppendInserts
<1>14. /\ created' \in Seq(Task) /\ Len(created') = Len(created) + 1
       /\ Elements(created') = Elements(created) \cup {t}
       /\ Distinct(created')
       /\ \A u, v \in Elements(created) : Before(created', u, v) <=> Before(created, u, v)
       /\ \A j \in 1..Len(created) : Before(created', t, created[j]) <=> j > k
       /\ \A j \in 1..Len(created) : Before(created', created[j], t) <=> j <= k
       /\ ~Before(created', t, t)
  BY <1>11, <1>13, InsertOrder
<1>15. Created' = Created \cup {t} /\ Elements(created') = Created'
  BY <1>11, <1>14 DEF Elements, Created
<1>16. \A u \in Created : ~Before(created', t, u) /\ Before(created', u, t)
  <2> SUFFICES ASSUME NEW u \in Created
               PROVE  ~Before(created', t, u) /\ Before(created', u, t)
    OBVIOUS
  <2>1. PICK j \in 1..Len(created) : u = created[j]
    BY <1>11 DEF Created
  <2>2. ~(j > k) /\ j <= k
    BY <1>2, <1>3
  <2> QED
    BY <1>14, <2>1, <2>2
<1>17. TypeInv'
  <2>1. Nth[i] \in Task \cup {NULL}
    BY <1>2, <1>4, <1>5
  <2>2. next' \in [Task -> Task \cup {NULL}]
    BY <1>3, <1>6, <2>1 DEF TypeInv
  <2>3. prio' \in [Task -> Nat] /\ TASK_LIST' \in Task \cup {NULL}
    BY <1>3, <1>6, <1>7 DEF TypeInv
  <2> QED
    BY <1>14, <2>2, <2>3 DEF TypeInv, Distinct
<1>18. Linked(s2, TASK_LIST', next', NULL)
  <2>1. Nth[i] = IF i < Len(s) THEN s[i + 1] ELSE NULL
    BY <1>2, <1>4
  <2>2. i > 0 => Nth[i-1] = s[i]
    <3> SUFFICES ASSUME i > 0 PROVE Nth[i-1] = s[i]
      OBVIOUS
    <3>1. i - 1 \in Nat /\ i - 1 < k /\ (i - 1) + 1 = i
      BY <1>2, <1>8
    <3> QED
      BY <1>4, <3>1
  <2>3. next' = [u \in Task |-> IF u = t THEN IF i < Len(s) THEN s[i + 1] ELSE NULL
                                ELSE IF i > 0 /\ u = s[i] THEN t ELSE next[u]]
    BY <1>6, <2>1, <2>2
  <2>4. next \in [Task -> Task \cup {NULL}]
    BY <1>3 DEF TypeInv
  <2> HIDE DEF s2
  <2> QED
    BY <1>3, <1>6, <1>11, <2>3, <2>4, LinkIn DEF s2
<1> HIDE DEF s2
<1>19. \A j \in 1..k : j > i <=> p > prio[s[j]]
  <2> SUFFICES ASSUME NEW j \in 1..k PROVE j > i <=> p > prio[s[j]]
    OBVIOUS
  <2>1. prio[s[j]] \in Nat
    BY <1>3, <1>5 DEF TypeInv
  <2>2. CASE j <= i
    BY <1>9, <2>1, <2>2
  <2>3. CASE j = i + 1
    BY <1>10, <2>3
  <2>4. CASE j > i + 1
    <3>1. i + 1 \in 1..k /\ i < k
      BY <1>2, <2>4
    <3>2. Before(s, s[i + 1], s[j])
      BY <1>2, <2>4, <3>1 DEF Before
    <3>3. prio[s[i + 1]] \in Nat /\ s[i + 1] \in Created
      BY <1>3, <1>5, <3>1 DEF TypeInv
    <3>4. prio[s[i + 1]] >= prio[s[j]]
      BY <1>3, <1>5, <2>1, <3>2, <3>3 DEF InOrder
    <3> QED
      BY <1>10, <2>1, <2>4, <3>1, <3>3, <3>4
  <2> QED
    BY <2>2, <2>3, <2>4
<1>20. InOrder(s2)'
  <2>1. /\ \A u \in Created : prio'[u] = prio[u] /\ prio[u] \in Nat
        /\ prio'[t] = p
    BY <1>3, <1>5, <1>7, <1>11 DEF TypeInv, Created
  <2> SUFFICES ASSUME NEW u \in Created \cup {t}, NEW v \in Created \cup {t}
               PROVE  Before(s2, u, v) <=>
                        \/ prio'[u] > prio'[v]
                        \/ prio'[u] = prio'[v] /\ Before(created', u, v)
    BY <1>15 DEF InOrder, Before
  <2>2. CASE u \in Created /\ v \in Created
    <3>1. Before(s2, u, v) <=> Before(s, u, v)
      BY <1>3, <1>12, <2>2
    <3>2. Before(created', u, v) <=> Before(created, u, v)
      BY <1>11, <1>14, <2>2
    <3> QED
      BY <1>3, <2>1, <2>2, <3>1, <3>2 DEF InOrder
  <2>3. CASE u = t /\ v \in Created
    <3>1. PICK j \in 1..k : v = s[j]
      BY <1>2, <1>3, <2>3 DEF Elements
    <3>2. Before(s2, u, v) <=> p > prio[v]
      BY <1>2, <1>12, <1>19, <2>3, <3>1
    <3> QED
      BY <1>16, <2>1, <2>3, <3>2
  <2>4. CASE u \in Created /\ v = t
    <3>1. PICK j \in 1..k : u = s[j]
      BY <1>2, <1>3, <2>4 DEF Elements
    <3>2. Before(s2, u, v) <=> ~(p > prio[u])
      <4>1. Before(s2, u, v) <=> j <= i
        BY <1>2, <1>12, <2>4, <3>1
      <4>2. j <= i <=> ~(j > i)
        BY <1>2
      <4> QED
        BY <1>19, <3>1, <4>1, <4>2
    <3>3. ~(p > prio[u]) <=> prio[u] > p \/ prio[u] = p
      BY <2>1, <2>4
    <3> QED
      BY <1>16, <2>1, <2>4, <3>2, <3>3
  <2>5. CASE u = t /\ v = t
    BY <1>12, <1>14, <2>1, <2>5
  <2> QED
    BY <2>2, <2>3, <2>4, <2>5
<1>21. Idle \in Created' => s2 # <<>> /\ s2[Len(s2)] = Idle
  <2> SUFFICES ASSUME Idle \in Created' PROVE s2 # <<>> /\ s2[Len(s2)] = Idle
    OBVIOUS
  <2>1. t = Idle /\ p = 0
    BY <1>15
  <2>2. i = k
    <3> SUFFICES ASSUME i # k PROVE FALSE
      OBVIOUS
    <3>1. i + 1 \in 1..k /\ i < k
      BY <1>2, <1>8
    <3>2. prio[s[i + 1]] \in Nat
      BY <1>3, <1>5, <3>1 DEF TypeInv
    <3> QED
      BY <1>10, <2>1, <3>1, <3>2
  <2>3. Len(s2) = k + 1 /\ s2[k + 1] = t
    BY <1>2, <2>2 DEF s2, Insert
  <2>4. s2 # <<>>
    BY <1>2, <2>3
  <2> QED
    BY <2>1, <2>3, <2>4
<1>22. IsTaskList(s2)'
  <2>1. Len(s2) = Len(created') /\ Elements(s2) = Created'
    BY <1>2, <1>3, <1>12, <1>14, <1>15
  <2> QED
    BY <1>12, <1>18, <1>20, <1>21, <2>1 DEF IsTaskList, Linked, Elements, Distinct
<1> QED
  BY <1>12, <1>17, <1>22 DEF ListInv

LEMMA ListInvariant == TaskListSpec => []ListInv
<1>1. TaskListInit => ListInv
  BY InitList
<1>2. ListInv /\ [Next]_listVars => ListInv'
  <2> SUFFICES ASSUME ListInv, [Next]_listVars PROVE ListInv'
    OBVIOUS
  <2>1. ASSUME task_start, Idle \notin Created PROVE ListInv'
    BY <2>1, InitTask, TaskListAssumption DEF task_start, TaskListAssumption
  <2>2. ASSUME NEW t \in Task \ {Idle}, NEW p \in Prios, task_init(t, p),
               Idle \notin Created
        PROVE  ListInv'
    <3>1. p \in Nat
      BY TaskListAssumption DEF TaskListAssumption
    <3> QED
      BY <2>2, <3>1, InitTask
  <2>3. CASE UNCHANGED listVars
    <3>1. TASK_LIST' = TASK_LIST /\ next' = next /\ prio' = prio /\ created' = created
      BY <2>3 DEF listVars
    <3>2. Created' = Created
      BY <3>1 DEF Created
    <3>3. TypeInv'
      BY <3>1 DEF ListInv, TypeInv, Distinct
    <3>4. PICK s \in Seq(Task) : IsTaskList(s)
      BY DEF ListInv
    <3>5. Linked(s, TASK_LIST', next', NULL)
      BY <3>1, <3>4 DEF IsTaskList
    <3>6. InOrder(s)'
      BY <3>1, <3>2, <3>4 DEF IsTaskList, InOrder, Before
    <3>7. IsTaskList(s)'
      BY <3>1, <3>2, <3>4, <3>5, <3>6 DEF IsTaskList
    <3> QED
      BY <3>3, <3>7 DEF ListInv
  <2> QED
    BY <2>1, <2>2, <2>3 DEF Next
<1> QED
  BY <1>1, <1>2, PTL DEF TaskListSpec

-----------------------------------------------------------------------------
(* The list from its head is s.                                            *)
LEMMA ListIs ==
  ASSUME NEW s \in Seq(Task), Linked(s, TASK_LIST, next, NULL), Distinct(s)
  PROVE  List = s
<1> USE TaskListAssumption DEF TaskListAssumption
<1>1. PICK k \in Nat : k = Len(s)
  OBVIOUS
<1>2. PICK N \in Nat : N = Cardinality(Task)
  BY FS_CardinalityType
<1>3. k <= N
  BY <1>1, <1>2, DistinctFits
<1>4. Len(s) <= N + 1
  BY <1>1, <1>3
<1>5. Nth = Walk(TASK_LIST, next, NULL)
  BY DEF Nth, Walk
<1>6. Collected(Nth, N, NULL) = s
  BY <1>4, <1>5, WalkCollects
<1>7. List = Collected(Nth, Cardinality(Task), NULL)
  BY DEF List, Collected
<1> QED
  BY <1>2, <1>6, <1>7

(* However many tasks are created and with whatever priorities, the list   *)
(* that task_init keeps sorted has each of them once, the higher priority  *)
(* first, equals in the order of their creation and idle at the end: what  *)
(* the assumption of BmosTask says of TASK_LIST (task.c:148-168).          *)
THEOREM TaskListSorted == TaskListSpec => []ListInOrder
<1>1. ListInv => ListInOrder
  <2> SUFFICES ASSUME ListInv PROVE ListInOrder
    OBVIOUS
  <2>1. PICK s \in Seq(Task) : IsTaskList(s)
    BY DEF ListInv
  <2>2. List = s
    BY <2>1, ListIs DEF IsTaskList
  <2> QED
    BY <2>1, <2>2 DEF ListInOrder, IsTaskList, InOrder, Elements
<1> QED
  BY <1>1, ListInvariant, PTL
=============================================================================
