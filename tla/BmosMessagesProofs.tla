------------------------- MODULE BmosMessagesProofs -------------------------
(***************************************************************************)
(* Proofs about the message queues, for any number of processes, handlers, *)
(* queues and messages, and any pattern of calls.                          *)
(***************************************************************************)
EXTENDS BmosMessages, FiniteSetTheorems, TLAPS

-----------------------------------------------------------------------------
(* Sequences.                                                              *)

(* What Append and Tail do, element by element.                            *)
LEMMA AppendParts ==
  ASSUME NEW S, NEW s \in Seq(S), NEW e \in S
  PROVE  /\ Append(s, e) \in Seq(S) /\ Append(s, e) # <<>>
         /\ Len(s) \in Nat /\ Len(Append(s, e)) = Len(s) + 1
         /\ Append(s, e)[Len(s) + 1] = e
         /\ \A i \in 1..Len(s) : Append(s, e)[i] = s[i]
OBVIOUS

LEMMA TailParts ==
  ASSUME NEW S, NEW s \in Seq(S), s # <<>>
  PROVE  /\ Tail(s) \in Seq(S)
         /\ Tail(s) = <<>> <=> Len(Tail(s)) = 0
         /\ Len(s) \in Nat /\ Len(Tail(s)) \in Nat /\ Len(s) = Len(Tail(s)) + 1
         /\ \A i \in 1..Len(s) : s[i] \in S
         /\ \A i \in 1..Len(Tail(s)) : Tail(s)[i] = s[i+1]
<1>1. Len(s) \in Nat /\ Len(s) # 0 /\ \A i \in 1..Len(s) : s[i] \in S
  OBVIOUS
<1>2. Tail(s) \in Seq(S) /\ Len(Tail(s)) = Len(s) - 1
  BY <1>1, SMTT(20)
<1>3. \A i \in 1..Len(Tail(s)) : Tail(s)[i] = s[i+1]
  BY <1>1, SMTT(20)
<1>4. \A t \in Seq(S) : t = <<>> <=> Len(t) = 0
  OBVIOUS
<1>5. Tail(s) = <<>> <=> Len(Tail(s)) = 0
  BY <1>2, <1>4
<1>6. Len(Tail(s)) \in Nat /\ Len(s) = Len(Tail(s)) + 1
  BY <1>1, <1>2
<1> QED
  BY <1>1, <1>2, <1>3, <1>5, <1>6

-----------------------------------------------------------------------------
(* The linked list, against its content.                                   *)

(* The part of the invariant that is about lists.                          *)
ListInv == ListIsContent /\ OnePlace

(* _put appends.                                                           *)
LEMMA PutAppends ==
  ASSUME QueueTypeOK, ListInv, NEW q \in Queue, NEW m \in Msg, holder[m] # NULL, _put(q, m)
  PROVE  ListInv' /\ content'[q] = Append(content[q], m)
<1> DEFINE c == content[q]
           d == content'[q]
<1>1. NULL \notin Queue /\ NULL \notin Msg
  BY QueueAssumption DEF QueueAssumption
<1>2. /\ c \in Seq(Msg) /\ d = Append(c, m)
      /\ \A r \in Queue \ {q} : content'[r] = content[r]
  BY DEF _put, QueueTypeOK
<1>3. /\ first' = [first EXCEPT ![q] = IF @ = NULL THEN m ELSE @]
      /\ last' = [last EXCEPT ![q] = m]
      /\ \A n \in Msg : next'[n] =
           IF n = m THEN NULL ELSE IF first[q] # NULL /\ n = last[q] THEN m ELSE next[n]
      /\ \A n \in Msg : /\ queue'[n] = IF n = m THEN q ELSE queue[n]
                        /\ holder'[n] = IF n = m THEN NULL ELSE holder[n]
      /\ first'[q] = IF first[q] = NULL THEN m ELSE first[q]
      /\ last'[q] = m
      /\ \A r \in Queue \ {q} : first'[r] = first[r] /\ last'[r] = last[r]
  BY DEF _put, QueueTypeOK
<1>4. \A r \in Queue : /\ content[r] \in Seq(Msg) /\ Len(content[r]) \in Nat
                       /\ \A i \in 1..Len(content[r]) : content[r][i] \in Msg
  BY DEF QueueTypeOK
<1>5. queue[m] = NULL /\ \A r \in Queue : \A i \in 1..Len(content[r]) : content[r][i] # m
  BY <1>1 DEF ListInv, OnePlace
<1>6. /\ d # <<>> /\ Len(d) = Len(c) + 1 /\ d[Len(c) + 1] = m
      /\ \A i \in 1..Len(c) : d[i] = c[i]
      /\ \A i \in 1..Len(d) : i \in 1..Len(c) \/ i = Len(c) + 1
  BY <1>2, <1>4, AppendParts
<1>7. /\ first[q] = IF c = <<>> THEN NULL ELSE c[1]
      /\ c # <<>> => last[q] = c[Len(c)]
      /\ \A i \in 1..Len(c) : next[c[i]] = IF i = Len(c) THEN NULL ELSE c[i+1]
      /\ \A i, j \in 1..Len(c) : queue[c[i]] = q /\ (c[i] = c[j] => i = j)
      /\ c = <<>> <=> Len(c) = 0
      /\ Len(c) # 0 => 1 \in 1..Len(c) /\ Len(c) \in 1..Len(c) /\ c[1] # NULL
  BY <1>1, <1>4 DEF ListInv, ListIsContent, OnePlace
<1> HIDE DEF c, d
<1>8. ListIsContent'
  <2>1. /\ first'[q] = IF d = <<>> THEN NULL ELSE d[1]
        /\ d # <<>> => last'[q] = d[Len(d)]
    BY <1>3, <1>4, <1>6, <1>7
  <2>2. ASSUME NEW i \in 1..Len(d)
        PROVE  next'[d[i]] = IF i = Len(d) THEN NULL ELSE d[i+1]
    <3>1. CASE i = Len(c) + 1
      BY <1>3, <1>6, <3>1
    <3>2. CASE i \in 1..Len(c) /\ i = Len(c)
      <4>1. i = Len(c) /\ Len(c) \in Nat /\ Len(c) # 0 /\ Len(d) = Len(c) + 1
        BY <1>4, <1>6, <3>2 DEF c
      <4>2. d[i] = c[i] /\ d[i+1] = m
        BY <1>6, <3>2
      <4>3. c[i] \in Msg /\ c[i] # m /\ c[i] = last[q] /\ first[q] # NULL
        BY <1>4, <1>5, <1>7, <3>2, <4>1 DEF c
      <4>4. next'[c[i]] = m
        BY <1>3, <4>3
      <4>5. i # Len(d)
        BY <4>1
      <4> QED
        BY <4>2, <4>4, <4>5
    <3>3. CASE i \in 1..Len(c) /\ i # Len(c)
      <4>1. Len(c) \in Nat /\ Len(c) # 0 /\ i + 1 \in 1..Len(c) /\ i \in Int
        BY <1>4, <3>3 DEF c
      <4>2. c[i] # m /\ c[i] # last[q] /\ c[i] \in Msg
        BY <1>4, <1>5, <1>7, <3>3, <4>1 DEF c
      <4>3. d[i] = c[i] /\ d[i+1] = c[i+1]
        BY <1>6, <3>3, <4>1
      <4>4. next[c[i]] = c[i+1] /\ i # Len(d)
        BY <1>6, <1>7, <3>3, <4>1
      <4>5. next'[c[i]] = next[c[i]]
        BY <1>3, <4>2
      <4> QED
        BY <4>3, <4>4, <4>5
    <3> QED
      BY <1>6, <3>1, <3>2, <3>3
  <2>3. ASSUME NEW r \in Queue \ {q}
        PROVE  /\ first'[r] = IF content[r] = <<>> THEN NULL ELSE content[r][1]
               /\ content[r] # <<>> => last'[r] = content[r][Len(content[r])]
               /\ \A i \in 1..Len(content[r]) :
                    next'[content[r][i]] =
                      IF i = Len(content[r]) THEN NULL ELSE content[r][i+1]
    <3>1. \A i \in 1..Len(content[r]) : content[r][i] # m /\ queue[content[r][i]] = r
      BY <1>5 DEF ListInv, OnePlace
    <3>2. first[q] # NULL => queue[last[q]] = q
      BY <1>7
    <3>3. \A i \in 1..Len(content[r]) : next'[content[r][i]] = next[content[r][i]]
      BY <1>3, <1>4, <3>1, <3>2
    <3> QED
      BY <1>3, <3>3 DEF ListInv, ListIsContent
  <2> SUFFICES ASSUME NEW r \in Queue
               PROVE  /\ first'[r] = IF content'[r] = <<>> THEN NULL ELSE content'[r][1]
                      /\ content'[r] # <<>> => last'[r] = content'[r][Len(content'[r])]
                      /\ \A i \in 1..Len(content'[r]) :
                           next'[content'[r][i]] =
                             IF i = Len(content'[r]) THEN NULL ELSE content'[r][i+1]
    BY DEF ListIsContent
  <2>4. CASE r = q
    BY <2>1, <2>2, <2>4 DEF d
  <2>5. CASE r # q
    BY <1>2, <2>3, <2>5
  <2> QED
    BY <2>4, <2>5
<1>9. OnePlace'
  <2>1. \A n \in Msg : queue'[n] = NULL <=> holder'[n] # NULL
    BY <1>1, <1>3 DEF ListInv, OnePlace
  <2>2. ASSUME NEW n \in Msg, queue'[n] # NULL
        PROVE  \E i \in 1..Len(content'[queue'[n]]) : content'[queue'[n]][i] = n
    <3>1. CASE n = m
      <4>1. Len(c) + 1 \in 1..Len(d) /\ d[Len(c) + 1] = n
        BY <1>4, <1>6, <3>1 DEF c
      <4> QED
        BY <1>3, <3>1, <4>1 DEF d
    <3>2. CASE n # m
      <4>1. queue'[n] = queue[n] /\ queue[n] \in Queue
        BY <1>3, <2>2, <3>2 DEF QueueTypeOK
      <4>2. PICK i \in 1..Len(content[queue[n]]) : content[queue[n]][i] = n
        BY <2>2, <4>1 DEF ListInv, OnePlace
      <4>3. i \in 1..Len(content'[queue[n]]) /\ content'[queue[n]][i] = n
        <5>1. CASE queue[n] = q
          <6>1. i \in 1..Len(c) /\ c[i] = n /\ Len(c) \in Nat
            BY <1>4, <4>2, <5>1 DEF c
          <6>2. i \in 1..Len(d) /\ d[i] = n
            BY <1>6, <6>1
          <6> QED
            BY <5>1, <6>2 DEF d
        <5>2. CASE queue[n] # q
          BY <1>2, <4>1, <4>2, <5>2
        <5> QED
          BY <5>1, <5>2
      <4> QED
        BY <4>1, <4>3
    <3> QED
      BY <3>1, <3>2
  <2>3. ASSUME NEW i \in 1..Len(d), NEW j \in 1..Len(d)
        PROVE  queue'[d[i]] = q /\ (d[i] = d[j] => i = j)
    <3>1. ASSUME NEW k \in 1..Len(c)
          PROVE  d[k] = c[k] /\ c[k] \in Msg /\ c[k] # m /\ queue[c[k]] = q
      BY <1>4, <1>5, <1>6, <1>7 DEF c
    <3>2. queue'[d[i]] = q
      BY <1>3, <1>6, <3>1
    <3>3. d[i] = d[j] => i = j
      <4>1. (i \in 1..Len(c) \/ i = Len(c) + 1) /\ (j \in 1..Len(c) \/ j = Len(c) + 1)
        BY <1>6
      <4>2. CASE i \in 1..Len(c) /\ j \in 1..Len(c)
        BY <1>7, <3>1, <4>2
      <4>3. CASE i = Len(c) + 1 \/ j = Len(c) + 1
        BY <1>6, <3>1, <4>1, <4>3
      <4> QED
        BY <4>1, <4>2, <4>3
    <3> QED
      BY <3>2, <3>3
  <2>4. ASSUME NEW r \in Queue \ {q}, NEW i \in 1..Len(content[r])
        PROVE  queue'[content[r][i]] = r
    BY <1>3, <1>4, <1>5 DEF ListInv, OnePlace
  <2>5. \A r \in Queue : \A i, j \in 1..Len(content'[r]) :
          queue'[content'[r][i]] = r /\ (content'[r][i] = content'[r][j] => i = j)
    <3> SUFFICES ASSUME NEW r \in Queue, NEW i \in 1..Len(content'[r]), NEW j \in 1..Len(content'[r])
                 PROVE  queue'[content'[r][i]] = r /\ (content'[r][i] = content'[r][j] => i = j)
      OBVIOUS
    <3>1. CASE r = q
      BY <2>3, <3>1 DEF d
    <3>2. CASE r # q
      BY <1>2, <2>4, <3>2 DEF ListInv, OnePlace
    <3> QED
      BY <3>1, <3>2
  <2> QED
    BY <2>1, <2>2, <2>5 DEF OnePlace
<1> QED
  BY <1>2, <1>8, <1>9 DEF ListInv, c, d

(* _get takes the head; there is one.                                      *)
LEMMA GetTakesHead ==
  ASSUME QueueTypeOK, ListInv, NEW q \in Queue, NEW p \in Proc, _get(q, p)
  PROVE  ListInv' /\ content[q] # <<>> /\ content'[q] = Tail(content[q])
<1> DEFINE m == first[q]
           c == content[q]
           d == content'[q]
<1>1. NULL \notin Queue /\ NULL \notin Msg /\ NULL \notin Proc
  BY QueueAssumption DEF QueueAssumption
<1>2. /\ c \in Seq(Msg) /\ d = Tail(c)
      /\ \A r \in Queue \ {q} : content'[r] = content[r]
  BY DEF _get, QueueTypeOK
<1>3. m # NULL /\ m \in Msg
  BY DEF _get, QueueTypeOK
<1>4. /\ \A n \in Msg : /\ next'[n] = IF n = m THEN NULL ELSE next[n]
                        /\ queue'[n] = IF n = m THEN NULL ELSE queue[n]
                        /\ holder'[n] = IF n = m THEN p ELSE holder[n]
      /\ first'[q] = next[m]
      /\ \A r \in Queue \ {q} : first'[r] = first[r]
      /\ last' = last
  BY DEF _get, QueueTypeOK
<1>5. \A r \in Queue : /\ content[r] \in Seq(Msg) /\ Len(content[r]) \in Nat
                       /\ \A i \in 1..Len(content[r]) : content[r][i] \in Msg
  BY DEF QueueTypeOK
<1>6. /\ first[q] = IF c = <<>> THEN NULL ELSE c[1]
      /\ c # <<>> => last[q] = c[Len(c)]
      /\ \A i \in 1..Len(c) : next[c[i]] = IF i = Len(c) THEN NULL ELSE c[i+1]
      /\ \A i, j \in 1..Len(c) : queue[c[i]] = q /\ (c[i] = c[j] => i = j)
  BY DEF ListInv, ListIsContent, OnePlace
<1>7. c # <<>> /\ m = c[1] /\ Len(c) # 0 /\ 1 \in 1..Len(c)
  BY <1>2, <1>3, <1>5, <1>6
<1>8. /\ d = <<>> <=> Len(d) = 0
      /\ Len(c) \in Nat /\ Len(d) \in Nat /\ Len(c) = Len(d) + 1
      /\ \A i \in 1..Len(d) : i \in Nat /\ i + 1 \in 1..Len(c) /\ d[i] = c[i+1]
  BY <1>2, <1>7, TailParts
<1> HIDE DEF m, c, d
<1>9. \A i \in 1..Len(d) : d[i] # m /\ d[i] \in Msg
  BY <1>5, <1>6, <1>7, <1>8 DEF c
<1>10. queue[m] = q /\ \A r \in Queue \ {q} : \A i \in 1..Len(content[r]) : content[r][i] # m
  BY <1>6, <1>7 DEF ListInv, OnePlace
<1>11. ListIsContent'
  <2>1. first'[q] = IF d = <<>> THEN NULL ELSE d[1]
    <3>1. CASE d = <<>>
      BY <1>4, <1>6, <1>7, <1>8, <3>1
    <3>2. CASE d # <<>>
      <4>1. 1 \in 1..Len(d) /\ 1 # Len(c)
        BY <1>8, <3>2
      <4> QED
        BY <1>4, <1>6, <1>7, <1>8, <3>2, <4>1
    <3> QED
      BY <3>1, <3>2
  <2>2. d # <<>> => last'[q] = d[Len(d)]
    <3>1. ASSUME d # <<>> PROVE Len(d) \in 1..Len(d)
      BY <1>8, <3>1
    <3> QED
      BY <1>4, <1>6, <1>7, <1>8, <3>1
  <2>3. ASSUME NEW i \in 1..Len(d)
        PROVE  next'[d[i]] = IF i = Len(d) THEN NULL ELSE d[i+1]
    <3>1. next'[d[i]] = next[c[i+1]] /\ i + 1 \in 1..Len(c)
      BY <1>4, <1>8, <1>9
    <3>2. i # Len(d) => i + 1 \in 1..Len(d)
      BY <1>8
    <3> QED
      BY <1>6, <1>8, <3>1, <3>2
  <2>4. ASSUME NEW r \in Queue \ {q}
        PROVE  /\ first'[r] = IF content[r] = <<>> THEN NULL ELSE content[r][1]
               /\ content[r] # <<>> => last'[r] = content[r][Len(content[r])]
               /\ \A i \in 1..Len(content[r]) :
                    next'[content[r][i]] =
                      IF i = Len(content[r]) THEN NULL ELSE content[r][i+1]
    <3>1. \A i \in 1..Len(content[r]) : next'[content[r][i]] = next[content[r][i]]
      BY <1>4, <1>5, <1>10
    <3> QED
      BY <1>4, <3>1 DEF ListInv, ListIsContent
  <2> SUFFICES ASSUME NEW r \in Queue
               PROVE  /\ first'[r] = IF content'[r] = <<>> THEN NULL ELSE content'[r][1]
                      /\ content'[r] # <<>> => last'[r] = content'[r][Len(content'[r])]
                      /\ \A i \in 1..Len(content'[r]) :
                           next'[content'[r][i]] =
                             IF i = Len(content'[r]) THEN NULL ELSE content'[r][i+1]
    BY DEF ListIsContent
  <2>5. CASE r = q
    BY <2>1, <2>2, <2>3, <2>5 DEF d
  <2>6. CASE r # q
    BY <1>2, <2>4, <2>6
  <2> QED
    BY <2>5, <2>6
<1>12. OnePlace'
  <2>1. \A n \in Msg : queue'[n] = NULL <=> holder'[n] # NULL
    BY <1>1, <1>4 DEF ListInv, OnePlace
  <2>2. ASSUME NEW n \in Msg, queue'[n] # NULL
        PROVE  \E i \in 1..Len(content'[queue'[n]]) : content'[queue'[n]][i] = n
    <3>1. n # m /\ queue'[n] = queue[n] /\ queue[n] \in Queue
      BY <1>4, <2>2 DEF QueueTypeOK
    <3>2. PICK i \in 1..Len(content[queue[n]]) : content[queue[n]][i] = n
      BY <2>2, <3>1 DEF ListInv, OnePlace
    <3>3. CASE queue[n] = q
      <4>1. i \in 1..Len(c) /\ c[i] = n
        BY <3>2, <3>3 DEF c
      <4>2. i - 1 \in 1..Len(d)
        BY <1>7, <1>8, <3>1, <4>1
      <4>3. d[i-1] = n
        BY <1>8, <4>1, <4>2
      <4> QED
        BY <3>1, <3>3, <4>2, <4>3 DEF d
    <3>4. CASE queue[n] # q
      BY <1>2, <3>1, <3>2, <3>4
    <3> QED
      BY <3>3, <3>4
  <2>3. ASSUME NEW i \in 1..Len(d), NEW j \in 1..Len(d)
        PROVE  queue'[d[i]] = q /\ (d[i] = d[j] => i = j)
    <3>1. d[i] = d[j] => i + 1 = j + 1
      BY <1>6, <1>8, SMTT(20)
    <3> QED
      BY <1>4, <1>6, <1>8, <1>9, <3>1
  <2>4. ASSUME NEW r \in Queue \ {q}, NEW i \in 1..Len(content[r])
        PROVE  queue'[content[r][i]] = r
    BY <1>4, <1>5, <1>10 DEF ListInv, OnePlace
  <2>5. \A r \in Queue : \A i, j \in 1..Len(content'[r]) :
          queue'[content'[r][i]] = r /\ (content'[r][i] = content'[r][j] => i = j)
    <3> SUFFICES ASSUME NEW r \in Queue, NEW i \in 1..Len(content'[r]), NEW j \in 1..Len(content'[r])
                 PROVE  queue'[content'[r][i]] = r /\ (content'[r][i] = content'[r][j] => i = j)
      OBVIOUS
    <3>1. CASE r = q
      BY <2>3, <3>1 DEF d
    <3>2. CASE r # q
      BY <1>2, <2>4, <3>2 DEF ListInv, OnePlace
    <3> QED
      BY <3>1, <3>2
  <2> QED
    BY <2>1, <2>2, <2>5 DEF OnePlace
<1> QED
  BY <1>2, <1>7, <1>11, <1>12 DEF ListInv, c, d

-----------------------------------------------------------------------------
(* The calls.                                                              *)

(* A process that is in a call is at a queue of the type the place is of.  *)
PlaceInv ==
  \A p \in Proc :
    /\ pc[p] \in {"post", "get"} => at[p] \in TaskQueue
    /\ pc[p] = "f" => at[p] \in Queue

MsgInv == QueueTypeOK /\ ListInv /\ PlaceInv /\ CountsMessages

(* A process that moves from outside to a place, or back, changes the      *)
(* number of processes there by one, and no other number.                  *)
LEMMA Enters ==
  ASSUME QueueTypeOK, NEW p \in Proc, pc[p] = "out",
         NEW where \in Places \ {"out"}, NEW q \in Queue, Goto(p, where, q)
  PROVE  /\ Cardinality(Within(where, q)') = Cardinality(Within(where, q)) + 1
         /\ \A place \in Places \ {"out"}, r \in Queue :
              <<place, r>> # <<where, q>> => Within(place, r)' = Within(place, r)
         /\ \A place, r : Cardinality(Within(place, r)) \in Nat
<1>1. \A place, r : IsFiniteSet(Within(place, r))
  BY FS_Subset, QueueAssumption DEF QueueAssumption, Within
<1>2. Within(where, q)' = Within(where, q) \cup {p} /\ p \notin Within(where, q)
  BY DEF Within, Goto, QueueTypeOK
<1>3. Cardinality(Within(where, q)') = Cardinality(Within(where, q)) + 1
  BY <1>1, <1>2, FS_AddElement
<1>4. \A place \in Places \ {"out"}, r \in Queue :
        <<place, r>> # <<where, q>> => Within(place, r)' = Within(place, r)
  BY DEF Within, Goto, QueueTypeOK
<1> QED
  BY <1>1, <1>3, <1>4, FS_CardinalityType

LEMMA Leaves ==
  ASSUME QueueTypeOK, NEW p \in Proc, NEW where \in Places \ {"out"}, NEW q \in Queue,
         pc[p] = where, at[p] = q, Goto(p, "out", NULL)
  PROVE  /\ Cardinality(Within(where, q)) # 0
         /\ Cardinality(Within(where, q)') = Cardinality(Within(where, q)) - 1
         /\ \A place \in Places \ {"out"}, r \in Queue :
              <<place, r>> # <<where, q>> => Within(place, r)' = Within(place, r)
         /\ \A place, r : Cardinality(Within(place, r)) \in Nat
<1>1. \A place, r : IsFiniteSet(Within(place, r))
  BY FS_Subset, QueueAssumption DEF QueueAssumption, Within
<1>2. p \in Within(where, q) /\ Within(where, q)' = Within(where, q) \ {p}
  BY DEF Within, Goto, QueueTypeOK
<1>3. /\ Cardinality(Within(where, q)') = Cardinality(Within(where, q)) - 1
      /\ Cardinality(Within(where, q)) # 0
  BY <1>1, <1>2, FS_RemoveElement, FS_EmptySet
<1>4. \A place \in Places \ {"out"}, r \in Queue :
        <<place, r>> # <<where, q>> => Within(place, r)' = Within(place, r)
  BY DEF Within, Goto, QueueTypeOK
<1>5. \A place, r : Cardinality(Within(place, r)) \in Nat
  BY <1>1, FS_CardinalityType
<1> QED
  BY <1>3, <1>4, <1>5

(* msg_put, up to the end of its critical section.                         *)
LEMMA MsgPut ==
  ASSUME MsgInv, NEW p \in Proc, NEW q \in Queue, NEW m \in Msg, msg_put(p, q, m)
  PROVE  MsgInv'
<1> NULL \notin Proc /\ TaskQueue \subseteq Queue /\ PutF \subseteq Queue \ TaskQueue
  BY QueueAssumption DEF QueueAssumption
<1>1. pc[p] = "out" /\ holder[m] = p /\ _put(q, m)
  BY DEF msg_put
<1>2. ListInv' /\ content'[q] = Append(content[q], m)
  BY <1>1, PutAppends DEF MsgInv
<1>3. \A r \in Queue : /\ content[r] \in Seq(Msg)
                       /\ r # q => content'[r] = content[r]
  BY <1>1 DEF _put, MsgInv, QueueTypeOK
<1>4. Len(content'[q]) = Len(content[q]) + 1 /\ content'[q] \in Seq(Msg)
  BY <1>2, <1>3, AppendParts
<1>5. /\ first' \in [Queue -> Msg \cup {NULL}]
      /\ last' \in [Queue -> Msg \cup {NULL}]
      /\ next' \in [Msg -> Msg \cup {NULL}]
      /\ queue' \in [Msg -> Queue \cup {NULL}]
      /\ holder' \in [Msg -> Proc \cup {NULL}]
      /\ content' \in [Queue -> Seq(Msg)]
  BY <1>1, <1>3, <1>4 DEF _put, MsgInv, QueueTypeOK
<1>6. CASE q \in TaskQueue
  <2>1. Goto(p, "post", q) /\ count' = count
    BY <1>6 DEF msg_put
  <2>2. QueueTypeOK' /\ PlaceInv'
    BY <1>5, <1>6, <2>1 DEF Goto, Places, MsgInv, QueueTypeOK, PlaceInv
  <2>3. /\ Cardinality(Within("post", q)') = Cardinality(Within("post", q)) + 1
        /\ Within("get", q)' = Within("get", q)
        /\ \A r \in Queue \ {q} : /\ Within("post", r)' = Within("post", r)
                                  /\ Within("get", r)' = Within("get", r)
        /\ \A place, r : Cardinality(Within(place, r)) \in Nat
    BY <1>1, <2>1, Enters DEF MsgInv, Places
  <2>4. CountsMessages'
    <3> SUFFICES ASSUME NEW r \in Queue
                 PROVE  Len(content'[r]) = count'[r] + Cardinality(Within("post", r)')
                                             + Cardinality(Within("get", r)')
      BY DEF CountsMessages
    <3>1. Len(content[r]) = count[r] + Cardinality(Within("post", r))
                              + Cardinality(Within("get", r)) /\ count[r] \in Nat
      BY DEF MsgInv, CountsMessages, QueueTypeOK
    <3>2. CASE r = q
      BY <1>4, <2>1, <2>3, <3>1, <3>2
    <3>3. CASE r # q
      BY <1>3, <2>1, <2>3, <3>1, <3>3
    <3> QED
      BY <3>2, <3>3
  <2> QED
    BY <1>2, <2>2, <2>4 DEF MsgInv
<1>7. CASE q \notin TaskQueue
  <2>1. /\ count' = [count EXCEPT ![q] = @ + 1]
        /\ Goto(p, "f", q) \/ UNCHANGED <<pc, at>>
    BY <1>7 DEF msg_put
  <2>2. QueueTypeOK' /\ PlaceInv'
    <3>1. count' \in [Queue -> Nat]
      BY <2>1 DEF MsgInv, QueueTypeOK
    <3>2. pc' \in [Proc -> Places] /\ at' \in [Proc -> Queue \cup {NULL}]
      BY <2>1 DEF Goto, Places, MsgInv, QueueTypeOK
    <3>3. PlaceInv'
      BY <2>1 DEF Goto, MsgInv, QueueTypeOK, PlaceInv
    <3> QED
      BY <1>5, <3>1, <3>2, <3>3 DEF QueueTypeOK
  <2>3. /\ \A r \in Queue : /\ Within("post", r)' = Within("post", r)
                            /\ Within("get", r)' = Within("get", r)
        /\ \A place, r : Cardinality(Within(place, r)) \in Nat
    <3>1. CASE Goto(p, "f", q)
      BY <1>1, <3>1, Enters DEF MsgInv, Places
    <3>2. CASE UNCHANGED <<pc, at>>
      <4>1. \A place, r : Within(place, r)' = Within(place, r)
        BY <3>2 DEF Within
      <4>2. \A place, r : IsFiniteSet(Within(place, r))
        BY FS_Subset, QueueAssumption DEF QueueAssumption, Within
      <4> QED
        BY <4>1, <4>2, FS_CardinalityType
    <3> QED
      BY <2>1, <3>1, <3>2
  <2>4. CountsMessages'
    <3> SUFFICES ASSUME NEW r \in Queue
                 PROVE  Len(content'[r]) = count'[r] + Cardinality(Within("post", r)')
                                             + Cardinality(Within("get", r)')
      BY DEF CountsMessages
    <3>1. Len(content[r]) = count[r] + Cardinality(Within("post", r))
                              + Cardinality(Within("get", r)) /\ count \in [Queue -> Nat]
      BY DEF MsgInv, CountsMessages, QueueTypeOK
    <3>2. count'[r] = IF r = q THEN count[r] + 1 ELSE count[r]
      BY <2>1, <3>1
    <3>3. CASE r = q
      BY <1>4, <2>3, <3>1, <3>2, <3>3
    <3>4. CASE r # q
      BY <1>3, <2>3, <3>1, <3>2, <3>4
    <3> QED
      BY <3>3, <3>4
  <2> QED
    BY <1>2, <2>2, <2>4 DEF MsgInv
<1> QED
  BY <1>6, <1>7

(* The sem_post that follows a put, and the callback of a driver queue.    *)
LEMMA PutFinish ==
  ASSUME MsgInv, NEW p \in Proc, msg_put_task_post(p) \/ msg_put_driver_f(p)
  PROVE  MsgInv'
<1> TaskQueue \subseteq Queue
  BY QueueAssumption DEF QueueAssumption
<1> DEFINE where == pc[p]
<1>1. PICK q \in Queue : at[p] = q
  BY DEF msg_put_task_post, msg_put_driver_f, MsgInv, PlaceInv
<1>2. /\ where \in {"post", "f"} /\ Goto(p, "out", NULL)
      /\ UNCHANGED <<first, last, next, queue, holder, content>>
      /\ count' = IF where = "post" THEN [count EXCEPT ![q] = @ + 1] ELSE count
  BY <1>1 DEF msg_put_task_post, msg_put_driver_f
<1>3. ListInv'
  BY <1>2 DEF MsgInv, ListInv, ListIsContent, OnePlace
<1>4. QueueTypeOK' /\ PlaceInv'
  <2>1. count' \in [Queue -> Nat]
    BY <1>2 DEF MsgInv, QueueTypeOK
  <2>2. pc' \in [Proc -> Places] /\ at' \in [Proc -> Queue \cup {NULL}]
    BY <1>2 DEF Goto, Places, MsgInv, QueueTypeOK
  <2>3. PlaceInv'
    BY <1>2 DEF Goto, MsgInv, QueueTypeOK, PlaceInv
  <2> QED
    BY <1>2, <2>1, <2>2, <2>3 DEF MsgInv, QueueTypeOK
<1>5. CountsMessages'
  <2> SUFFICES ASSUME NEW r \in Queue
               PROVE  Len(content'[r]) = count'[r] + Cardinality(Within("post", r)')
                                           + Cardinality(Within("get", r)')
    BY DEF CountsMessages
  <2>1. /\ Len(content[r]) = count[r] + Cardinality(Within("post", r))
                                + Cardinality(Within("get", r))
        /\ count \in [Queue -> Nat]
    BY DEF MsgInv, CountsMessages, QueueTypeOK
  <2>2. CASE where = "post"
    <3>1. /\ Cardinality(Within("post", q)') = Cardinality(Within("post", q)) - 1
          /\ Within("get", q)' = Within("get", q)
          /\ r # q => Within("post", r)' = Within("post", r) /\ Within("get", r)' = Within("get", r)
          /\ \A place, u : Cardinality(Within(place, u)) \in Nat
      BY <1>1, <1>2, <2>2, Leaves DEF MsgInv, Places
    <3>2. count'[r] = IF r = q THEN count[r] + 1 ELSE count[r]
      BY <1>2, <2>1, <2>2
    <3>3. CASE r = q
      BY <1>2, <2>1, <3>1, <3>2, <3>3
    <3>4. CASE r # q
      BY <1>2, <2>1, <3>1, <3>2, <3>4
    <3> QED
      BY <3>3, <3>4
  <2>3. CASE where = "f"
    <3>1. Within("post", r)' = Within("post", r) /\ Within("get", r)' = Within("get", r)
      BY <1>1, <1>2, <2>3, Leaves DEF MsgInv, Places
    <3> QED
      BY <1>2, <2>1, <2>3, <3>1
  <2> QED
    BY <1>2, <2>2, <2>3
<1> QED
  BY <1>3, <1>4, <1>5 DEF MsgInv

(* What the count says of a queue.                                         *)
LEMMA Counted ==
  ASSUME MsgInv, NEW q \in Queue
  PROVE  /\ Len(content[q]) \in Nat
         /\ count[q] > 0 => content[q] # <<>>
         /\ \A p \in Proc : pc[p] = "get" /\ at[p] = q => content[q] # <<>>
         /\ q \notin TaskQueue => Len(content[q]) = count[q]
<1>1. \A place, r : IsFiniteSet(Within(place, r))
  BY FS_Subset, QueueAssumption DEF QueueAssumption, Within
<1>2. \A place, r : Cardinality(Within(place, r)) \in Nat
  BY <1>1, FS_CardinalityType
<1>3. /\ Len(content[q]) = count[q] + Cardinality(Within("post", q))
                              + Cardinality(Within("get", q))
      /\ count[q] \in Nat /\ content[q] \in Seq(Msg)
  BY DEF MsgInv, CountsMessages, QueueTypeOK
<1>4. content[q] = <<>> => Len(content[q]) = 0
  BY <1>3
<1>5. ASSUME NEW p \in Proc, pc[p] = "get", at[p] = q
      PROVE  Cardinality(Within("get", q)) # 0
  <2>1. p \in Within("get", q)
    BY <1>5 DEF Within
  <2> QED
    BY <1>1, <2>1, FS_EmptySet
<1>6. ASSUME q \notin TaskQueue
      PROVE  Cardinality(Within("post", q)) = 0 /\ Cardinality(Within("get", q)) = 0
  <2>1. Within("post", q) = {} /\ Within("get", q) = {}
    BY <1>6 DEF Within, MsgInv, PlaceInv
  <2> QED
    BY <2>1, FS_EmptySet
<1>7. Len(content[q]) \in Nat
  BY <1>3
<1>8. count[q] > 0 => content[q] # <<>>
  BY <1>2, <1>3, <1>4
<1>9. ASSUME NEW p \in Proc, pc[p] = "get", at[p] = q
      PROVE  content[q] # <<>>
  <2>1. Cardinality(Within("get", q)) # 0
    BY <1>5, <1>9
  <2> QED
    BY <1>2, <1>3, <1>4, <2>1
<1>10. q \notin TaskQueue => Len(content[q]) = count[q]
  BY <1>3, <1>6
<1> QED
  BY <1>7, <1>8, <1>9, <1>10

(* What _get does to the invariant.                                        *)
LEMMA GetTypes ==
  ASSUME MsgInv, NEW q \in Queue, NEW p \in Proc, _get(q, p)
  PROVE  /\ ListInv'
         /\ first' \in [Queue -> Msg \cup {NULL}]
         /\ last' \in [Queue -> Msg \cup {NULL}]
         /\ next' \in [Msg -> Msg \cup {NULL}]
         /\ queue' \in [Msg -> Queue \cup {NULL}]
         /\ holder' \in [Msg -> Proc \cup {NULL}]
         /\ content' \in [Queue -> Seq(Msg)]
         /\ Len(content'[q]) = Len(content[q]) - 1
         /\ \A r \in Queue \ {q} : content'[r] = content[r]
<1>1. ListInv' /\ content[q] # <<>> /\ content'[q] = Tail(content[q])
  BY GetTakesHead DEF MsgInv
<1>2. content[q] \in Seq(Msg) /\ first[q] \in Msg /\ next[first[q]] \in Msg \cup {NULL}
  BY DEF MsgInv, QueueTypeOK, _get
<1>3. content'[q] \in Seq(Msg) /\ Len(content'[q]) = Len(content[q]) - 1
  BY <1>1, <1>2, TailParts
<1> QED
  BY <1>1, <1>2, <1>3 DEF MsgInv, QueueTypeOK, _get

(* msg_wait_ms, up to the wait's end or the message.                       *)
LEMMA MsgWait ==
  ASSUME MsgInv, NEW p \in Proc, NEW q \in Queue, msg_wait_ms(p, q)
  PROVE  MsgInv'
<1> TaskQueue \subseteq Queue
  BY QueueAssumption DEF QueueAssumption
<1>1. /\ pc[p] = "out" /\ count[q] > 0 /\ count' = [count EXCEPT ![q] = @ - 1]
      /\ count \in [Queue -> Nat] /\ count' \in [Queue -> Nat]
      /\ count'[q] = count[q] - 1
      /\ \A r \in Queue \ {q} : count'[r] = count[r]
  BY DEF msg_wait_ms, MsgInv, QueueTypeOK
<1>2. \A r \in Queue :
        Len(content[r]) = count[r] + Cardinality(Within("post", r))
                            + Cardinality(Within("get", r))
  BY DEF MsgInv, CountsMessages
<1>3. CASE q \in TaskQueue
  <2>1. Goto(p, "get", q) /\ UNCHANGED <<first, last, next, queue, holder, content>>
    BY <1>3 DEF msg_wait_ms
  <2>2. ListInv'
    BY <2>1 DEF MsgInv, ListInv, ListIsContent, OnePlace
  <2>3. pc' \in [Proc -> Places] /\ at' \in [Proc -> Queue \cup {NULL}]
    BY <2>1 DEF Goto, Places, MsgInv, QueueTypeOK
  <2>4. PlaceInv'
    BY <1>3, <2>1 DEF Goto, MsgInv, QueueTypeOK, PlaceInv
  <2>5. QueueTypeOK'
    BY <1>1, <2>1, <2>3 DEF MsgInv, QueueTypeOK
  <2>6. /\ Cardinality(Within("get", q)') = Cardinality(Within("get", q)) + 1
        /\ Within("post", q)' = Within("post", q)
        /\ \A r \in Queue \ {q} : /\ Within("post", r)' = Within("post", r)
                                  /\ Within("get", r)' = Within("get", r)
        /\ \A place, r : Cardinality(Within(place, r)) \in Nat
    BY <1>1, <2>1, Enters DEF MsgInv, Places
  <2>7. CountsMessages'
    <3> SUFFICES ASSUME NEW r \in Queue
                 PROVE  Len(content'[r]) = count'[r] + Cardinality(Within("post", r)')
                                             + Cardinality(Within("get", r)')
      BY DEF CountsMessages
    <3>1. CASE r = q
      BY <1>1, <1>2, <2>1, <2>6, <3>1
    <3>2. CASE r # q
      BY <1>1, <1>2, <2>1, <2>6, <3>2
    <3> QED
      BY <3>1, <3>2
  <2> QED
    BY <2>2, <2>4, <2>5, <2>7 DEF MsgInv
<1>4. CASE q \notin TaskQueue
  <2>1. _get(q, p) /\ UNCHANGED <<pc, at>>
    BY <1>4 DEF msg_wait_ms
  <2>2. QueueTypeOK' /\ ListInv'
    BY <1>1, <2>1, GetTypes DEF MsgInv, QueueTypeOK
  <2>3. PlaceInv'
    BY <2>1 DEF MsgInv, PlaceInv
  <2>4. CountsMessages'
    <3> SUFFICES ASSUME NEW r \in Queue
                 PROVE  Len(content'[r]) = count'[r] + Cardinality(Within("post", r)')
                                             + Cardinality(Within("get", r)')
      BY DEF CountsMessages
    <3>1. /\ Within("post", r)' = Within("post", r) /\ Within("get", r)' = Within("get", r)
          /\ IsFiniteSet(Within("post", r)) /\ IsFiniteSet(Within("get", r))
      BY <2>1, FS_Subset, QueueAssumption DEF QueueAssumption, Within
    <3>2. /\ Cardinality(Within("post", r)) \in Nat /\ Cardinality(Within("get", r)) \in Nat
          /\ Cardinality(Within("post", r)') = Cardinality(Within("post", r))
          /\ Cardinality(Within("get", r)') = Cardinality(Within("get", r))
      BY <3>1, FS_CardinalityType
    <3>3. Len(content'[r]) = count'[r] + Cardinality(Within("post", r))
                               + Cardinality(Within("get", r))
      <4>1. CASE r = q
        <5>1. Len(content'[q]) = Len(content[q]) - 1
          BY <2>1, GetTypes
        <5> QED
          BY <1>1, <1>2, <3>2, <4>1, <5>1
      <4>2. CASE r # q
        <5>1. content'[r] = content[r]
          BY <2>1, <4>2, GetTypes
        <5> QED
          BY <1>1, <1>2, <4>2, <5>1
      <4> QED
        BY <4>1, <4>2
    <3> QED
      BY <3>2, <3>3
  <2> QED
    BY <2>2, <2>3, <2>4 DEF MsgInv
<1> QED
  BY <1>3, <1>4

(* The second half of msg_wait_ms_task.                                    *)
LEMMA MsgWaitGet ==
  ASSUME MsgInv, NEW p \in Proc, msg_wait_ms_get(p)
  PROVE  MsgInv'
<1> TaskQueue \subseteq Queue
  BY QueueAssumption DEF QueueAssumption
<1>1. PICK q \in Queue : at[p] = q
  BY DEF msg_wait_ms_get, MsgInv, PlaceInv
<1>2. pc[p] = "get" /\ _get(q, p) /\ Goto(p, "out", NULL) /\ count' = count
  BY <1>1 DEF msg_wait_ms_get
<1>3. pc' \in [Proc -> Places] /\ at' \in [Proc -> Queue \cup {NULL}]
  BY <1>2 DEF Goto, Places, MsgInv, QueueTypeOK
<1>4. QueueTypeOK' /\ ListInv'
  BY <1>2, <1>3, GetTypes DEF MsgInv, QueueTypeOK
<1>5. PlaceInv'
  BY <1>2 DEF Goto, MsgInv, QueueTypeOK, PlaceInv
<1>6. /\ Cardinality(Within("get", q)') = Cardinality(Within("get", q)) - 1
      /\ Within("post", q)' = Within("post", q)
      /\ \A r \in Queue \ {q} : /\ Within("post", r)' = Within("post", r)
                                /\ Within("get", r)' = Within("get", r)
      /\ \A place, r : Cardinality(Within(place, r)) \in Nat
  BY <1>1, <1>2, Leaves DEF MsgInv, Places
<1>7. CountsMessages'
  <2> SUFFICES ASSUME NEW r \in Queue
               PROVE  Len(content'[r]) = count'[r] + Cardinality(Within("post", r)')
                                           + Cardinality(Within("get", r)')
    BY DEF CountsMessages
  <2>1. Len(content[r]) = count[r] + Cardinality(Within("post", r))
                            + Cardinality(Within("get", r)) /\ count[r] \in Nat
    BY DEF MsgInv, CountsMessages, QueueTypeOK
  <2>2. CASE r = q
    BY <1>2, <1>6, <2>1, <2>2, GetTypes
  <2>3. CASE r # q
    <3>1. content'[r] = content[r] /\ count'[r] = count[r]
      BY <1>2, <2>3, GetTypes
    <3> QED
      BY <1>6, <2>1, <2>3, <3>1
  <2> QED
    BY <2>2, <2>3
<1> QED
  BY <1>4, <1>5, <1>7 DEF MsgInv

-----------------------------------------------------------------------------
(* The whole.                                                              *)

LEMMA MsgInit == Init => MsgInv
<1> SUFFICES ASSUME Init PROVE MsgInv
  OBVIOUS
<1> NULL \notin Proc /\ Maker \in Proc
  BY QueueAssumption DEF QueueAssumption
<1>1. QueueTypeOK /\ PlaceInv
  BY DEF Init, queue_create, QueueTypeOK, PlaceInv, Places
<1>2. ListInv
  BY DEF Init, queue_create, ListInv, ListIsContent, OnePlace
<1>3. CountsMessages
  <2>1. \A q \in Queue : Within("post", q) = {} /\ Within("get", q) = {}
    BY DEF Init, queue_create, Within
  <2>2. \A q \in Queue : /\ Cardinality(Within("post", q)) = 0
                         /\ Cardinality(Within("get", q)) = 0
    BY <2>1, FS_EmptySet
  <2>3. \A q \in Queue : Len(content[q]) = 0 /\ count[q] = 0
    BY DEF Init, queue_create
  <2> QED
    BY <2>2, <2>3 DEF CountsMessages
<1> QED
  BY <1>1, <1>2, <1>3 DEF MsgInv

LEMMA MsgNext == MsgInv /\ [Next]_queueVars => MsgInv'
<1> SUFFICES ASSUME MsgInv, [Next]_queueVars PROVE MsgInv'
  OBVIOUS
<1>1. CASE UNCHANGED queueVars
  <2>1. \A place, r : Within(place, r)' = Within(place, r)
    BY <1>1 DEF Within, queueVars
  <2>2. CountsMessages'
    BY <1>1, <2>1 DEF MsgInv, CountsMessages, queueVars
  <2> QED
    BY <1>1, <2>2 DEF MsgInv, QueueTypeOK, ListInv, ListIsContent, OnePlace, PlaceInv, queueVars
<1>2. ASSUME NEW p \in Proc, Put(p) \/ Return(p) PROVE MsgInv'
  <2>1. PICK q \in Queue, m \in Msg : msg_put(p, q, m)
    BY <1>2, QueueAssumption, MessagesAssumption
       DEF Put, Return, Held, msg_return, QueueAssumption, MessagesAssumption
  <2> QED
    BY <2>1, MsgPut
<1>3. ASSUME NEW p \in Proc, Finish(p) PROVE MsgInv'
  BY <1>3, PutFinish, MsgWaitGet DEF Finish
<1>4. ASSUME NEW p \in Proc, NEW q \in Queue, Get(p, q) PROVE MsgInv'
  BY <1>4, MsgWait DEF Get
<1> QED
  BY <1>1, <1>2, <1>3, <1>4 DEF Next

LEMMA MsgInductive == Spec => []MsgInv
BY MsgInit, MsgNext, PTL DEF Spec

(* Every variable keeps its type: no counter goes below zero.              *)
THEOREM MessagesTyped == Spec => []TypeOK
<1>1. MsgInv => TypeOK
  BY DEF MsgInv, TypeOK
<1> QED
  BY <1>1, MsgInductive, PTL

(* The linked lists of queue.c hold what was put and not yet fetched, in   *)
(* the order it was put.                                                   *)
THEOREM ListsAreQueues == Spec => []ListIsContent
<1>1. MsgInv => ListIsContent
  BY DEF MsgInv, ListInv
<1> QED
  BY <1>1, MsgInductive, PTL

(* No message is lost, duplicated, or put while it is on a queue.          *)
THEOREM MessagesConserved == Spec => []OnePlace
<1>1. MsgInv => OnePlace
  BY DEF MsgInv, ListInv
<1> QED
  BY <1>1, MsgInductive, PTL

(* The counts of the queues add up at every moment.                        *)
THEOREM CountsAddUp == Spec => []CountsMessages
<1>1. MsgInv => CountsMessages
  BY DEF MsgInv
<1> QED
  BY <1>1, MsgInductive, PTL

(* _get never meets an empty list.                                         *)
THEOREM GetNeverFails == Spec => []GetFindsMessage
<1>1. MsgInv => GetFindsMessage
  <2> SUFFICES ASSUME MsgInv PROVE GetFindsMessage
    OBVIOUS
  <2> TaskQueue \subseteq Queue /\ NULL \notin Msg
    BY QueueAssumption DEF QueueAssumption
  <2>1. \A q \in Queue : content[q] # <<>> => first[q] # NULL
    BY DEF MsgInv, ListInv, ListIsContent, QueueTypeOK
  <2>2. ASSUME NEW p \in Proc, pc[p] = "get" PROVE first[at[p]] # NULL
    <3>1. PICK q \in Queue : at[p] = q
      BY <2>2 DEF MsgInv, PlaceInv
    <3> QED
      BY <2>1, <2>2, <3>1, Counted
  <2>3. ASSUME NEW q \in Queue \ TaskQueue, count[q] > 0 PROVE first[q] # NULL
    BY <2>1, <2>3, Counted
  <2> QED
    BY <2>2, <2>3 DEF GetFindsMessage
<1> QED
  BY <1>1, MsgInductive, PTL
=============================================================================
