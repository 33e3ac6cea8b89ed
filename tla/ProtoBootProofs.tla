--------------------------- MODULE ProtoBootProofs ---------------------------
(***************************************************************************)
(* Theorems about the boot loader, whatever the images, their number and   *)
(* size, the numbers of bytes garbled, answers lost and late, of transfers *)
(* begun by either side and of retries.                                    *)
(*                                                                         *)
(* They are about a line that keeps the bytes of the sender and does not   *)
(* stall within a packet: it may garble the bytes, and it may lose the     *)
(* answers.  The packet numbers are all that tells packets apart, and      *)
(* after enough lost bytes the receiver reads the number of one packet in  *)
(* another; after a stall, or lost bytes, it reads a byte of data where a  *)
(* packet should start.                                                    *)
(*                                                                         *)
(* A small loader that gives up within a packet starts anew, and reads     *)
(* such a byte on this line too.  When it takes it for the end, mistaken,  *)
(* nothing is claimed from there on.                                       *)
(*                                                                         *)
(* What is under way decides.  The receiver of a transfer either waits for *)
(* the packet that the sender sent last, or has it and the sender does not *)
(* know, or has all, or is about to find a packet of another number and to *)
(* give up; and the bytes on the line are those that this allows.          *)
(***************************************************************************)
EXTENDS ProtoBoot, SequenceTheorems, TLAPS

(* What the receiver puts, and what the line may carry to it.              *)
Answer == {NAK, CAN, C, ACK}

Block == {Image[i][b] : i \in DOMAIN Image, b \in 1..Blocks}

DataByte == {Data(x) : x \in Block}

Byte == {Num(n) : n \in Int} \cup DataByte \cup {crc(x) : x \in Seq(DataByte)} \cup {garbled}

(* What the first byte of a packet can be on arrival.                      *)
Heads == {SOH, STX, garbled}

-----------------------------------------------------------------------------
(* Bytes of different kinds, or values, are different.                     *)

LEMMA Parameters ==
  /\ Mod \in Nat /\ Mod > 6
  /\ NAK # CAN /\ NAK # C /\ NAK # ACK /\ CAN # C /\ CAN # ACK /\ C # ACK
  /\ \A i \in DOMAIN Image : Len(Image[i]) \in 1..Blocks /\ Image[i][1] # Erased
  /\ 1 \in DOMAIN Image /\ Blocks \in Nat
BY XmodemAssumption, ProtoBootAssumption DEF XmodemAssumption, ProtoBootAssumption

LEMMA Kinds ==
  /\ \A n : Num(n)[1] = "num"
  /\ \A x : crc(x)[1] = "crc"
  /\ \A x : Data(x)[1] = "data" /\ Data(x)[2] = x
  /\ garbled[1] = "garbled"
BY DEF Num, crc, Data, garbled

LEMMA SumOf == ASSUME NEW x, NEW y, crc(x) = crc(y) PROVE x = y
<1>1. <<"crc", x>>[2] = x /\ <<"crc", y>>[2] = y
  OBVIOUS
<1> QED
  BY <1>1 DEF crc

LEMMA NumOf ==
  ASSUME NEW m \in Int, NEW n \in Int, Num(m) = Num(n)
  PROVE  m % Mod = n % Mod
<1>1. <<"num", m % Mod>>[2] = m % Mod /\ <<"num", n % Mod>>[2] = n % Mod
  OBVIOUS
<1> QED
  BY <1>1 DEF Num

LEMMA HeadNotEOT == EOT \notin Heads
<1>1. 1 % Mod = 1 /\ 2 % Mod = 2 /\ 4 % Mod = 4
  BY Parameters
<1>2. EOT # SOH
  <2> SUFFICES ASSUME Num(4) = Num(1) PROVE FALSE
    BY DEF EOT, SOH
  <2> QED
    BY <1>1, NumOf
<1>3. EOT # STX
  <2> SUFFICES ASSUME Num(4) = Num(2) PROVE FALSE
    BY DEF EOT, STX
  <2> QED
    BY <1>1, NumOf
<1>4. EOT # garbled
  BY Kinds DEF EOT
<1> QED
  BY <1>2, <1>3, <1>4 DEF Heads

(* The numbers of a first packet are no EOT: 4 # 1 and 4 # Mod - 2.        *)
LEMMA FirstNotEOT == EOT # Num(1) /\ EOT # Num(Mod - 1 - (1 % Mod))
<1>1. 1 % Mod = 1 /\ 4 % Mod = 4 /\ (Mod - 1 - 1) % Mod = Mod - 2 /\ Mod - 2 # 4
  BY Parameters
<1>2. EOT # Num(1)
  <2> SUFFICES ASSUME Num(4) = Num(1) PROVE FALSE
    BY DEF EOT
  <2> QED
    BY <1>1, NumOf
<1>3. EOT # Num(Mod - 1 - (1 % Mod))
  <2> SUFFICES ASSUME Num(4) = Num(Mod - 1 - (1 % Mod)) PROVE FALSE
    BY DEF EOT
  <2>1. Mod - 1 - (1 % Mod) \in Int /\ 4 \in Int
    BY Parameters, <1>1
  <2> QED
    BY <1>1, <2>1, NumOf
<1> QED
  BY <1>2, <1>3

(* The next packet has another number.                                     *)
LEMMA NextNum == ASSUME NEW n \in Nat PROVE Num((n + 1) % Mod) # Num(n)
<1>1. (n + 1) % Mod # n % Mod
  <2>1. \A x \in Int : /\ x % Mod \in 0..(Mod - 1) /\ x \div Mod \in Int
                       /\ x = Mod * (x \div Mod) + (x % Mod)
    BY Parameters
  <2>2. PICK a \in Int, b \in Int : /\ n = Mod * a + (n % Mod)
                                    /\ n + 1 = Mod * b + ((n + 1) % Mod)
    BY <2>1
  <2>3. ASSUME NEW k \in Int PROVE Mod * k # 1
    <3>1. CASE k <= 0
      BY <3>1, Parameters
    <3>2. CASE k > 0
      <4>1. Mod * k >= Mod
        BY <3>2, Parameters
      <4> QED
        BY <4>1, Parameters
    <3> QED
      BY <2>3, <3>1, <3>2
  <2>4. Mod * (b - a) = Mod * b - Mod * a /\ b - a \in Int
    BY Parameters
  <2>5. Mod * (b - a) # 1
    BY <2>3, <2>4
  <2>6. n % Mod \in Int /\ (n + 1) % Mod \in Int /\ Mod * b \in Int /\ Mod * a \in Int
    BY <2>1, Parameters
  <2> QED
    BY <2>2, <2>4, <2>5, <2>6
<1>2. ((n + 1) % Mod) % Mod = (n + 1) % Mod /\ (n + 1) % Mod \in Int
  BY Parameters
<1> QED
  BY <1>1, <1>2, NumOf

-----------------------------------------------------------------------------
(* Sequences.                                                              *)

LEMMA TailIs ==
  ASSUME NEW S, NEW q \in Seq(S), q # <<>>
  PROVE  /\ Tail(q) \in Seq(S) /\ Len(q) \in Nat /\ Len(q) >= 1
         /\ Len(Tail(q)) = Len(q) - 1
         /\ Head(q) = q[1] /\ Head(q) \in S
         /\ \A i \in 1..(Len(q) - 1) : Tail(q)[i] = q[i + 1]
<1>1. Len(q) \in Nat /\ Len(q) # 0
  OBVIOUS
<1>2. Tail(q) \in Seq(S) /\ Len(Tail(q)) = Len(q) - 1
  BY <1>1
<1>3. Head(q) = q[1] /\ Head(q) \in S
  BY <1>1
<1>4. \A i \in 1..(Len(q) - 1) : Tail(q)[i] = q[i + 1]
  BY <1>1, <1>2
<1> QED
  BY <1>1, <1>2, <1>3, <1>4

LEMMA ConcatIs ==
  ASSUME NEW S, NEW q \in Seq(S), NEW p \in Seq(S)
  PROVE  /\ q \o p \in Seq(S) /\ Len(q) \in Nat /\ Len(p) \in Nat
         /\ Len(q \o p) = Len(q) + Len(p)
         /\ \A i \in 1..Len(q) : (q \o p)[i] = q[i]
         /\ \A i \in 1..Len(p) : (q \o p)[Len(q) + i] = p[i]
OBVIOUS

LEMMA OneIs ==
  ASSUME NEW S, NEW x \in S
  PROVE  <<x>> \in Seq(S) /\ Len(<<x>>) = 1 /\ <<x>>[1] = x /\ <<x>> # <<>>
OBVIOUS

(* Every position of a concatenation is one of the first or of the second. *)
LEMMA ConcatAt ==
  ASSUME NEW S, NEW q \in Seq(S), NEW p \in Seq(S), NEW j \in 1..Len(q \o p)
  PROVE  \/ j \in 1..Len(q) /\ (q \o p)[j] = q[j]
         \/ \E i \in 1..Len(p) : j = Len(q) + i /\ (q \o p)[j] = p[i]
<1>1. /\ Len(q) \in Nat /\ Len(p) \in Nat /\ Len(q \o p) = Len(q) + Len(p)
      /\ \A i \in 1..Len(q) : (q \o p)[i] = q[i]
      /\ \A i \in 1..Len(p) : (q \o p)[Len(q) + i] = p[i]
  BY ConcatIs
<1>2. CASE j <= Len(q)
  BY <1>1, <1>2
<1>3. CASE j > Len(q)
  <2>1. j - Len(q) \in 1..Len(p) /\ j = Len(q) + (j - Len(q))
    BY <1>1, <1>3
  <2> QED
    BY <1>1, <2>1
<1> QED
  BY <1>1, <1>2, <1>3

(* x is in q; at most once; at the end.                                    *)
Has(q, x) == \E j \in 1..Len(q) : q[j] = x

Once(q, x) == \A i, j \in 1..Len(q) : q[i] = x /\ q[j] = x => i = j

LastIs(q, x) == q # <<>> /\ q[Len(q)] = x

(* What a shorter or a longer sequence has.                                *)
LEMMA HasTail ==
  ASSUME NEW S, NEW q \in Seq(S), q # <<>>, NEW x, Has(Tail(q), x)
  PROVE  Has(q, x)
<1>1. PICK j \in 1..(Len(q) - 1) : Tail(q)[j] = x /\ Tail(q)[j] = q[j + 1]
  BY TailIs DEF Has
<1>2. j + 1 \in 1..Len(q)
  BY TailIs
<1> QED
  BY <1>1, <1>2 DEF Has

LEMMA HasConcat ==
  ASSUME NEW S, NEW q \in Seq(S), NEW p \in Seq(S), NEW x, Has(q \o p, x)
  PROVE  Has(q, x) \/ Has(p, x)
<1>1. PICK j \in 1..Len(q \o p) : (q \o p)[j] = x
  BY DEF Has
<1> QED
  BY <1>1, ConcatAt DEF Has

LEMMA HasOne == ASSUME NEW y, NEW x, Has(<<y>>, x) PROVE x = y
BY DEF Has

LEMMA HasNone == ASSUME NEW x PROVE ~Has(<<>>, x)
BY DEF Has

LEMMA HasHead == ASSUME NEW S, NEW q \in Seq(S), q # <<>> PROVE Has(q, Head(q))
<1>1. Head(q) = q[1] /\ 1 \in 1..Len(q)
  BY TailIs
<1> QED
  BY <1>1 DEF Has

(* What stays single.                                                      *)
LEMMA OnceTail ==
  ASSUME NEW S, NEW q \in Seq(S), q # <<>>, NEW x, Once(q, x)
  PROVE  Once(Tail(q), x) /\ (Head(q) = x => ~Has(Tail(q), x))
<1>1. /\ Len(q) \in Nat /\ Len(q) >= 1 /\ Len(Tail(q)) = Len(q) - 1 /\ Head(q) = q[1]
      /\ \A i \in 1..(Len(q) - 1) : Tail(q)[i] = q[i + 1]
  BY TailIs
<1>2. ASSUME NEW i \in 1..Len(Tail(q)) PROVE i + 1 \in 1..Len(q) /\ Tail(q)[i] = q[i + 1]
  BY <1>1
<1>3. Once(Tail(q), x)
  <2> SUFFICES ASSUME NEW i \in 1..Len(Tail(q)), NEW j \in 1..Len(Tail(q)),
                      Tail(q)[i] = x, Tail(q)[j] = x
               PROVE  i = j
    BY DEF Once
  <2>1. i + 1 = j + 1
    BY <1>2 DEF Once
  <2> QED
    BY <2>1, <1>1
<1>4. ASSUME Head(q) = x, Has(Tail(q), x) PROVE FALSE
  <2>1. PICK i \in 1..Len(Tail(q)) : Tail(q)[i] = x
    BY <1>4 DEF Has
  <2>2. i + 1 = 1
    <3>1. 1 \in 1..Len(q) /\ q[1] = x /\ q[i + 1] = x /\ i + 1 \in 1..Len(q)
      BY <1>1, <1>2, <1>4, <2>1
    <3> QED
      BY <3>1 DEF Once
  <2> QED
    BY <1>1, <2>2
<1> QED
  BY <1>3, <1>4

LEMMA OnceConcat ==
  ASSUME NEW S, NEW q \in Seq(S), NEW p \in Seq(S), NEW x, Once(q, x), ~Has(p, x)
  PROVE  Once(q \o p, x)
<1> SUFFICES ASSUME NEW i \in 1..Len(q \o p), NEW j \in 1..Len(q \o p),
                    (q \o p)[i] = x, (q \o p)[j] = x
             PROVE  i = j
  BY DEF Once
<1>1. \A k \in 1..Len(q \o p) : (q \o p)[k] = x => k \in 1..Len(q) /\ q[k] = x
  BY ConcatAt DEF Has
<1> QED
  BY <1>1 DEF Once

LEMMA OnceNew ==
  ASSUME NEW S, NEW q \in Seq(S), NEW x \in S, ~Has(q, x)
  PROVE  Once(q \o <<x>>, x)
<1> SUFFICES ASSUME NEW i \in 1..Len(q \o <<x>>), NEW j \in 1..Len(q \o <<x>>),
                    (q \o <<x>>)[i] = x, (q \o <<x>>)[j] = x
             PROVE  i = j
  BY DEF Once
<1>1. <<x>> \in Seq(S) /\ Len(<<x>>) = 1
  OBVIOUS
<1>2. \A k \in 1..Len(q \o <<x>>) : (q \o <<x>>)[k] = x => k = Len(q) + 1
  BY <1>1, ConcatAt DEF Has
<1> QED
  BY <1>2

(* What the last element is.                                               *)
LEMMA LastConcat ==
  ASSUME NEW S, NEW q \in Seq(S), NEW p \in Seq(S), p # <<>>
  PROVE  q \o p # <<>> /\ (q \o p)[Len(q \o p)] = p[Len(p)]
<1>1. Len(p) \in Nat /\ Len(p) # 0 /\ Len(q) \in Nat
  OBVIOUS
<1>2. Len(p) \in 1..Len(p) /\ Len(q \o p) = Len(q) + Len(p)
  BY <1>1, ConcatIs
<1>3. (q \o p)[Len(q) + Len(p)] = p[Len(p)]
  BY <1>2, ConcatIs
<1>4. Len(<<>>) = 0
  OBVIOUS
<1> QED
  BY <1>1, <1>2, <1>3, <1>4

LEMMA LastTail ==
  ASSUME NEW S, NEW q \in Seq(S), NEW x, LastIs(q, x)
  PROVE  LastIs(Tail(q), x) \/ (Tail(q) = <<>> /\ Head(q) = x)
<1>1. /\ q # <<>> /\ q[Len(q)] = x /\ Len(q) \in Nat /\ Len(q) >= 1
      /\ Len(Tail(q)) = Len(q) - 1 /\ Head(q) = q[1] /\ Tail(q) \in Seq(S)
  BY TailIs DEF LastIs
<1>2. CASE Len(q) = 1
  <2>1. Len(Tail(q)) = 0
    BY <1>1, <1>2
  <2>2. Tail(q) = <<>>
    BY <1>1, <2>1, EmptySeq
  <2> QED
    BY <1>1, <1>2, <2>2
<1>3. CASE Len(q) # 1
  <2>1. Len(q) - 1 \in 1..(Len(q) - 1)
    BY <1>1, <1>3
  <2>2. Tail(q)[Len(q) - 1] = q[(Len(q) - 1) + 1] /\ (Len(q) - 1) + 1 = Len(q)
    BY <1>1, <2>1, TailIs
  <2>3. Tail(q) # <<>>
    <3>1. Len(Tail(q)) # 0 /\ Len(<<>>) = 0
      BY <1>1, <1>3
    <3> QED
      BY <3>1
  <2> QED
    BY <1>1, <2>2, <2>3 DEF LastIs
<1> QED
  BY <1>2, <1>3

-----------------------------------------------------------------------------
(* What the sender may have under way.                                     *)

SenderState == [img : DOMAIN Image, next : Nat \ {0}, num : Nat, size : {0, 1, 2},
           phase : {"off", "starts", "waits", "done", "stopped"}]

(* The bytes of n blocks from the one that the sender s sends next, and    *)
(* the sizes that its packet can have.                                     *)
Content(s, n) == [i \in 1..n |-> Data(Image[s.img][s.next + i - 1])]

Sizes(s) == {n \in {1, 2} : s.next + n - 1 <= Len(Image[s.img])}

(* A checksum under way is one of the blocks that the sender waits for.    *)
SumsRight(q, s) ==
  \A j \in 1..Len(q) : q[j][1] = "crc" => \E n \in Sizes(s) : q[j] = crc(Content(s, n))

(* After a packet comes the beginning of the same packet, sent again.      *)
Followed(q, s) ==
  \A j \in 1..(Len(q) - 1) : q[j][1] = "crc" =>
    /\ j + 2 <= Len(q)
    /\ q[j + 1] \in Heads
    /\ q[j + 2] \in {Num(s.num), garbled}

(* The line ends with the packet that was sent last.                       *)
EndsRight(q, s) ==
  q # <<>> => q[Len(q)] \in {crc(Content(s, s.size)), garbled}

(* The bytes q are from the current packet of s, sent once or many times,  *)
(* the first of them perhaps read already and any of them garbled.         *)
Current(q, s) == SumsRight(q, s) /\ Followed(q, s) /\ EndsRight(q, s)

LEMMA CurrentNone == ASSUME NEW s PROVE Current(<<>>, s)
BY DEF Current, SumsRight, Followed, EndsRight

(* Current without the byte that was read, or with the first one garbled.  *)
LEMMA CurrentTail ==
  ASSUME NEW s, NEW q \in Seq(Byte), q # <<>>, Current(q, s)
  PROVE  Current(Tail(q), s)
<1> DEFINE t == Tail(q)
<1>1. /\ Len(q) \in Nat /\ Len(q) >= 1 /\ Len(t) = Len(q) - 1 /\ t \in Seq(Byte)
      /\ \A i \in 1..(Len(q) - 1) : t[i] = q[i + 1]
  BY TailIs
<1> HIDE DEF t
<1>2. SumsRight(t, s)
  <2> SUFFICES ASSUME NEW j \in 1..Len(t), t[j][1] = "crc"
               PROVE  \E n \in Sizes(s) : t[j] = crc(Content(s, n))
    BY DEF SumsRight
  <2>1. t[j] = q[j + 1] /\ j + 1 \in 1..Len(q)
    BY <1>1
  <2> QED
    BY <2>1 DEF Current, SumsRight
<1>3. Followed(t, s)
  <2> SUFFICES ASSUME NEW j \in 1..(Len(t) - 1), t[j][1] = "crc"
               PROVE  /\ j + 2 <= Len(t) /\ t[j + 1] \in Heads
                      /\ t[j + 2] \in {Num(s.num), garbled}
    BY DEF Followed
  <2>1. t[j] = q[j + 1] /\ j + 1 \in 1..(Len(q) - 1)
    BY <1>1
  <2>2. /\ (j + 1) + 2 <= Len(q) /\ q[(j + 1) + 1] \in Heads
        /\ q[(j + 1) + 2] \in {Num(s.num), garbled}
    BY <2>1 DEF Current, Followed
  <2>3. /\ j + 1 \in 1..(Len(q) - 1) /\ j + 2 \in 1..(Len(q) - 1)
        /\ (j + 1) + 2 = (j + 2) + 1
    BY <1>1, <2>2
  <2>4. t[j + 1] = q[(j + 1) + 1] /\ t[j + 2] = q[(j + 2) + 1]
    BY <1>1, <2>3
  <2> QED
    BY <1>1, <2>2, <2>3, <2>4
<1>4. EndsRight(t, s)
  <2> SUFFICES ASSUME t # <<>> PROVE t[Len(t)] \in {crc(Content(s, s.size)), garbled}
    BY DEF EndsRight
  <2>1. Len(t) # 0
    BY <1>1
  <2>2. t[Len(t)] = q[Len(t) + 1] /\ Len(t) + 1 = Len(q)
    BY <1>1, <2>1
  <2> QED
    BY <2>2 DEF Current, EndsRight
<1> QED
  BY <1>2, <1>3, <1>4 DEF Current, t

(* What a garbled first byte leaves.                                       *)
LEMMA GarbledIs ==
  ASSUME NEW q \in Seq(Byte), q # <<>>
  PROVE  LET g == <<garbled>> \o Tail(q)
         IN  /\ g \in Seq(Byte) /\ g # <<>> /\ Len(g) = Len(q) /\ g[1] = garbled
             /\ \A i \in 2..Len(q) : g[i] = q[i]
<1> DEFINE g == <<garbled>> \o Tail(q)
<1>1. /\ Len(q) \in Nat /\ Len(q) >= 1 /\ Len(Tail(q)) = Len(q) - 1 /\ Tail(q) \in Seq(Byte)
      /\ \A i \in 1..(Len(q) - 1) : Tail(q)[i] = q[i + 1]
  BY TailIs
<1>2. garbled \in Byte
  BY DEF Byte
<1>3. <<garbled>> \in Seq(Byte) /\ Len(<<garbled>>) = 1 /\ <<garbled>>[1] = garbled
  BY <1>2
<1>4. /\ g \in Seq(Byte) /\ Len(g) = 1 + Len(Tail(q))
      /\ \A i \in 1..1 : g[i] = <<garbled>>[i]
      /\ \A i \in 1..Len(Tail(q)) : g[1 + i] = Tail(q)[i]
  BY <1>1, <1>3, ConcatIs
<1> HIDE DEF g
<1>5. ASSUME NEW i \in 2..Len(q) PROVE g[i] = q[i]
  <2>1. i - 1 \in 1..(Len(q) - 1) /\ 1 + (i - 1) = i /\ (i - 1) + 1 = i
    BY <1>1
  <2> QED
    BY <1>1, <1>4, <2>1
<1>6. Len(g) = Len(q) /\ g[1] = garbled
  BY <1>1, <1>3, <1>4
<1>7. g # <<>>
  BY <1>1, <1>4
<1> QED
  BY <1>4, <1>5, <1>6, <1>7 DEF g

LEMMA CurrentGarbled ==
  ASSUME NEW s, NEW q \in Seq(Byte), q # <<>>, Current(q, s)
  PROVE  Current(<<garbled>> \o Tail(q), s)
<1> DEFINE g == <<garbled>> \o Tail(q)
<1>1. /\ g \in Seq(Byte) /\ g # <<>> /\ Len(g) = Len(q) /\ g[1] = garbled
      /\ \A i \in 2..Len(q) : g[i] = q[i]
  BY GarbledIs
<1>2. Len(q) \in Nat /\ Len(q) >= 1 /\ garbled[1] # "crc" /\ garbled \in Heads
  BY TailIs, Kinds DEF Heads
<1> HIDE DEF g
<1>3. SumsRight(g, s)
  <2> SUFFICES ASSUME NEW j \in 1..Len(g), g[j][1] = "crc"
               PROVE  \E n \in Sizes(s) : g[j] = crc(Content(s, n))
    BY DEF SumsRight
  <2>1. j \in 2..Len(q) /\ j \in 1..Len(q) /\ g[j] = q[j]
    BY <1>1, <1>2
  <2> QED
    BY <2>1 DEF Current, SumsRight
<1>4. Followed(g, s)
  <2> SUFFICES ASSUME NEW j \in 1..(Len(g) - 1), g[j][1] = "crc"
               PROVE  /\ j + 2 <= Len(g) /\ g[j + 1] \in Heads
                      /\ g[j + 2] \in {Num(s.num), garbled}
    BY DEF Followed
  <2>1. j \in 2..Len(q) /\ j \in 1..(Len(q) - 1) /\ g[j] = q[j]
    BY <1>1, <1>2
  <2>2. /\ j + 2 <= Len(q) /\ q[j + 1] \in Heads
        /\ q[j + 2] \in {Num(s.num), garbled}
    BY <2>1 DEF Current, Followed
  <2>3. j + 1 \in 2..Len(q) /\ j + 2 \in 2..Len(q)
    BY <1>2, <2>1, <2>2
  <2> QED
    BY <1>1, <2>2, <2>3
<1>5. EndsRight(g, s)
  <2>1. CASE Len(q) = 1
    BY <1>1, <2>1 DEF EndsRight
  <2>2. CASE Len(q) # 1
    <3>1. Len(q) \in 2..Len(q) /\ g[Len(g)] = q[Len(q)]
      BY <1>1, <1>2, <2>2
    <3> QED
      BY <3>1 DEF EndsRight, Current
  <2> QED
    BY <2>1, <2>2
<1> QED
  BY <1>3, <1>4, <1>5 DEF Current, g

-----------------------------------------------------------------------------
(* A packet.                                                               *)

IsPacket(p, num, bytes) ==
  /\ p \in Seq(Byte) /\ Len(p) = Len(bytes) + 4
  /\ p[1] \in {SOH, STX} /\ p[2] = Num(num) /\ p[3] = Num(Mod - 1 - (num % Mod))
  /\ \A i \in 1..Len(bytes) : p[3 + i] = bytes[i]
  /\ p[Len(bytes) + 4] = crc(bytes)

LEMMA PacketIs ==
  ASSUME NEW num \in Nat, NEW bytes \in Seq(DataByte)
  PROVE  IsPacket(packet(num, bytes), num, bytes)
<1> DEFINE h == IF Len(bytes) = 1 THEN SOH ELSE STX
           x == Num(num)
           y == Num(Mod - 1 - (num % Mod))
           z == crc(bytes)
<1>1. num % Mod \in Int /\ Mod - 1 - (num % Mod) \in Int
  BY Parameters
<1>2. h \in Byte /\ x \in Byte /\ y \in Byte /\ z \in Byte /\ h \in {SOH, STX}
  BY <1>1 DEF Byte, SOH, STX
<1>3. bytes \in Seq(Byte) /\ Len(bytes) \in Nat
  BY DEF Byte
<1>4. packet(num, bytes) = (<<h, x, y>> \o bytes) \o <<z>>
  BY DEF packet
<1> HIDE DEF h, x, y, z
<1>5. /\ <<h, x, y>> \in Seq(Byte) /\ Len(<<h, x, y>>) = 3
      /\ <<h, x, y>>[1] = h /\ <<h, x, y>>[2] = x /\ <<h, x, y>>[3] = y
  BY <1>2
<1>6. PICK b : b = <<h, x, y>> \o bytes
  OBVIOUS
<1>7. /\ b \in Seq(Byte) /\ Len(b) = 3 + Len(bytes)
      /\ b[1] = h /\ b[2] = x /\ b[3] = y
      /\ \A i \in 1..Len(bytes) : b[3 + i] = bytes[i]
  <2>1. /\ b \in Seq(Byte) /\ Len(b) = 3 + Len(bytes)
        /\ \A i \in 1..3 : b[i] = <<h, x, y>>[i]
        /\ \A i \in 1..Len(bytes) : b[3 + i] = bytes[i]
    BY <1>3, <1>5, <1>6, ConcatIs
  <2> QED
    BY <1>5, <2>1
<1>8. <<z>> \in Seq(Byte) /\ Len(<<z>>) = 1 /\ <<z>>[1] = z
  BY <1>2
<1>9. PICK p : p = b \o <<z>>
  OBVIOUS
<1>10. /\ p \in Seq(Byte) /\ Len(p) = Len(b) + 1
       /\ \A i \in 1..Len(b) : p[i] = b[i]
       /\ p[Len(b) + 1] = z
  <2>1. /\ p \in Seq(Byte) /\ Len(p) = Len(b) + Len(<<z>>)
        /\ \A i \in 1..Len(b) : p[i] = b[i]
        /\ \A i \in 1..Len(<<z>>) : p[Len(b) + i] = <<z>>[i]
    BY <1>7, <1>8, <1>9, ConcatIs
  <2> QED
    BY <1>8, <2>1
<1>11. p[1] = h /\ p[2] = x /\ p[3] = y /\ Len(p) = Len(bytes) + 4
  BY <1>3, <1>7, <1>10
<1>12. ASSUME NEW i \in 1..Len(bytes) PROVE p[3 + i] = bytes[i]
  BY <1>3, <1>7, <1>10
<1>13. p[Len(bytes) + 4] = z
  BY <1>3, <1>7, <1>10
<1>14. IsPacket(p, num, bytes)
  BY <1>2, <1>10, <1>11, <1>12, <1>13 DEF IsPacket, x, y, z
<1> QED
  BY <1>4, <1>6, <1>9, <1>14

(* What a packet of the sender consists of.                                *)
LEMMA ContentIs ==
  ASSUME NEW s \in SenderState, NEW n \in Sizes(s)
  PROVE  /\ n \in {1, 2} /\ Content(s, n) \in Seq(DataByte) /\ Len(Content(s, n)) = n
         /\ s.next + n - 1 <= Len(Image[s.img])
         /\ \A i \in 1..n : /\ s.next + i - 1 \in 1..Blocks
                            /\ Content(s, n)[i] = Data(Image[s.img][s.next + i - 1])
                            /\ Content(s, n)[i] \in DataByte
<1>1. n \in {1, 2} /\ s.next + n - 1 <= Len(Image[s.img])
  BY DEF Sizes
<1>2. /\ s.next \in Nat \ {0} /\ s.img \in DOMAIN Image
      /\ Len(Image[s.img]) \in 1..Blocks /\ Blocks \in Nat
  BY Parameters DEF SenderState
<1>3. ASSUME NEW i \in 1..n
      PROVE  s.next + i - 1 \in 1..Blocks /\ Data(Image[s.img][s.next + i - 1]) \in DataByte
  <2>1. s.next + i - 1 \in 1..Blocks
    BY <1>1, <1>2
  <2>2. Image[s.img][s.next + i - 1] \in Block
    BY <1>2, <2>1 DEF Block
  <2> QED
    BY <2>1, <2>2 DEF DataByte
<1>4. ASSUME NEW i \in 1..n
      PROVE  Content(s, n)[i] = Data(Image[s.img][s.next + i - 1])
  BY DEF Content
<1>5. Content(s, n) \in [1..n -> DataByte]
  BY <1>3 DEF Content
<1>6. n \in Nat
  BY <1>1
<1>7. Content(s, n) \in Seq(DataByte) /\ Len(Content(s, n)) = n
  <2> HIDE DEF Content
  <2> QED
    BY <1>5, <1>6
<1> QED
  BY <1>1, <1>3, <1>4, <1>7

(* The packet that the sender t has sent last.                             *)
LastPacket(t) == packet(t.num, Content(t, t.size))

LEMMA LastPacketIs ==
  ASSUME NEW t \in SenderState, t.size \in Sizes(t)
  PROVE  /\ IsPacket(LastPacket(t), t.num, Content(t, t.size))
         /\ LastPacket(t) \in Seq(Byte) /\ Len(LastPacket(t)) = t.size + 4
         /\ t.size \in {1, 2} /\ LastPacket(t) # <<>>
         /\ LastPacket(t)[1] \in Heads /\ LastPacket(t)[2] = Num(t.num)
         /\ LastPacket(t)[t.size + 4] = crc(Content(t, t.size))
         /\ \A j \in 1..(t.size + 3) : LastPacket(t)[j][1] # "crc"
<1> DEFINE p == LastPacket(t)
           n == t.size
<1>1. t.num \in Nat
  BY DEF SenderState
<1>2. /\ n \in {1, 2} /\ Content(t, n) \in Seq(DataByte) /\ Len(Content(t, n)) = n
      /\ \A i \in 1..n : Content(t, n)[i] = Data(Image[t.img][t.next + i - 1])
  BY ContentIs
<1>3. IsPacket(p, t.num, Content(t, n))
  BY <1>1, <1>2, PacketIs DEF LastPacket
<1> HIDE DEF p, n
<1>4. /\ p \in Seq(Byte) /\ Len(p) = n + 4
      /\ p[1] \in {SOH, STX} /\ p[2] = Num(t.num) /\ p[3] = Num(Mod - 1 - (t.num % Mod))
      /\ \A i \in 1..n : p[3 + i] = Data(Image[t.img][t.next + i - 1])
      /\ p[n + 4] = crc(Content(t, n))
  BY <1>2, <1>3 DEF IsPacket
<1>5. ASSUME NEW j \in 1..(n + 3) PROVE p[j][1] # "crc"
  <2>1. CASE j = 1
    BY <1>4, <2>1, Kinds DEF SOH, STX
  <2>2. CASE j = 2
    BY <1>4, <2>2, Kinds
  <2>3. CASE j = 3
    BY <1>4, <2>3, Kinds
  <2>4. CASE j > 3
    <3>1. j - 3 \in 1..n /\ 3 + (j - 3) = j
      BY <1>2, <2>4
    <3>2. p[j] = Data(Image[t.img][t.next + (j - 3) - 1])
      BY <1>4, <3>1
    <3> QED
      BY <3>2, Kinds
  <2> QED
    BY <1>2, <2>1, <2>2, <2>3, <2>4
<1>6. p # <<>>
  <2>1. Len(p) # 0
    BY <1>2, <1>4
  <2> QED
    BY <2>1
<1> QED
  BY <1>2, <1>3, <1>4, <1>5, <1>6 DEF Heads, p, n

(* No byte of a first packet is EOT.                                       *)
LEMMA FirstHasNoEOT ==
  ASSUME NEW t \in SenderState, t.size \in Sizes(t), t.num = 1
  PROVE  ~Has(LastPacket(t), EOT)
<1> DEFINE p == LastPacket(t)
           n == t.size
<1>1. /\ IsPacket(p, t.num, Content(t, n)) /\ n \in {1, 2} /\ Len(p) = n + 4
  BY LastPacketIs
<1>2. /\ Len(Content(t, n)) = n
      /\ \A i \in 1..n : Content(t, n)[i] = Data(Image[t.img][t.next + i - 1])
  BY ContentIs
<1> HIDE DEF p, n
<1>3. /\ p[1] \in {SOH, STX} /\ p[2] = Num(1) /\ p[3] = Num(Mod - 1 - (1 % Mod))
      /\ \A i \in 1..n : p[3 + i] = Data(Image[t.img][t.next + i - 1])
      /\ p[n + 4] = crc(Content(t, n))
  BY <1>1, <1>2 DEF IsPacket
<1>4. /\ EOT \notin {SOH, STX} /\ EOT # Num(1) /\ EOT # Num(Mod - 1 - (1 % Mod))
      /\ EOT[1] = "num"
  BY HeadNotEOT, FirstNotEOT, Kinds DEF Heads, EOT
<1>5. ASSUME NEW j \in 1..(n + 4) PROVE p[j] # EOT
  <2>1. CASE j = 1
    BY <1>3, <1>4, <2>1
  <2>2. CASE j = 2
    BY <1>3, <1>4, <2>2
  <2>3. CASE j = 3
    BY <1>3, <1>4, <2>3
  <2>4. CASE j > 3 /\ j < n + 4
    <3>1. j - 3 \in 1..n /\ 3 + (j - 3) = j
      BY <1>1, <2>4
    <3>2. p[j] = Data(Image[t.img][t.next + (j - 3) - 1])
      BY <1>3, <3>1
    <3> QED
      BY <3>2, <1>4, Kinds
  <2>5. CASE j = n + 4
    BY <1>3, <1>4, <2>5, Kinds
  <2> QED
    BY <1>1, <2>1, <2>2, <2>3, <2>4, <2>5
<1> QED
  BY <1>1, <1>5 DEF Has, p

(* Only these parts of the sender matter to the bytes before the last one. *)
SamePacket(s, t) == t.img = s.img /\ t.next = s.next /\ t.num = s.num

(* What another size changes, and what sending once more adds.             *)
LEMMA CurrentSame ==
  ASSUME NEW s, NEW t, NEW q, SamePacket(s, t), Current(q, s)
  PROVE  SumsRight(q, t) /\ Followed(q, t)
<1>1. Sizes(t) = Sizes(s) /\ \A n : Content(t, n) = Content(s, n)
  BY DEF Sizes, Content, SamePacket
<1> QED
  BY <1>1 DEF Current, SumsRight, Followed, SamePacket

LEMMA CurrentAppend ==
  ASSUME NEW t \in SenderState, t.size \in Sizes(t),
         NEW q \in Seq(Byte), SumsRight(q, t), Followed(q, t)
  PROVE  Current(q \o LastPacket(t), t)
<1> DEFINE p == LastPacket(t)
           n == t.size
           r == q \o p
<1>1. /\ p \in Seq(Byte) /\ Len(p) = n + 4 /\ n \in {1, 2} /\ p # <<>>
      /\ p[1] \in Heads /\ p[2] = Num(t.num)
      /\ p[n + 4] = crc(Content(t, n))
      /\ \A j \in 1..(n + 3) : p[j][1] # "crc"
  BY LastPacketIs
<1> HIDE DEF p
<1>2. /\ r \in Seq(Byte) /\ Len(q) \in Nat /\ Len(r) = Len(q) + (n + 4)
      /\ \A i \in 1..Len(q) : r[i] = q[i]
      /\ \A i \in 1..Len(p) : r[Len(q) + i] = p[i]
      /\ \A j \in 1..Len(r) : \/ j \in 1..Len(q) /\ r[j] = q[j]
                              \/ \E i \in 1..Len(p) : j = Len(q) + i /\ r[j] = p[i]
  BY <1>1, ConcatIs, ConcatAt
<1> HIDE DEF r, n
<1>a. n \in Nat /\ Len(r) \in Nat /\ Len(p) \in Nat /\ Len(r) >= 5
  BY <1>1, <1>2
<1>3. ASSUME NEW j \in 1..Len(r), r[j][1] = "crc"
      PROVE  \/ j \in 1..Len(q) /\ r[j] = q[j]
             \/ j = Len(r) /\ r[j] = crc(Content(t, n))
  <2>1. CASE j \in 1..Len(q) /\ r[j] = q[j]
    BY <2>1
  <2>2. ASSUME NEW i \in 1..Len(p), j = Len(q) + i, r[j] = p[i]
        PROVE  j = Len(r) /\ r[j] = crc(Content(t, n))
    <3>1. i \notin 1..(n + 3)
      BY <1>1, <1>3, <2>2
    <3>2. i = n + 4
      BY <1>1, <3>1
    <3> QED
      BY <1>1, <1>2, <2>2, <3>2
  <2> QED
    BY <1>2, <2>1, <2>2
<1>4. SumsRight(r, t)
  <2> SUFFICES ASSUME NEW j \in 1..Len(r), r[j][1] = "crc"
               PROVE  \E k \in Sizes(t) : r[j] = crc(Content(t, k))
    BY DEF SumsRight
  <2> QED
    BY <1>3 DEF SumsRight, n
<1>5. Followed(r, t)
  <2> SUFFICES ASSUME NEW j \in 1..(Len(r) - 1), r[j][1] = "crc"
               PROVE  /\ j + 2 <= Len(r) /\ r[j + 1] \in Heads
                      /\ r[j + 2] \in {Num(t.num), garbled}
    BY DEF Followed
  <2>1. j \in 1..Len(q) /\ r[j] = q[j]
    <3>1. j \in 1..Len(r) /\ j # Len(r)
      BY <1>a
    <3> QED
      BY <1>3, <3>1
  <2>2. CASE j = Len(q)
    <3>1. 1 \in 1..Len(p) /\ 2 \in 1..Len(p) /\ Len(q) + 2 <= Len(r)
      BY <1>1, <1>2, <1>a
    <3>2. r[Len(q) + 1] = p[1] /\ r[Len(q) + 2] = p[2]
      BY <1>2, <3>1
    <3> QED
      BY <1>1, <2>2, <3>1, <3>2
  <2>3. CASE j # Len(q)
    <3>1. j \in 1..(Len(q) - 1) /\ q[j][1] = "crc"
      BY <1>2, <2>1, <2>3
    <3>2. j + 2 <= Len(q) /\ q[j + 1] \in Heads /\ q[j + 2] \in {Num(t.num), garbled}
      BY <3>1 DEF Followed
    <3>3. j + 1 \in 1..Len(q) /\ j + 2 \in 1..Len(q) /\ Len(q) <= Len(r)
      BY <1>1, <1>2, <3>1, <3>2
    <3>4. r[j + 1] = q[j + 1] /\ r[j + 2] = q[j + 2]
      BY <1>2, <3>3
    <3>5. j + 2 <= Len(r)
      BY <1>2, <3>2, <3>3
    <3> QED
      BY <3>2, <3>4, <3>5
  <2> QED
    BY <2>2, <2>3
<1>6. EndsRight(r, t)
  <2>1. r[Len(q) + (n + 4)] = p[n + 4]
    BY <1>1, <1>2
  <2> QED
    BY <1>1, <1>2, <2>1 DEF EndsRight, n
<1> QED
  BY <1>4, <1>5, <1>6 DEF Current, r, p

(* The types of the receiver and of the line.                              *)
ReceiverState ==
  [state : {"INIT", "START", "PKTNUM_1", "PKTNUM_2", "DATA"}, timeout : Int, retries : Int,
   pktnum : Nat, pktlen : Nat, data : Seq(Byte)]

LineTypeOK ==
  /\ small \in BOOLEAN /\ loop \in {"shell", "transfer", "booted"}
  /\ d \in ReceiverState /\ bd \in Nat
  /\ up \in Seq(Answer) /\ down \in Seq(Byte) /\ snd \in SenderState
  /\ mistaken \in BOOLEAN

-----------------------------------------------------------------------------
(* What a step of the receiver can do.                                     *)

GoesOn(s) ==
  /\ err' = 1 /\ loop' = "transfer"
  /\ d' \in ReceiverState /\ d'.state = s /\ d'.pktnum = d.pktnum
  /\ UNCHANGED <<bd, flash>>

(* It gives up, and says so unless it is small (xmodem.c:51-59).           *)
Aborts ==
  /\ err' # 0 /\ ~(err' > 0)
  /\ loop' = IF small /\ bootable(flash) THEN "booted" ELSE "shell"
  /\ UNCHANGED <<d, bd, flash>>
  /\ small => up' = up
  /\ ~small => \E w \in {<<>>, <<C>>} : up' = up \o Append(w, CAN)

(* It finds the end (xmodem.c:103-105).                                    *)
SeesEnd ==
  /\ d.state \in {"INIT", "START"} /\ Head(down) = EOT
  /\ err' = 0
  /\ loop' = IF bootable(flash) THEN "booted" ELSE "shell"
  /\ UNCHANGED <<d, bd, flash>>
  /\ up' = up \o <<ACK>>

(* It takes a byte within a packet for the end (xmodem.c:103-105).         *)
Mistakes ==
  /\ d.state \in {"INIT", "START"} /\ Head(down) # EOT
  /\ Head(down)[1] \in {"data", "crc"}
  /\ err' = 0 /\ mistaken'
  /\ loop' = IF bootable(flash) THEN "booted" ELSE "shell"
  /\ UNCHANGED <<d, bd, flash>>
  /\ up' = up \o <<ACK>>

(* What can be read as the first byte of a packet.                         *)
Header(c) == c \in {SOH, STX} \/ c[1] \in {"data", "crc"}

(* It programs a packet and acknowledges it (xmodem.c:144-170).            *)
Accepts ==
  /\ d.state = "DATA" /\ Head(down) = crc(d.data)
  /\ xmodem_block(d.data)
  /\ err' = 1 /\ loop' = "transfer"
  /\ d' \in ReceiverState /\ d'.state = "START" /\ d'.pktnum = (d.pktnum + 1) % Mod
  /\ up' = up \o <<ACK>>

(* It reads a byte of a packet.                                            *)
Reads(s, t) == d.state = s /\ GoesOn(t) /\ up' = up

LEMMA FrontOfAppend ==
  ASSUME NEW S, NEW q \in Seq(S), NEW x \in S
  PROVE  Front(Append(q, x)) = q
BY DEF Front

LEMMA AbortIs ==
  ASSUME LineTypeOK, NEW e \in Int, e < 0, NEW w, w = <<>> \/ (~small /\ w = <<C>>),
         abort(e, w), outcome, UNCHANGED <<bd, flash>>
  PROVE  Aborts
<1>1. err' # 0 /\ ~(err' > 0)
  BY DEF abort
<1>2. small => up' = up
  <2> SUFFICES ASSUME small PROVE up' = up
    OBVIOUS
  <2>1. up' = up \o <<>> /\ up \in Seq(Answer)
    BY DEF abort, putc, LineTypeOK
  <2> QED
    BY <2>1
<1>3. ~small => \E v \in {<<>>, <<C>>} : up' = up \o Append(v, CAN)
  BY DEF abort, putc
<1> QED
  BY <1>1, <1>2, <1>3 DEF Aborts, abort, outcome, bootable

(* A byte does one of these,                                               *)
LEMMA ReceiveCases ==
  ASSUME LineTypeOK, Receive
  PROVE  \/ SeesEnd \/ Mistakes
         \/ Reads("INIT", "PKTNUM_1") /\ Header(Head(down))
         \/ Reads("START", "PKTNUM_1") /\ Header(Head(down))
         \/ Reads("PKTNUM_1", "PKTNUM_2") /\ Head(down) = Num(d.pktnum)
         \/ Reads("PKTNUM_2", "DATA") \/ Reads("DATA", "DATA")
         \/ Accepts
         \/ Aborts
<1> DEFINE c == Head(down)
<1>1. /\ xmodem_byte(c) /\ outcome /\ UNCHANGED <<small, snd>> /\ c \in Byte
  BY TailIs DEF Receive, LineTypeOK
<1>2. d \in ReceiverState /\ Retries \in Nat
  BY XmodemAssumption DEF LineTypeOK, XmodemAssumption
<1>3. fresh \in ReceiverState /\ fresh.state = d.state /\ fresh.pktnum = d.pktnum
  <2>1. PICK t \in Int, r \in Int : fresh = [d EXCEPT !.timeout = t, !.retries = r]
    <3>1. 0 \in Int /\ 1 \in Int /\ Retries \in Int
      BY <1>2
    <3>2. CASE small
      BY <3>1, <3>2 DEF fresh
    <3>3. CASE ~small
      BY <3>1, <3>3 DEF fresh, XMODEM_TIMEOUT
    <3> QED
      BY <3>2, <3>3
  <2> QED
    BY <1>2, <2>1 DEF ReceiverState
<1> HIDE DEF c
<1>a. ASSUME NEW s \in {"PKTNUM_1", "PKTNUM_2", "DATA"}, NEW n \in Nat
      PROVE  LET f == [fresh EXCEPT !.state = s, !.pktlen = n]
             IN  f \in ReceiverState /\ f.state = s /\ f.pktnum = d.pktnum
  BY <1>3 DEF ReceiverState
<1>b. ASSUME NEW s \in {"PKTNUM_1", "PKTNUM_2", "DATA"}
      PROVE  LET f == [fresh EXCEPT !.state = s]
             IN  f \in ReceiverState /\ f.state = s /\ f.pktnum = d.pktnum
  BY <1>3 DEF ReceiverState
<1>c. ASSUME NEW s \in {"PKTNUM_1", "PKTNUM_2", "DATA"}, NEW q \in Seq(Byte)
      PROVE  LET f == [fresh EXCEPT !.state = s, !.data = q]
             IN  f \in ReceiverState /\ f.state = s /\ f.pktnum = d.pktnum
  BY <1>3 DEF ReceiverState
<1>d. <<>> \in Seq(Byte)
  OBVIOUS
<1>4. CASE start(c)
  <2>1. d.state \in {"INIT", "START"} /\ UNCHANGED <<bd, flash>>
    BY <1>4 DEF start
  <2>2. PICK b \in looksLike(c) :
          CASE b = EOT -> err' = 0 /\ putc(<<ACK>>) /\ UNCHANGED d
            [] b \in {SOH, STX} ->
                 /\ goOn([fresh EXCEPT !.state = "PKTNUM_1",
                                       !.pktlen = IF b = SOH THEN 1 ELSE 2])
                 /\ UNCHANGED up
            [] OTHER -> abort(-3, <<>>)
    BY <1>4 DEF start
  <2>3. EOT \notin {SOH, STX} /\ (b = c \/ c[1] \in {"data", "crc"})
    BY <2>2, HeadNotEOT DEF Heads, looksLike
  <2>4. CASE b = EOT
    <3>1. err' = 0 /\ putc(<<ACK>>) /\ d' = d
      BY <2>2, <2>3, <2>4
    <3>2. loop' = IF bootable(flash) THEN "booted" ELSE "shell"
      BY <1>1, <2>1, <3>1 DEF outcome, bootable
    <3>3. CASE c = EOT
      BY <2>1, <3>1, <3>2, <3>3 DEF SeesEnd, putc, c
    <3>4. CASE c # EOT
      <4>1. mistaken'
        BY <3>1, <3>4 DEF Receive, c
      <4> QED
        BY <2>1, <2>3, <2>4, <3>1, <3>2, <3>4, <4>1 DEF Mistakes, putc, c
    <3> QED
      BY <3>3, <3>4
  <2>5. CASE b \in {SOH, STX}
    <3>1. b # EOT
      BY <2>3, <2>5
    <3>2. PICK n \in Nat : goOn([fresh EXCEPT !.state = "PKTNUM_1", !.pktlen = n]) /\ up' = up
      BY <2>2, <2>5, <3>1
    <3>3. d' \in ReceiverState /\ d'.state = "PKTNUM_1" /\ d'.pktnum = d.pktnum
      BY <1>a, <3>2 DEF goOn
    <3>4. GoesOn("PKTNUM_1")
      BY <1>1, <2>1, <3>2, <3>3 DEF GoesOn, goOn, outcome
    <3>5. Header(c)
      BY <2>3, <2>5 DEF Header
    <3> QED
      BY <2>1, <3>2, <3>4, <3>5 DEF Reads, c
  <2>6. CASE b # EOT /\ b \notin {SOH, STX}
    <3>1. abort(-3, <<>>)
      BY <2>2, <2>6
    <3> QED
      BY <1>1, <2>1, <3>1, AbortIs
  <2> QED
    BY <2>4, <2>5, <2>6
<1>5. CASE pktnum(c)
  <2>1. d.state \in {"PKTNUM_1", "PKTNUM_2"} /\ UNCHANGED <<bd, flash>>
    BY <1>5 DEF pktnum
  <2>2. \/ abort(-4, <<>>)
        \/ /\ d.state = "PKTNUM_1" /\ c = Num(d.pktnum)
           /\ goOn([fresh EXCEPT !.state = "PKTNUM_2"]) /\ up' = up
        \/ /\ d.state = "PKTNUM_2"
           /\ goOn([fresh EXCEPT !.state = "DATA", !.data = <<>>]) /\ up' = up
    BY <1>5 DEF pktnum
  <2>3. CASE abort(-4, <<>>)
    BY <1>1, <2>1, <2>3, AbortIs
  <2>4. CASE /\ d.state = "PKTNUM_1" /\ c = Num(d.pktnum)
             /\ goOn([fresh EXCEPT !.state = "PKTNUM_2"]) /\ up' = up
    <3>1. GoesOn("PKTNUM_2")
      BY <1>1, <1>b, <2>1, <2>4 DEF GoesOn, goOn, outcome
    <3> QED
      BY <2>4, <3>1 DEF Reads, c
  <2>5. CASE /\ d.state = "PKTNUM_2"
             /\ goOn([fresh EXCEPT !.state = "DATA", !.data = <<>>]) /\ up' = up
    <3>0. d' \in ReceiverState /\ d'.state = "DATA" /\ d'.pktnum = d.pktnum
      BY <1>c, <1>d, <2>5 DEF goOn
    <3>1. GoesOn("DATA")
      BY <1>1, <2>1, <2>5, <3>0 DEF GoesOn, goOn, outcome
    <3> QED
      BY <2>5, <3>1 DEF Reads
  <2> QED
    BY <2>2, <2>3, <2>4, <2>5
<1>6. CASE data(c)
  <2> DEFINE all == Append(d.data, c)
  <2>1. d.state = "DATA" /\ d.data \in Seq(Byte) /\ all \in Seq(Byte) /\ Front(all) = d.data
    BY <1>1, <1>2, <1>6, FrontOfAppend DEF data, ReceiverState
  <2>2. \/ goOn([fresh EXCEPT !.data = all]) /\ UNCHANGED <<up, bd, flash>>
        \/ /\ c = crc(Front(all)) /\ xmodem_block(Front(all)) /\ putc(<<ACK>>)
           /\ goOn([fresh EXCEPT !.state = "START", !.data = <<>>, !.pktnum = (@ + 1) % Mod])
        \/ abort(-5, <<>>) /\ UNCHANGED <<bd, flash>>
    BY <1>6 DEF data
  <2> HIDE DEF all
  <2>3. CASE goOn([fresh EXCEPT !.data = all]) /\ UNCHANGED <<up, bd, flash>>
    <3>1. LET f == [fresh EXCEPT !.data = all]
          IN  f \in ReceiverState /\ f.state = "DATA" /\ f.pktnum = d.pktnum
      BY <1>3, <2>1 DEF ReceiverState
    <3>2. GoesOn("DATA")
      BY <1>1, <2>3, <3>1 DEF GoesOn, goOn, outcome
    <3> QED
      BY <2>1, <2>3, <3>2 DEF Reads
  <2>4. CASE /\ c = crc(Front(all)) /\ xmodem_block(Front(all)) /\ putc(<<ACK>>)
             /\ goOn([fresh EXCEPT !.state = "START", !.data = <<>>, !.pktnum = (@ + 1) % Mod])
    <3>0. (d.pktnum + 1) % Mod \in Nat
      BY <1>2, Parameters DEF ReceiverState
    <3>1. LET f == [fresh EXCEPT !.state = "START", !.data = <<>>, !.pktnum = (@ + 1) % Mod]
          IN  f \in ReceiverState /\ f.state = "START" /\ f.pktnum = (d.pktnum + 1) % Mod
      BY <1>3, <1>d, <3>0 DEF ReceiverState
    <3>2. err' = 1 /\ loop' = "transfer"
      BY <1>1, <2>4 DEF goOn, outcome
    <3>3. d' \in ReceiverState /\ d'.state = "START" /\ d'.pktnum = (d.pktnum + 1) % Mod
      BY <2>4, <3>1 DEF goOn
    <3>4. c = crc(d.data) /\ xmodem_block(d.data) /\ up' = up \o <<ACK>>
      BY <2>1, <2>4 DEF putc
    <3> QED
      BY <2>1, <3>2, <3>3, <3>4 DEF Accepts, c
  <2>5. CASE abort(-5, <<>>) /\ UNCHANGED <<bd, flash>>
    BY <1>1, <2>5, AbortIs
  <2> QED
    BY <2>2, <2>3, <2>4, <2>5
<1> QED
  BY <1>1, <1>4, <1>5, <1>6 DEF xmodem_byte

(* and a second of silence gives up, or asks again.                        *)
LEMMA SilenceCases ==
  ASSUME LineTypeOK, xmodem_silence, outcome
  PROVE  \/ GoesOn(d.state) /\ (up' = up \/ up' = up \o <<C>>)
         \/ d.state # "INIT" /\ GoesOn("START") /\ up' = up \o <<NAK>>
         \/ (d.state = "INIT" \/ ~small) /\ Aborts
<1>1. xmodem_silence /\ outcome /\ UNCHANGED <<bd, flash>>
  BY DEF xmodem_silence
<1>2. d \in ReceiverState
  BY DEF LineTypeOK
<1>3. \/ goOn(d) /\ up' = up
      \/ goOn([d EXCEPT !.timeout = @ - 1]) /\ up' = up
      \/ silenceInit
      \/ d.state # "INIT" /\ ~small /\ abort(-6, <<>>)
      \/ d.state # "INIT" /\ askAgain
  BY <1>1 DEF xmodem_silence
<1>4. CASE goOn(d) /\ up' = up
  BY <1>1, <1>2, <1>4 DEF GoesOn, goOn, outcome
<1>5. CASE goOn([d EXCEPT !.timeout = @ - 1]) /\ up' = up
  <2>0. d.timeout - 1 \in Int
    BY <1>2 DEF ReceiverState
  <2>1. LET f == [d EXCEPT !.timeout = @ - 1]
        IN  f \in ReceiverState /\ f.state = d.state /\ f.pktnum = d.pktnum
    BY <1>2, <2>0 DEF ReceiverState
  <2> QED
    BY <1>1, <1>5, <2>1 DEF GoesOn, goOn, outcome
<1>6. CASE silenceInit
  <2>1. /\ d.state = "INIT"
        /\ \/ abort(-2, <<>>)
           \/ ~small /\ abort(-2, <<C>>)
           \/ /\ goOn([d EXCEPT !.timeout = XMODEM_INIT_TIMEOUT, !.retries = @ - 1])
              /\ putc(<<C>>)
    BY <1>6 DEF silenceInit
  <2>2. CASE abort(-2, <<>>) \/ (~small /\ abort(-2, <<C>>))
    <3>1. Aborts
      BY <1>1, <2>2, AbortIs
    <3> QED
      BY <2>1, <3>1
  <2>3. CASE /\ goOn([d EXCEPT !.timeout = XMODEM_INIT_TIMEOUT, !.retries = @ - 1])
             /\ putc(<<C>>)
    <3>0. d.retries - 1 \in Int /\ XMODEM_INIT_TIMEOUT \in Int
      BY <1>2 DEF ReceiverState, XMODEM_INIT_TIMEOUT
    <3>1. LET f == [d EXCEPT !.timeout = XMODEM_INIT_TIMEOUT, !.retries = @ - 1]
          IN  f \in ReceiverState /\ f.state = d.state /\ f.pktnum = d.pktnum
      BY <1>2, <3>0 DEF ReceiverState
    <3> QED
      BY <1>1, <2>3, <3>1 DEF GoesOn, goOn, outcome, putc
  <2> QED
    BY <2>1, <2>2, <2>3
<1>7. CASE d.state # "INIT" /\ ~small /\ abort(-6, <<>>)
  BY <1>1, <1>7, AbortIs
<1>8. CASE d.state # "INIT" /\ askAgain
  <2>1. PICK r \in Int :
          goOn([d EXCEPT !.state = "START", !.data = <<>>, !.timeout = 0, !.retries = r])
          /\ putc(<<NAK>>)
    <3>1. d.retries - 1 \in Int /\ 0 \in Int
      BY <1>2 DEF ReceiverState
    <3>2. CASE small
      BY <1>8, <3>1, <3>2 DEF askAgain
    <3>3. CASE ~small
      BY <1>8, <3>1, <3>3 DEF askAgain
    <3> QED
      BY <3>2, <3>3
  <2>2. LET f == [d EXCEPT !.state = "START", !.data = <<>>, !.timeout = 0, !.retries = r]
        IN  f \in ReceiverState /\ f.state = "START" /\ f.pktnum = d.pktnum
    <3>1. <<>> \in Seq(Byte) /\ 0 \in Int
      OBVIOUS
    <3>2. [d EXCEPT !.state = "START", !.data = <<>>] \in ReceiverState
      BY <1>2, <3>1 DEF ReceiverState
    <3> QED
      BY <1>2, <3>1 DEF ReceiverState
  <2> QED
    BY <1>1, <1>8, <2>1, <2>2 DEF GoesOn, goOn, outcome, putc
<1> QED
  BY <1>3, <1>4, <1>5, <1>6, <1>7, <1>8

-----------------------------------------------------------------------------
(* What a step of the sender can do.                                       *)

SendsEnd(n) ==
  /\ n > Len(blocks)
  /\ snd' = [snd EXCEPT !.next = n, !.size = 0, !.phase = "waits"]
  /\ snd' \in SenderState
  /\ snd'.img = snd.img /\ snd'.next = n /\ snd'.phase = "waits"
  /\ down' = down \o <<EOT>>

(* Packet number m from block n on.                                        *)
SendsPacket(n, m) ==
  /\ n <= Len(blocks)
  /\ snd' \in SenderState
  /\ snd'.img = snd.img /\ snd'.next = n /\ snd'.num = m /\ snd'.phase = "waits"
  /\ snd'.size \in Sizes(snd')
  /\ down' = down \o LastPacket(snd')

Sends(n, m) == SendsEnd(n) \/ SendsPacket(n, m)

(* send does nothing else.                                                 *)
LEMMA SendCases ==
  ASSUME snd \in SenderState, NEW n \in Nat \ {0}, NEW m \in Nat, send(n, m)
  PROVE  Sends(n, m)
<1>1. CASE n > Len(blocks)
  <2>1. /\ snd' = [snd EXCEPT !.next = n, !.size = 0, !.phase = "waits"]
        /\ down' = down \o <<EOT>>
    BY <1>1 DEF send
  <2>2. /\ snd' \in SenderState /\ snd'.img = snd.img /\ snd'.next = n
        /\ snd'.phase = "waits"
    BY <2>1 DEF SenderState
  <2> QED
    BY <1>1, <2>1, <2>2 DEF Sends, SendsEnd
<1>2. CASE ~(n > Len(blocks))
  <2>1. PICK size \in {1, 2} :
          /\ n + size - 1 <= Len(blocks)
          /\ down' = down \o packet(m, [i \in 1..size |-> Data(blocks[n + i - 1])])
          /\ snd' = [snd EXCEPT !.next = n, !.num = m, !.size = size, !.phase = "waits"]
    BY <1>2 DEF send
  <2>2. /\ snd' \in SenderState /\ snd'.img = snd.img /\ snd'.next = n
        /\ snd'.num = m /\ snd'.size = size /\ snd'.phase = "waits"
    <3>1. [snd EXCEPT !.next = n, !.num = m] \in SenderState
      BY DEF SenderState
    <3>2. size \in {0, 1, 2}
      OBVIOUS
    <3> QED
      BY <2>1, <3>1, <3>2 DEF SenderState
  <2>3. snd'.size \in Sizes(snd')
    BY <2>1, <2>2 DEF Sizes, blocks
  <2>4. Content(snd', snd'.size) = [i \in 1..size |-> Data(blocks[n + i - 1])]
    BY <2>2 DEF Content, blocks
  <2>5. down' = down \o LastPacket(snd')
    BY <2>1, <2>2, <2>4 DEF LastPacket
  <2>6. n <= Len(blocks)
    <3>1. Len(blocks) \in Nat
      BY Parameters DEF SenderState, blocks
    <3> QED
      BY <1>2, <3>1
  <2> QED
    BY <2>2, <2>3, <2>5, <2>6 DEF Sends, SendsPacket
<1> QED
  BY <1>1, <1>2

LEMMA SendType ==
  ASSUME LineTypeOK, NEW n \in Nat \ {0}, NEW m \in Nat, Sends(n, m)
  PROVE  snd' \in SenderState /\ down' \in Seq(Byte)
<1>1. CASE SendsEnd(n)
  <2>1. EOT \in Byte
    BY DEF Byte, EOT
  <2> QED
    BY <1>1, <2>1, OneIs, ConcatIs DEF SendsEnd, LineTypeOK
<1>2. CASE SendsPacket(n, m)
  <2>1. snd' \in SenderState /\ snd'.size \in Sizes(snd') /\ down' = down \o LastPacket(snd')
    BY <1>2 DEF SendsPacket
  <2>2. LastPacket(snd') \in Seq(Byte)
    BY <2>1, LastPacketIs
  <2> QED
    BY <2>1, <2>2, ConcatIs DEF LineTypeOK
<1> QED
  BY <1>1, <1>2 DEF Sends

(* What an answer does.                                                    *)
LEMMA SenderReadsCases ==
  ASSUME LineTypeOK, SenderReads
  PROVE  \/ snd.phase = "starts" /\ Head(up) = C /\ Sends(1, 1)
         \/ /\ snd.phase = "waits" /\ Head(up) = ACK /\ snd.next > Len(blocks)
            /\ snd' = [snd EXCEPT !.phase = "done"] /\ down' = down
         \/ /\ snd.phase = "waits" /\ Head(up) = ACK /\ snd.next <= Len(blocks)
            /\ Sends(snd.next + snd.size, snd.num + 1)
         \/ snd.phase = "waits" /\ Head(up) = NAK /\ Sends(snd.next, snd.num)
         \/ /\ snd.phase \in {"starts", "waits"} /\ Head(up) = CAN
            /\ snd' = [snd EXCEPT !.phase = "stopped"] /\ down' = down
         \/ /\ snd' = snd /\ down' = down
            /\ snd.phase = "waits" => Head(up) # ACK
            /\ snd.phase \in {"starts", "waits"} => Head(up) # CAN
<1> DEFINE c == Head(up)
<1>1. /\ snd \in SenderState /\ snd.next \in Nat \ {0} /\ snd.num \in Nat /\ snd.size \in Nat
      /\ snd.next + snd.size \in Nat \ {0} /\ snd.num + 1 \in Nat
  BY DEF LineTypeOK, SenderState
<1>2. CASE snd.phase \notin {"starts", "waits"}
  BY <1>2 DEF SenderReads, unsent
<1>3. CASE snd.phase \in {"starts", "waits"}
  <2>1. Reply(c)
    BY <1>3 DEF SenderReads
  <2> HIDE DEF c
  <2>2. CASE c = C /\ snd.phase = "starts"
    <3>1. send(1, 1)
      BY <2>1, <2>2, Parameters DEF Reply
    <3>2. Sends(1, 1)
      BY <1>1, <3>1, SendCases
    <3> QED
      BY <2>2, <3>2 DEF c
  <2>3. CASE c = ACK /\ snd.phase = "waits"
    <3>1. IF snd.next > Len(blocks) THEN snd' = [snd EXCEPT !.phase = "done"] /\ unsent
          ELSE send(snd.next + snd.size, snd.num + 1)
      BY <2>1, <2>3, Parameters DEF Reply
    <3>2. CASE snd.next > Len(blocks)
      BY <2>3, <3>1, <3>2 DEF unsent, c
    <3>3. CASE ~(snd.next > Len(blocks))
      <4>1. Sends(snd.next + snd.size, snd.num + 1)
        BY <1>1, <3>1, <3>3, SendCases
      <4>2. snd.next <= Len(blocks)
        <5>1. Len(blocks) \in Nat
          BY Parameters DEF LineTypeOK, SenderState, blocks
        <5> QED
          BY <1>1, <3>3, <5>1
      <4> QED
        BY <2>3, <4>1, <4>2 DEF c
    <3> QED
      BY <3>2, <3>3
  <2>4. CASE c = NAK /\ snd.phase = "waits"
    <3>1. send(snd.next, snd.num)
      BY <2>1, <2>4, Parameters DEF Reply
    <3>2. Sends(snd.next, snd.num)
      BY <1>1, <3>1, SendCases
    <3> QED
      BY <2>4, <3>2 DEF c
  <2>5. CASE c = CAN
    <3>1. snd' = [snd EXCEPT !.phase = "stopped"] /\ unsent
      BY <2>1, <2>5, Parameters DEF Reply
    <3> QED
      BY <1>3, <2>5, <3>1 DEF unsent, c
  <2>6. CASE /\ ~(c = C /\ snd.phase = "starts") /\ ~(c = ACK /\ snd.phase = "waits")
             /\ ~(c = NAK /\ snd.phase = "waits") /\ c # CAN
    <3>1. unsent /\ UNCHANGED snd
      BY <2>1, <2>6 DEF Reply
    <3> QED
      BY <2>6, <3>1 DEF unsent, c
  <2> QED
    BY <2>2, <2>3, <2>4, <2>5, <2>6
<1> QED
  BY <1>2, <1>3

-----------------------------------------------------------------------------
(* Types.                                                                  *)

AnyStep ==
  \/ Start \/ Receive \/ Silence \/ ShellInput \/ SenderReads \/ SenderResends
  \/ SendImage \/ Stall \/ LoseByte \/ LoseAnswer \/ GarbleByte \/ UNCHANGED vars

LEMMA Steps == ASSUME [PNext]_vars PROVE AnyStep
BY DEF PNext, Loader, Sender, AnyStep

LEMMA AnswersPut ==
  ASSUME NEW q \in Seq(Answer), NEW x \in Answer
  PROVE  q \o <<x>> \in Seq(Answer)
BY OneIs, ConcatIs

LEMMA StopsPut ==
  ASSUME NEW q \in Seq(Answer), NEW w \in {<<>>, <<C>>}
  PROVE  /\ q \o Append(w, CAN) \in Seq(Answer)
         /\ Append(w, CAN) \in Seq(Answer) /\ Append(w, CAN) # <<>>
         /\ LastIs(q \o Append(w, CAN), CAN) /\ ~Has(Append(w, CAN), ACK)
<1> DEFINE v == Append(w, CAN)
<1>1. C \in Answer /\ CAN \in Answer
  BY DEF Answer
<1>2. w \in Seq(Answer) /\ Len(w) \in Nat /\ (w = <<>> \/ (Len(w) = 1 /\ w[1] = C))
  <2>1. <<>> \in Seq(Answer) /\ Len(<<>>) \in Nat
    OBVIOUS
  <2>2. <<C>> \in Seq(Answer) /\ Len(<<C>>) = 1 /\ <<C>>[1] = C
    BY <1>1
  <2> QED
    BY <2>1, <2>2
<1>3. /\ v \in Seq(Answer) /\ Len(v) = Len(w) + 1 /\ v[Len(w) + 1] = CAN
      /\ \A i \in 1..Len(w) : v[i] = w[i]
  BY <1>1, <1>2
<1> HIDE DEF v
<1>4. v # <<>> /\ v[Len(v)] = CAN
  <2>1. Len(v) # 0
    BY <1>2, <1>3
  <2> QED
    BY <1>3, <2>1
<1>5. ~Has(v, ACK)
  <2> SUFFICES ASSUME NEW j \in 1..Len(v), v[j] = ACK PROVE FALSE
    BY DEF Has
  <2>1. CASE j = Len(w) + 1
    BY <1>3, <2>1, Parameters
  <2>2. CASE j # Len(w) + 1
    <3>1. j \in 1..Len(w) /\ v[j] = w[j]
      BY <1>2, <1>3, <2>2
    <3>2. w[j] = C
      <4>1. w # <<>>
        BY <3>1
      <4> QED
        BY <1>2, <3>1, <4>1
    <3> QED
      BY <3>1, <3>2, Parameters
  <2> QED
    BY <2>1, <2>2
<1>6. q \o v \in Seq(Answer) /\ LastIs(q \o v, CAN)
  <2>1. q \o v \in Seq(Answer)
    BY <1>3, ConcatIs
  <2>2. q \o v # <<>> /\ (q \o v)[Len(q \o v)] = v[Len(v)]
    BY <1>3, <1>4, LastConcat
  <2> QED
    BY <1>4, <2>1, <2>2 DEF LastIs
<1> QED
  BY <1>3, <1>4, <1>5, <1>6 DEF v

LEMMA AbortsType == ASSUME LineTypeOK, small' = small, Aborts
                    PROVE  /\ loop' \in {"shell", "booted"} /\ d' \in ReceiverState /\ bd' \in Nat
                           /\ up' \in Seq(Answer)
<1>1. loop' \in {"shell", "booted"} /\ d' \in ReceiverState /\ bd' \in Nat
  BY DEF Aborts, LineTypeOK
<1>2. up' \in Seq(Answer)
  <2>1. CASE small
    BY <2>1 DEF Aborts, LineTypeOK
  <2>2. CASE ~small
    <3>1. PICK w \in {<<>>, <<C>>} : up' = up \o Append(w, CAN)
      BY <2>2 DEF Aborts
    <3> QED
      BY <3>1, StopsPut DEF LineTypeOK
  <2> QED
    BY <2>1, <2>2
<1> QED
  BY <1>1, <1>2

LEMMA InitType == PInit => LineTypeOK
<1> SUFFICES ASSUME PInit PROVE LineTypeOK
  OBVIOUS
<1>1. <<>> \in Seq(Byte) /\ <<>> \in Seq(Answer) /\ 0 \in Int /\ 0 \in Nat /\ 1 \in Nat
  OBVIOUS
<1>2. d \in ReceiverState
  BY <1>1 DEF PInit, Init, ReceiverState
<1>3. snd \in SenderState
  <2>1. 1 \in DOMAIN Image
    BY Parameters
  <2> QED
    BY <1>1, <2>1 DEF PInit, SenderState
<1> QED
  BY <1>1, <1>2, <1>3 DEF PInit, Init, LineTypeOK

LEMMA StepType == ASSUME LineTypeOK, AnyStep PROVE LineTypeOK'
<1> USE DEF Answer
<1>0. /\ small \in BOOLEAN /\ loop \in {"shell", "transfer", "booted"}
      /\ d \in ReceiverState /\ bd \in Nat
      /\ up \in Seq(Answer) /\ down \in Seq(Byte) /\ snd \in SenderState
      /\ mistaken \in BOOLEAN
  BY DEF LineTypeOK
<1>a. \A x \in Answer : up \o <<x>> \in Seq(Answer)
  BY <1>0, AnswersPut
<1>b. down # <<>> => Tail(down) \in Seq(Byte)
  BY <1>0, TailIs
<1>1. CASE Start
  <2>1. /\ xmodem_start /\ bd' = 0 /\ loop' = "transfer" /\ small' = small
        /\ down' = down /\ snd' = snd /\ mistaken' = mistaken
    BY <1>1 DEF Start, sender
  <2>2. d' \in ReceiverState
    <3>1. <<>> \in Seq(Byte) /\ 0 \in Int /\ 2 \in Int /\ Retries \in Int /\ 1 \in Nat
      BY XmodemAssumption DEF XmodemAssumption
    <3>2. d.pktlen \in Nat
      BY <1>0 DEF ReceiverState
    <3>3. CASE small
      BY <2>1, <3>1, <3>2, <3>3 DEF xmodem_start, ReceiverState
    <3>4. CASE ~small
      BY <2>1, <3>1, <3>2, <3>4 DEF xmodem_start, ReceiverState, XMODEM_INIT_TIMEOUT
    <3> QED
      BY <3>3, <3>4
  <2>3. up' \in Seq(Answer)
    BY <1>a, <2>1 DEF xmodem_start, putc
  <2> QED
    BY <1>0, <2>1, <2>2, <2>3 DEF LineTypeOK
<1>2. CASE Receive
  <2>1. /\ small' = small /\ snd' = snd /\ down' \in Seq(Byte) /\ mistaken' \in BOOLEAN
    BY <1>0, <1>2, <1>b DEF Receive
  <2>2. CASE SeesEnd \/ Mistakes
    <3>1. loop' \in {"booted", "shell"} /\ d' = d /\ bd' = bd /\ up' \in Seq(Answer)
      BY <2>2, <1>a DEF SeesEnd, Mistakes
    <3> QED
      BY <1>0, <2>1, <3>1 DEF LineTypeOK
  <2>3. ASSUME NEW s, NEW t, Reads(s, t) PROVE LineTypeOK'
    BY <1>0, <2>1, <2>3 DEF Reads, GoesOn, LineTypeOK
  <2>4. CASE Accepts
    <3>1. bd' = bd + Len(d.data) /\ d.data \in Seq(Byte)
      BY <1>0, <2>4 DEF Accepts, xmodem_block, ReceiverState
    <3>2. bd' \in Nat
      BY <1>0, <3>1
    <3>3. loop' = "transfer" /\ d' \in ReceiverState /\ up' \in Seq(Answer)
      BY <2>4, <1>a DEF Accepts
    <3> QED
      BY <1>0, <2>1, <3>2, <3>3 DEF LineTypeOK
  <2>5. CASE Aborts
    <3>1. /\ loop' \in {"shell", "booted"} /\ d' \in ReceiverState /\ bd' \in Nat
          /\ up' \in Seq(Answer)
      BY <2>1, <2>5, AbortsType
    <3> QED
      BY <1>0, <2>1, <3>1 DEF LineTypeOK
  <2> QED
    BY <1>2, <2>2, <2>3, <2>4, <2>5, ReceiveCases
<1>3. CASE Silence \/ Stall
  <2>0. xmodem_silence /\ outcome
    BY <1>3 DEF Silence, Stall
  <2>1. /\ small' = small /\ snd' = snd /\ down' = down /\ mistaken' = mistaken
    BY <1>3 DEF Silence, Stall, sender
  <2>2. ASSUME NEW s, GoesOn(s), up' \in Seq(Answer) PROVE LineTypeOK'
    BY <1>0, <2>1, <2>2 DEF GoesOn, LineTypeOK
  <2>3. CASE Aborts
    <3>1. /\ loop' \in {"shell", "booted"} /\ d' \in ReceiverState /\ bd' \in Nat
          /\ up' \in Seq(Answer)
      BY <2>1, <2>3, AbortsType
    <3> QED
      BY <1>0, <2>1, <3>1 DEF LineTypeOK
  <2>4. up' = up \/ up' = up \o <<C>> \/ up' = up \o <<NAK>> \/ Aborts
    BY <2>0, SilenceCases
  <2>5. Aborts \/ up' \in Seq(Answer)
    BY <1>0, <1>a, <2>4
  <2> QED
    BY <2>0, <2>2, <2>3, <2>5, SilenceCases
<1>4. CASE ShellInput
  BY <1>0, <1>4, <1>b DEF ShellInput, receiver, LineTypeOK
<1>5. CASE SenderReads
  <2>1. /\ small' = small /\ loop' = loop /\ d' = d /\ bd' = bd /\ up' \in Seq(Answer)
        /\ mistaken' = mistaken
    BY <1>0, <1>5, TailIs DEF SenderReads
  <2>2. snd' \in SenderState /\ down' \in Seq(Byte)
    <3>1. /\ snd.next \in Nat \ {0} /\ snd.num \in Nat /\ snd.size \in Nat
          /\ snd.next + snd.size \in Nat \ {0} /\ snd.num + 1 \in Nat
      BY <1>0 DEF SenderState
    <3>2. ASSUME NEW n \in Nat \ {0}, NEW m \in Nat, Sends(n, m)
          PROVE  snd' \in SenderState /\ down' \in Seq(Byte)
      BY <3>2, SendType
    <3>3. ASSUME NEW p \in {"done", "stopped"}, snd' = [snd EXCEPT !.phase = p], down' = down
          PROVE  snd' \in SenderState /\ down' \in Seq(Byte)
      BY <1>0, <3>3 DEF SenderState
    <3>4. \/ Sends(1, 1) \/ Sends(snd.next + snd.size, snd.num + 1) \/ Sends(snd.next, snd.num)
          \/ \E p \in {"done", "stopped"} : snd' = [snd EXCEPT !.phase = p] /\ down' = down
          \/ snd' = snd /\ down' = down
      BY <1>5, SenderReadsCases
    <3>5. CASE Sends(1, 1)
      BY <3>2, <3>5
    <3>6. CASE Sends(snd.next + snd.size, snd.num + 1)
      BY <3>1, <3>2, <3>6
    <3>7. CASE Sends(snd.next, snd.num)
      BY <3>1, <3>2, <3>7
    <3> QED
      BY <1>0, <3>3, <3>4, <3>5, <3>6, <3>7
  <2> QED
    BY <1>0, <2>1, <2>2 DEF LineTypeOK
<1>6. CASE SenderResends
  <2>1. Sends(snd.next, snd.num) /\ snd.next \in Nat \ {0} /\ snd.num \in Nat
    BY <1>0, <1>6, SendCases DEF SenderResends, SenderState
  <2>2. snd' \in SenderState /\ down' \in Seq(Byte)
    BY <2>1, SendType
  <2> QED
    BY <1>0, <1>6, <2>2 DEF SenderResends, receiver, LineTypeOK
<1>7. CASE SendImage
  <2>1. PICK i \in DOMAIN Image :
          snd' = [img |-> i, next |-> 1, num |-> 1, size |-> 0, phase |-> "starts"]
    BY <1>7 DEF SendImage
  <2>2. snd' \in SenderState
    BY <2>1 DEF SenderState
  <2> QED
    BY <1>0, <1>7, <2>2 DEF SendImage, receiver, unsent, LineTypeOK
<1>8. CASE LoseByte
  BY <1>0, <1>8, <1>b DEF LoseByte, receiver, LineTypeOK
<1>9. CASE LoseAnswer
  <2>1. up' \in Seq(Answer)
    BY <1>0, <1>9, TailIs DEF LoseAnswer
  <2> QED
    BY <1>0, <1>9, <2>1 DEF LoseAnswer, LineTypeOK
<1>10. CASE GarbleByte
  <2>1. down' \in Seq(Byte)
    BY <1>0, <1>10, GarbledIs DEF GarbleByte
  <2> QED
    BY <1>0, <1>10, <2>1 DEF GarbleByte, receiver, LineTypeOK
<1>11. CASE UNCHANGED vars
  BY <1>0, <1>11 DEF vars, receiver, LineTypeOK
<1> QED
  BY <1>1, <1>2, <1>3, <1>4, <1>5, <1>6, <1>7, <1>8, <1>9, <1>10, <1>11 DEF AnyStep

-----------------------------------------------------------------------------
(* The invariant.                                                          *)

Waits == snd.phase = "waits"

(* Nothing was sent in this transfer.                                      *)
Idle ==
  /\ snd.phase \in {"off", "starts", "stopped"}
  /\ bd = 0 /\ d.pktnum = 1 /\ d.state = "INIT" /\ down = <<>> /\ ~Has(up, ACK)

(* A small loader looks for a first header anywhere, the others look where *)
(* a packet should start.                                                  *)
AtStart == d.state = "START" \/ (d.state = "INIT" /\ ~small)

(* The receiver expects the packet that the sender sent last.              *)
Expecting ==
  /\ Waits /\ snd.next <= Len(blocks) /\ bd + 1 = snd.next
  /\ d.pktnum = snd.num % Mod
  /\ Current(down, snd) /\ ~Has(up, ACK)
  /\ d.state = "INIT" => bd = 0
  /\ bd = 0 => snd.num = 1 /\ ~Has(down, EOT)
  /\ AtStart /\ down # <<>> => down[1] \in Heads
  /\ bd > 0 => Holds(flash, snd.img, bd)

(* It has accepted it, and the sender does not know.                       *)
Acknowledged ==
  /\ Waits /\ snd.next <= Len(blocks) /\ bd + 1 = snd.next + snd.size
  /\ d.pktnum = (snd.num + 1) % Mod
  /\ d.state = "START" /\ down = <<>>
  /\ Holds(flash, snd.img, bd)

(* It has all, and the sender says so.                                     *)
Ending ==
  /\ Waits /\ snd.next > Len(blocks) /\ bd = Len(blocks)
  /\ d.state = "START" /\ ~Has(up, ACK)
  /\ \A j \in 1..Len(down) : down[j] \in {EOT, garbled}
  /\ Holds(flash, snd.img, bd)

(* It is about to find a packet of another number, or no packet.           *)
Failing ==
  /\ Waits /\ bd \in 1..Len(blocks) /\ Holds(flash, snd.img, bd)
  /\ Has(up, ACK) => snd.next <= Len(blocks)
  /\ \/ d.state = "START" /\ Len(down) >= 2 /\ down[1] \in Heads /\ down[2] # Num(d.pktnum)
     \/ d.state = "PKTNUM_1" /\ down # <<>> /\ down[1] # Num(d.pktnum)

Transfer == Idle \/ Expecting \/ Acknowledged \/ Ending \/ Failing

(* Between transfers the sender hears that the last one is over; small     *)
(* versions start again at once, where the sender may still be at its      *)
(* first packet.                                                           *)
ShellSmall ==
  /\ bd = 0 /\ ~Has(up, ACK)
  /\ snd.phase \in {"off", "starts", "waits"}
  /\ ~Waits => down = <<>>
  /\ Waits => snd.next = 1 /\ snd.num = 1 /\ Current(down, snd) /\ ~Has(down, EOT)

ShellLarge == LastIs(up, CAN) \/ (up = <<>> /\ ~Waits)

(* An image was acknowledged to the end.                                   *)
Complete == loop = "booted" /\ Holds(flash, snd.img, Len(blocks))

(* The inductive invariant. Each transfer of the receiver is in one of the *)
(* five states, and what the sender takes for acknowledged was             *)
(* acknowledged once: no second ACK is under way that a later packet could *)
(* be acknowledged by.                                                     *)
LineInv ==
  /\ OneImage
  /\ err = 0 => loop = "booted" /\ Whole(flash)
  /\ snd.phase = "done" => Complete
  /\ Has(up, ACK) /\ Waits /\ snd.next > Len(blocks) => Complete
  /\ Once(up, ACK)
  /\ Waits /\ snd.next <= Len(blocks) => snd.size \in Sizes(snd)
  /\ small => ~Has(up, CAN) /\ snd.phase # "stopped"
  /\ small /\ bd = 0 => \A b \in 1..Blocks : flash[b] = Erased
  /\ loop = "transfer" => Transfer /\ ~Has(up, CAN)
  /\ loop = "shell" => IF small THEN ShellSmall ELSE ShellLarge

-----------------------------------------------------------------------------
(* The answers on their way.                                               *)

(* No acknowledgement and no end is new in r.                              *)
Quiet(q, r) ==
  /\ Has(r, ACK) => Has(q, ACK)
  /\ Has(r, CAN) => Has(q, CAN)
  /\ Once(q, ACK) => Once(r, ACK)

(* Reading and losing an answer are quiet, and so is asking.               *)
LEMMA QuietTail ==
  ASSUME NEW q \in Seq(Answer), q # <<>>
  PROVE  Quiet(q, Tail(q))
BY HasTail, OnceTail DEF Quiet

LEMMA QuietPut ==
  ASSUME NEW q \in Seq(Answer), NEW x \in {C, NAK}
  PROVE  Quiet(q, q \o <<x>>)
<1>1. <<x>> \in Seq(Answer)
  BY DEF Answer
<1>2. ~Has(<<x>>, ACK) /\ ~Has(<<x>>, CAN)
  BY HasOne, Parameters
<1>3. ASSUME NEW y, Has(q \o <<x>>, y), ~Has(<<x>>, y) PROVE Has(q, y)
  BY <1>1, <1>3, HasConcat
<1>4. Once(q, ACK) => Once(q \o <<x>>, ACK)
  BY <1>1, <1>2, OnceConcat
<1> QED
  BY <1>2, <1>3, <1>4 DEF Quiet

LEMMA QuietSame == ASSUME NEW q PROVE Quiet(q, q)
BY DEF Quiet

LEMMA AnswersQuiet ==
  ASSUME LineTypeOK, up' = up \/ up' = up \o <<C>> \/ up' = up \o <<NAK>>
  PROVE  Quiet(up, up')
BY QuietSame, QuietPut DEF LineTypeOK

-----------------------------------------------------------------------------
(* The flash.                                                              *)

LEMMA SenderParts ==
  ASSUME LineTypeOK
  PROVE  /\ snd \in SenderState /\ snd.img \in DOMAIN Image /\ blocks = Image[snd.img]
         /\ Len(blocks) \in Nat /\ Len(blocks) \in 1..Blocks /\ Blocks \in Nat
         /\ snd.next \in Nat \ {0} /\ snd.num \in Nat /\ snd.size \in {0, 1, 2}
         /\ bd \in Nat /\ d.pktnum \in Nat
         /\ blocks[1] # Erased
BY Parameters DEF LineTypeOK, SenderState, blocks, ReceiverState

(* A flash with the first block of an image boots.                         *)
LEMMA HoldsBoots ==
  ASSUME LineTypeOK, bd > 0, Holds(flash, snd.img, bd)
  PROVE  bootable(flash)
<1>1. 1 \in 1..Blocks /\ 1 <= bd /\ Image[snd.img][1] # Erased
  BY SenderParts
<1>2. flash[1] = Image[snd.img][1]
  BY <1>1 DEF Holds
<1> QED
  BY <1>1, <1>2 DEF bootable

(* In a transfer something was programmed, or the flash is as it was.      *)
LEMMA TransferBoots ==
  ASSUME LineTypeOK, Transfer, bd > 0
  PROVE  bootable(flash)
<1>1. bd # 0 /\ bd \in Nat
  BY SenderParts
<1>2. Holds(flash, snd.img, bd)
  BY <1>1 DEF Transfer, Idle, Expecting, Acknowledged, Ending, Failing
<1> QED
  BY <1>2, HoldsBoots

-----------------------------------------------------------------------------
(* Steps that leave the flash alone.                                       *)

LEMMA KeepsTransfer ==
  ASSUME LineTypeOK, LineInv, loop = "transfer", loop' = "transfer", err' # 0,
         UNCHANGED <<small, snd, flash, bd>>, Quiet(up, up'), Transfer'
  PROVE  LineInv'
<1>1. OneImage'
  BY DEF LineInv, OneImage, Holds
<1>2. snd'.phase # "done"
  BY DEF LineInv, Complete
<1>3. ~(Has(up', ACK) /\ Waits' /\ snd'.next > Len(blocks'))
  BY DEF LineInv, Complete, Quiet, Waits, blocks
<1>4. Once(up', ACK)
  BY DEF LineInv, Quiet
<1>5. Waits' /\ snd'.next <= Len(blocks') => snd'.size \in Sizes(snd')
  BY DEF LineInv, Waits, blocks
<1>6. small' => ~Has(up', CAN) /\ snd'.phase # "stopped"
  BY DEF LineInv, Quiet
<1>7. small' /\ bd' = 0 => \A b \in 1..Blocks : flash'[b] = Erased
  BY DEF LineInv
<1>8. ~Has(up', CAN)
  BY DEF LineInv, Quiet
<1> QED
  BY <1>1, <1>2, <1>3, <1>4, <1>5, <1>6, <1>7, <1>8 DEF LineInv

(* A transfer that is given up leaves the beginning of an image.           *)
LEMMA Aborting ==
  ASSUME LineTypeOK, LineInv, loop = "transfer", Aborts, UNCHANGED <<small, snd>>,
         small /\ bd = 0 /\ ~Has(up, ACK) => ShellSmall'
  PROVE  LineInv'
<1>0. /\ up \in Seq(Answer) /\ Transfer /\ ~Has(up, CAN) /\ bd \in Nat
      /\ small \in BOOLEAN /\ small' = small /\ snd' = snd /\ flash' = flash /\ bd' = bd
      /\ err' # 0 /\ loop' = IF small /\ bootable(flash) THEN "booted" ELSE "shell"
  BY DEF LineTypeOK, LineInv, Aborts
<1>1. OneImage'
  BY <1>0 DEF LineInv, OneImage, Holds
<1>2. snd'.phase # "done"
  BY <1>0 DEF LineInv, Complete
<1>3. /\ Has(up', ACK) => Has(up, ACK)
      /\ Once(up', ACK)
      /\ small => up' = up
      /\ ~small => LastIs(up', CAN)
  <2>1. CASE small
    BY <2>1 DEF Aborts, LineInv
  <2>2. CASE ~small
    <3>1. PICK w \in {<<>>, <<C>>} : up' = up \o Append(w, CAN)
      BY <2>2 DEF Aborts
    <3>2. /\ Append(w, CAN) \in Seq(Answer) /\ ~Has(Append(w, CAN), ACK)
          /\ LastIs(up', CAN)
      BY <1>0, <3>1, StopsPut
    <3>3. Has(up', ACK) => Has(up, ACK)
      BY <1>0, <3>1, <3>2, HasConcat
    <3>4. Once(up', ACK)
      BY <1>0, <3>1, <3>2, OnceConcat DEF LineInv
    <3> QED
      BY <2>2, <3>2, <3>3, <3>4
  <2> QED
    BY <2>1, <2>2
<1>4. ~(Has(up', ACK) /\ Waits' /\ snd'.next > Len(blocks'))
  BY <1>0, <1>3 DEF LineInv, Complete, Waits, blocks
<1>5. Waits' /\ snd'.next <= Len(blocks') => snd'.size \in Sizes(snd')
  BY <1>0 DEF LineInv, Waits, blocks
<1>6. small' => ~Has(up', CAN) /\ snd'.phase # "stopped"
  BY <1>0, <1>3 DEF LineInv
<1>7. small' /\ bd' = 0 => \A b \in 1..Blocks : flash'[b] = Erased
  BY <1>0 DEF LineInv
<1>8. loop' # "transfer"
  BY <1>0
<1>9. loop' = "shell" => (small' => ShellSmall') /\ (~small' => ShellLarge')
  <2>1. ASSUME loop' = "shell", small PROVE ShellSmall'
    <3>1. ~bootable(flash)
      BY <1>0, <2>1
    <3>2. bd = 0
      BY <1>0, <3>1, TransferBoots
    <3>3. ~Has(up, ACK)
      BY <1>0, <3>2, SenderParts DEF Transfer, Idle, Expecting, Acknowledged, Ending, Failing, LineInv, Sizes
    <3> QED
      BY <2>1, <3>2, <3>3
  <2>2. ASSUME ~small PROVE ShellLarge'
    BY <1>3, <2>2 DEF ShellLarge
  <2> QED
    BY <1>0, <2>1, <2>2
<1> QED
  BY <1>0, <1>1, <1>2, <1>3, <1>4, <1>5, <1>6, <1>7, <1>8, <1>9 DEF LineInv

-----------------------------------------------------------------------------
(* The receiver reads.                                                     *)

LEMMA DownParts ==
  ASSUME LineTypeOK, down # <<>>
  PROVE  /\ Len(down) \in Nat /\ Len(down) >= 1 /\ Head(down) = down[1]
         /\ Len(Tail(down)) = Len(down) - 1 /\ Tail(down) \in Seq(Byte)
         /\ \A i \in 1..(Len(down) - 1) : Tail(down)[i] = down[i + 1]
         /\ \A x : Has(Tail(down), x) => Has(down, x)
BY TailIs, HasTail DEF LineTypeOK

(* The next byte of the packet that it expects, or any header.             *)
LEMMA ReadsExpecting ==
  ASSUME LineTypeOK, Receive, Expecting, NEW s, NEW t, Reads(s, t),
         t \in {"PKTNUM_1", "PKTNUM_2", "DATA"}
  PROVE  Expecting'
<1>1. /\ down # <<>> /\ down' = Tail(down) /\ snd' = snd
      /\ flash' = flash /\ bd' = bd /\ d'.state = t /\ d'.pktnum = d.pktnum /\ up' = up
  BY DEF Receive, Reads, GoesOn
<1>2. Current(down', snd')
  BY <1>1, CurrentTail DEF LineTypeOK, Expecting
<1>3. Has(down', EOT) => Has(down, EOT)
  BY <1>1, DownParts
<1>4. d'.state # "INIT" /\ d'.state # "START"
  BY <1>1
<1> QED
  BY <1>1, <1>2, <1>3, <1>4 DEF Expecting, AtStart, Waits, blocks, Holds

(* A packet of another number is read no further than that number.         *)
LEMMA ReadsFailing ==
  ASSUME LineTypeOK, Receive, Failing, NEW s, NEW t, Reads(s, t),
         s = "START" => t = "PKTNUM_1",
         s = "PKTNUM_1" => Head(down) = Num(d.pktnum)
  PROVE  Failing'
<1>1. /\ down # <<>> /\ down' = Tail(down) /\ snd' = snd /\ d.state = s
      /\ flash' = flash /\ bd' = bd /\ d'.state = t /\ d'.pktnum = d.pktnum /\ up' = up
  BY DEF Receive, Reads, GoesOn
<1>2. /\ Len(down) \in Nat /\ Head(down) = down[1] /\ Len(Tail(down)) = Len(down) - 1
      /\ \A i \in 1..(Len(down) - 1) : Tail(down)[i] = down[i + 1]
  BY <1>1, DownParts
<1>3. d.state = "START" /\ Len(down) >= 2 /\ down[2] # Num(d.pktnum)
  BY <1>1, <1>2 DEF Failing
<1>4. d'.state = "PKTNUM_1" /\ down'[1] # Num(d'.pktnum) /\ Len(down') # 0
  BY <1>1, <1>2, <1>3
<1>5. down' # <<>>
  BY <1>4
<1> QED
  BY <1>1, <1>4, <1>5 DEF Failing, Waits, blocks, Holds

(* A small version that gives up before anything was programmed.           *)
LEMMA GivesUpReading ==
  ASSUME LineTypeOK, LineInv, loop = "transfer", Receive, Aborts,
         small, bd = 0, ~Has(up, ACK)
  PROVE  ShellSmall'
<1>1. /\ down # <<>> /\ down' = Tail(down) /\ snd' = snd /\ bd' = bd /\ up' = up
  BY DEF Receive, Aborts
<1>2. Expecting
  <2>1. Transfer /\ ~Idle
    BY <1>1 DEF LineInv, Idle
  <2> QED
    BY <2>1, SenderParts DEF Transfer, Acknowledged, Ending, Failing, LineInv, Sizes
<1>3. Waits /\ snd.next = 1 /\ snd.num = 1 /\ ~Has(down, EOT) /\ Current(down, snd)
  BY <1>2, SenderParts DEF Expecting
<1>4. Current(down', snd') /\ ~Has(down', EOT)
  BY <1>1, <1>3, CurrentTail, DownParts DEF LineTypeOK
<1> QED
  BY <1>1, <1>3, <1>4 DEF ShellSmall, Waits

(* The end of the image.                                                   *)
LEMMA EndIsEnd ==
  ASSUME LineTypeOK, LineInv, loop = "transfer", Receive, SeesEnd
  PROVE  Ending
<1>1. /\ down # <<>> /\ Head(down) = EOT /\ d.state \in {"INIT", "START"} /\ Transfer
  BY DEF Receive, SeesEnd, LineInv
<1>2. down[1] = EOT /\ EOT \notin Heads /\ Has(down, EOT)
  BY <1>1, DownParts, HeadNotEOT, HasHead DEF LineTypeOK
<1>3. ~Idle /\ ~Acknowledged
  BY <1>1 DEF Idle, Acknowledged
<1>4. ~Expecting
  <2> SUFFICES ASSUME Expecting PROVE FALSE
    OBVIOUS
  <2>1. d.state = "START"
    BY <1>1, <1>2 DEF Expecting
  <2> QED
    BY <1>1, <1>2, <2>1 DEF Expecting, AtStart
<1>5. ~Failing
  BY <1>1, <1>2 DEF Failing
<1> QED
  BY <1>1, <1>3, <1>4, <1>5 DEF Transfer

(* A byte within a packet, where a packet should start: the loader is      *)
(* small, and starts a transfer.                                           *)
LEMMA WithinPacket ==
  ASSUME LineTypeOK, LineInv, loop = "transfer", down # <<>>,
         d.state \in {"INIT", "START"}, Head(down)[1] \in {"data", "crc"}
  PROVE  small /\ d.state = "INIT"
<1>1. down[1][1] \in {"data", "crc"} /\ 1 \in 1..Len(down) /\ Transfer
  BY DownParts DEF LineInv
<1>2. down[1] \notin Heads /\ down[1] \notin {EOT, garbled}
  BY <1>1, Kinds DEF Heads, SOH, STX, EOT
<1>3. ~Idle /\ ~Acknowledged /\ ~Ending
  BY <1>1, <1>2 DEF Idle, Acknowledged, Ending
<1>4. CASE Expecting
  BY <1>2, <1>4 DEF Expecting, AtStart
<1>5. CASE Failing
  BY <1>2, <1>5 DEF Failing
<1> QED
  BY <1>1, <1>3, <1>4, <1>5 DEF Transfer

(* The end of a transfer: the whole image is there.                        *)
LEMMA SeesEndStep ==
  ASSUME LineTypeOK, LineInv, loop = "transfer", Receive, SeesEnd
  PROVE  LineInv'
<1>1. /\ Ending /\ small' = small /\ snd' = snd /\ flash' = flash /\ bd' = bd
      /\ up' = up \o <<ACK>> /\ err' = 0 /\ up \in Seq(Answer) /\ ACK \in Answer
      /\ loop' = IF bootable(flash) THEN "booted" ELSE "shell"
  BY EndIsEnd DEF Receive, SeesEnd, LineTypeOK, Answer
<1>2. Waits /\ bd = Len(blocks) /\ Holds(flash, snd.img, Len(blocks)) /\ ~Has(up, ACK)
  BY <1>1 DEF Ending
<1>3. bootable(flash)
  <2>1. bd > 0
    BY <1>2, SenderParts
  <2> QED
    BY <1>1, <2>1, HoldsBoots DEF Ending
<1>4. Complete'
  BY <1>1, <1>2, <1>3 DEF Complete, blocks, Holds
<1>5. Whole(flash')
  <2>1. snd.img \in DOMAIN Image /\ Holds(flash', snd.img, Len(Image[snd.img]))
    BY <1>1, <1>2, SenderParts DEF Holds
  <2> QED
    BY <2>1 DEF Whole
<1>6. OneImage'
  BY <1>1 DEF LineInv, OneImage, Holds
<1>7. Once(up', ACK)
  BY <1>1, <1>2, OnceNew
<1>8. Waits' /\ snd'.next <= Len(blocks') => snd'.size \in Sizes(snd')
  BY <1>1 DEF LineInv, Waits, blocks
<1>9. small' => ~Has(up', CAN) /\ snd'.phase # "stopped"
  <2>1. Has(up', CAN) => Has(up, CAN) \/ Has(<<ACK>>, CAN)
    BY <1>1, HasConcat, OneIs
  <2>2. ~Has(<<ACK>>, CAN)
    BY HasOne, Parameters
  <2> QED
    BY <1>1, <2>1, <2>2 DEF LineInv
<1>10. small' /\ bd' = 0 => \A b \in 1..Blocks : flash'[b] = Erased
  BY <1>1 DEF LineInv
<1>11. loop' = "booted"
  BY <1>1, <1>3
<1> QED
  BY <1>4, <1>5, <1>6, <1>7, <1>8, <1>9, <1>10, <1>11 DEF LineInv

(* A quotient and a remainder are unique.                                  *)
LEMMA Remainder ==
  ASSUME NEW M \in Nat \ {0}, NEW y \in Nat, NEW q \in Int, NEW r \in Nat, r < M, y = M * q + r
  PROVE  y % M = r
<1>1. PICK s \in Nat : s = y % M /\ s < M
  OBVIOUS
<1>2. PICK p \in Int : y = M * p + s
  <2>1. y = M * (y \div M) + (y % M) /\ y \div M \in Int
    OBVIOUS
  <2> QED
    BY <1>1, <2>1
<1>3. PICK k \in Int : k = p - q
  OBVIOUS
<1>4. M * k = M * p - M * q /\ M * p \in Int /\ M * q \in Int
  BY <1>3
<1>5. M * k = r - s
  BY <1>2, <1>4
<1>6. k = 0
  <2>1. CASE k >= 1
    <3>1. M * k >= M
      BY <2>1
    <3> QED
      BY <1>1, <1>5, <3>1
  <2>2. CASE k <= -1
    <3>1. M * k <= -M
      BY <2>2
    <3> QED
      BY <1>1, <1>5, <3>1
  <2> QED
    BY <2>1, <2>2
<1>7. M * k = 0
  BY <1>6
<1> QED
  BY <1>1, <1>5, <1>7

(* The receiver counts modulo Mod, the sender does not.                    *)
LEMMA CountsOn ==
  ASSUME NEW n \in Nat
  PROVE  ((n % Mod) + 1) % Mod = (n + 1) % Mod
<1>1. PICK r \in Nat : r = n % Mod /\ r < Mod
  BY Parameters
<1>2. PICK a \in Int : n = Mod * a + r
  <2>1. n = Mod * (n \div Mod) + (n % Mod) /\ n \div Mod \in Int
    BY Parameters
  <2> QED
    BY <1>1, <2>1
<1>3. Mod \in Nat \ {0}
  BY Parameters
<1>4. CASE r + 1 < Mod
  <2>1. n + 1 = Mod * a + (r + 1)
    <3>1. Mod * a \in Int
      BY <1>3
    <3> QED
      BY <1>2, <3>1
  <2>2. (n + 1) % Mod = r + 1
    <3>1. r + 1 \in Nat /\ n + 1 \in Nat
      OBVIOUS
    <3> QED
      BY <1>2, <1>3, <1>4, <2>1, <3>1, Remainder
  <2>3. (r + 1) % Mod = r + 1
    BY <1>3, <1>4
  <2> QED
    BY <1>1, <2>2, <2>3
<1>5. CASE r + 1 = Mod
  <2>1. n + 1 = Mod * (a + 1) + 0
    <3>1. Mod * (a + 1) = Mod * a + Mod /\ Mod * a \in Int
      BY <1>3
    <3> QED
      BY <1>2, <1>5, <3>1
  <2>2. (n + 1) % Mod = 0
    <3>1. a + 1 \in Int /\ 0 < Mod /\ n + 1 \in Nat
      BY <1>3
    <3> QED
      BY <1>3, <2>1, <3>1, Remainder
  <2>3. (r + 1) % Mod = 0
    BY <1>3, <1>5
  <2> QED
    BY <1>1, <2>2, <2>3
<1> QED
  BY <1>1, <1>4, <1>5, <1>3

-----------------------------------------------------------------------------
(* A block is accepted.                                                    *)

LEMMA AcceptsExpected ==
  ASSUME LineTypeOK, LineInv, loop = "transfer", Receive, Accepts
  PROVE  /\ Expecting
         /\ \E n \in Sizes(snd) : d.data = Content(snd, n)
<1>1. down # <<>> /\ d.state = "DATA" /\ Transfer /\ Head(down) = crc(d.data)
  BY DEF Receive, Accepts, LineInv
<1>2. Expecting
  BY <1>1 DEF Transfer, Idle, Acknowledged, Ending, Failing
<1>3. 1 \in 1..Len(down) /\ down[1] = crc(d.data) /\ crc(d.data)[1] = "crc"
  BY <1>1, DownParts, Kinds
<1>4. PICK n \in Sizes(snd) : down[1] = crc(Content(snd, n))
  BY <1>2, <1>3 DEF Expecting, Current, SumsRight
<1> QED
  BY <1>2, <1>3, <1>4, SumOf

(* What is programmed continues the image.                                 *)
LEMMA AcceptsHolds ==
  ASSUME LineTypeOK, Expecting, NEW n \in Sizes(snd), xmodem_block(Content(snd, n))
  PROVE  /\ bd' = bd + n /\ bd + n \in 1..Len(blocks)
         /\ Holds(flash', snd.img, bd + n)
<1> DEFINE bytes == Content(snd, n)
           area == IF bd = 0 THEN [b \in 1..Blocks |-> Erased] ELSE flash
           i == snd.img
<1>1. /\ snd \in SenderState /\ bd \in Nat /\ bd + 1 = snd.next /\ Blocks \in Nat
      /\ blocks = Image[i] /\ (bd > 0 => Holds(flash, i, bd))
  BY SenderParts DEF Expecting
<1>2. /\ n \in {1, 2} /\ Len(bytes) = n /\ snd.next + n - 1 <= Len(blocks)
      /\ \A k \in 1..n : bytes[k] = Data(Image[i][snd.next + k - 1])
  BY <1>1, ContentIs
<1>3. /\ flash' = [b \in 1..Blocks |-> IF b - bd \in 1..n THEN bytes[b - bd][2] ELSE area[b]]
      /\ bd' = bd + n
  BY <1>2 DEF xmodem_block
<1> HIDE DEF bytes, area
<1>4. bd + n \in 1..Len(blocks)
  BY <1>1, <1>2, SenderParts
<1>5. ASSUME NEW b \in 1..Blocks
      PROVE  flash'[b] = IF b <= bd + n THEN Image[i][b] ELSE Erased
  <2>1. CASE b <= bd
    <3>1. bd # 0 /\ bd > 0 /\ b - bd \notin 1..n /\ b <= bd + n
      BY <1>1, <1>2, <2>1
    <3>2. flash'[b] = area[b] /\ area[b] = flash[b]
      BY <1>3, <3>1 DEF area
    <3>3. flash[b] = Image[i][b]
      BY <1>1, <2>1, <3>1 DEF Holds
    <3> QED
      BY <3>1, <3>2, <3>3
  <2>2. CASE b - bd \in 1..n
    <3>1. flash'[b] = bytes[b - bd][2]
      BY <1>3, <2>2
    <3>2. snd.next + (b - bd) - 1 = b /\ b <= bd + n
      BY <1>1, <1>2, <2>2
    <3>3. bytes[b - bd] = Data(Image[i][b])
      BY <1>2, <2>2, <3>2
    <3> QED
      BY <3>1, <3>2, <3>3, Kinds
  <2>3. CASE b > bd + n
    <3>1. b - bd \notin 1..n /\ ~(b <= bd + n) /\ ~(b <= bd)
      BY <1>1, <1>2, <2>3
    <3>2. flash'[b] = area[b]
      BY <1>3, <3>1
    <3>3. area[b] = Erased
      <4>1. CASE bd = 0
        BY <4>1 DEF area
      <4>2. CASE bd # 0
        <5>1. bd > 0
          BY <1>1, <4>2
        <5> QED
          BY <1>1, <3>1, <4>2, <5>1 DEF area, Holds
      <4> QED
        BY <4>1, <4>2
    <3> QED
      BY <3>1, <3>2, <3>3
  <2> QED
    BY <1>1, <1>2, <2>1, <2>2, <2>3
<1> QED
  BY <1>3, <1>4, <1>5 DEF Holds, i

(* The receiver is acknowledging.                                          *)
LEMMA AcceptsTransfer ==
  ASSUME LineTypeOK, LineInv, Receive, Accepts, Expecting,
         NEW n \in Sizes(snd), d.data = Content(snd, n)
  PROVE  Acknowledged' \/ Failing'
<1>1. /\ down # <<>> /\ down' = Tail(down) /\ snd' = snd
      /\ d'.state = "START" /\ d'.pktnum = (d.pktnum + 1) % Mod
      /\ Head(down) = crc(Content(snd, n))
  BY DEF Receive, Accepts
<1>2. /\ Len(down) \in Nat /\ Len(down) >= 1 /\ down[1] = crc(Content(snd, n))
      /\ Len(down') = Len(down) - 1 /\ down' \in Seq(Byte)
      /\ \A i \in 1..(Len(down) - 1) : down'[i] = down[i + 1]
      /\ down[1][1] = "crc"
  BY <1>1, DownParts, Kinds
<1>3. /\ Waits /\ snd.next <= Len(blocks) /\ bd + 1 = snd.next
      /\ d.pktnum = snd.num % Mod /\ Current(down, snd) /\ ~Has(up, ACK)
      /\ snd \in SenderState /\ snd.num \in Nat /\ bd \in Nat
  BY SenderParts DEF Expecting
<1>4. d'.pktnum = (snd.num + 1) % Mod
  BY <1>1, <1>3, CountsOn
<1>5. bd' = bd + n /\ bd' \in 1..Len(blocks) /\ Holds(flash', snd.img, bd')
  BY AcceptsHolds DEF Accepts
<1>6. blocks' = blocks /\ Waits'
  BY <1>1, <1>3 DEF blocks, Waits
<1>7. CASE Len(down) = 1
  <2>1. down[1] \in {crc(Content(snd, snd.size)), garbled}
    BY <1>1, <1>3, <1>7 DEF Current, EndsRight
  <2>2. crc(Content(snd, n)) = crc(Content(snd, snd.size))
    BY <1>2, <2>1, Kinds
  <2>3. Content(snd, n) = Content(snd, snd.size)
    BY <2>2, SumOf
  <2>4. snd.size \in Sizes(snd)
    BY <1>3 DEF LineInv
  <2>5. n = snd.size
    <3>1. Len(Content(snd, n)) = n
      BY <1>3, ContentIs
    <3>2. Len(Content(snd, snd.size)) = snd.size
      BY <1>3, <2>4, ContentIs
    <3> QED
      BY <2>3, <3>1, <3>2
  <2>6. down' = <<>>
    BY <1>2, <1>7
  <2>7. bd' + 1 = snd'.next + snd'.size
    <3>1. n \in Nat
      BY DEF Sizes
    <3>2. (bd + n) + 1 = snd.next + n
      BY <1>3, <3>1
    <3> QED
      BY <1>1, <1>5, <2>5, <3>2
  <2>8. Holds(flash', snd'.img, bd') /\ snd'.next <= Len(blocks')
    BY <1>1, <1>3, <1>5, <1>6
  <2>9. d'.pktnum = (snd'.num + 1) % Mod
    BY <1>1, <1>4
  <2> QED
    BY <1>1, <1>6, <2>6, <2>7, <2>8, <2>9 DEF Acknowledged, Holds
<1>8. CASE Len(down) # 1
  <2>1. 1 \in 1..(Len(down) - 1)
    BY <1>2, <1>8
  <2>2. /\ 1 + 2 <= Len(down) /\ down[1 + 1] \in Heads
        /\ down[1 + 2] \in {Num(snd.num), garbled}
    BY <1>2, <1>3, <2>1 DEF Current, Followed
  <2>3. Len(down') >= 2 /\ down'[1] = down[1 + 1] /\ down'[2] = down[2 + 1]
    BY <1>2, <2>2
  <2>4. Num(d'.pktnum) # Num(snd.num) /\ Num(d'.pktnum) # garbled
    BY <1>3, <1>4, NextNum, Kinds
  <2>5. down'[2] # Num(d'.pktnum) /\ down'[1] \in Heads
    BY <2>2, <2>3, <2>4
  <2>6. snd'.next <= Len(blocks') /\ bd' \in 1..Len(blocks') /\ Holds(flash', snd'.img, bd')
    BY <1>1, <1>3, <1>5, <1>6
  <2> QED
    BY <1>1, <1>6, <2>3, <2>5, <2>6 DEF Failing, Holds
<1> QED
  BY <1>7, <1>8

(* A packet is accepted: it is the expected one.                           *)
LEMMA AcceptsStep ==
  ASSUME LineTypeOK, LineInv, loop = "transfer", Receive, Accepts
  PROVE  LineInv'
<1>1. PICK n \in Sizes(snd) : d.data = Content(snd, n)
  BY AcceptsExpected
<1>2. Expecting
  BY AcceptsExpected
<1>3. Transfer'
  BY <1>1, <1>2, AcceptsTransfer DEF Transfer
<1>4. bd' = bd + n /\ bd + n \in 1..Len(blocks) /\ Holds(flash', snd.img, bd + n)
  BY <1>1, <1>2, AcceptsHolds DEF Accepts
<1>5. /\ small' = small /\ snd' = snd /\ err' = 1 /\ loop' = "transfer"
      /\ up' = up \o <<ACK>> /\ up \in Seq(Answer) /\ ACK \in Answer
  BY DEF Receive, Accepts, LineTypeOK, Answer
<1>6. OneImage'
  <2>1. /\ snd.img \in DOMAIN Image /\ blocks = Image[snd.img] /\ Len(blocks) \in Nat
    BY SenderParts
  <2>2. bd + n \in 0..Len(Image[snd.img])
    BY <1>4, <2>1
  <2> QED
    BY <1>4, <2>1, <2>2 DEF OneImage, Holds
<1>7. snd'.phase # "done"
  BY <1>2, <1>5 DEF Expecting, Waits
<1>8. ~(snd'.next > Len(blocks'))
  BY <1>2, <1>5, SenderParts DEF Expecting, blocks
<1>9. Once(up', ACK)
  BY <1>2, <1>5, OnceNew DEF Expecting
<1>10. Waits' /\ snd'.next <= Len(blocks') => snd'.size \in Sizes(snd')
  BY <1>5 DEF LineInv, Waits, blocks
<1>11. ~Has(up', CAN)
  <2>1. Has(up', CAN) => Has(up, CAN) \/ Has(<<ACK>>, CAN)
    BY <1>5, HasConcat, OneIs
  <2>2. ~Has(<<ACK>>, CAN) /\ ~Has(up, CAN)
    BY HasOne, Parameters DEF LineInv
  <2> QED
    BY <2>1, <2>2
<1>12. small' => snd'.phase # "stopped"
  BY <1>5 DEF LineInv
<1>13. bd' # 0
  BY <1>4
<1> QED
  BY <1>3, <1>5, <1>6, <1>7, <1>8, <1>9, <1>10, <1>11, <1>12, <1>13 DEF LineInv

(* Any other byte.                                                         *)
LEMMA ReadsStep ==
  ASSUME LineTypeOK, LineInv, loop = "transfer", Receive, NEW s, NEW t, Reads(s, t),
         t \in {"PKTNUM_1", "PKTNUM_2", "DATA"},
         s = "START" => t = "PKTNUM_1" /\ Head(down) \in {SOH, STX},
         s = "PKTNUM_1" => Head(down) = Num(d.pktnum)
  PROVE  LineInv'
<1>1. /\ down # <<>> /\ Transfer /\ d.state = s /\ err' = 1 /\ loop' = "transfer"
      /\ UNCHANGED <<small, snd, flash, bd>> /\ up' = up
  BY DEF Receive, Reads, GoesOn, LineInv
<1>2. ~Idle /\ ~Acknowledged
  BY <1>1 DEF Idle, Acknowledged
<1>3. ~Ending
  <2> SUFFICES ASSUME Ending PROVE FALSE
    OBVIOUS
  <2>1. s = "START" /\ Head(down) \in {SOH, STX} /\ Head(down) = down[1] /\ 1 \in 1..Len(down)
    BY <1>1, DownParts DEF Ending
  <2>2. Head(down) \in {EOT, garbled}
    BY <2>1 DEF Ending
  <2>3. SOH # EOT /\ STX # EOT /\ SOH # garbled /\ STX # garbled
    BY HeadNotEOT, Kinds DEF Heads, SOH, STX
  <2> QED
    BY <2>1, <2>2, <2>3
<1>4. Transfer'
  <2>1. CASE Expecting
    BY <2>1, ReadsExpecting DEF Transfer
  <2>2. CASE Failing
    BY <2>2, ReadsFailing DEF Transfer
  <2> QED
    BY <1>1, <1>2, <1>3, <2>1, <2>2 DEF Transfer
<1> QED
  BY <1>1, <1>4, KeepsTransfer, QuietSame

LEMMA ReceiveStep ==
  ASSUME LineTypeOK, LineInv, Receive
  PROVE  LineInv' \/ (small /\ mistaken)'
<1>1. loop = "transfer" /\ down # <<>> /\ UNCHANGED <<small, snd>>
  BY DEF Receive
<1>a. CASE Mistakes
  BY <1>1, <1>a, WithinPacket DEF Mistakes
<1>2. CASE SeesEnd
  BY <1>1, <1>2, SeesEndStep
<1>3. CASE Reads("INIT", "PKTNUM_1")
  BY <1>1, <1>3, ReadsStep
<1>4. CASE Reads("START", "PKTNUM_1") /\ Header(Head(down))
  <2>1. Head(down) \in {SOH, STX}
    BY <1>1, <1>4, WithinPacket DEF Header, Reads
  <2> QED
    BY <1>1, <1>4, <2>1, ReadsStep
<1>5. CASE Reads("PKTNUM_1", "PKTNUM_2") /\ Head(down) = Num(d.pktnum)
  BY <1>1, <1>5, ReadsStep
<1>6. CASE Reads("PKTNUM_2", "DATA")
  BY <1>1, <1>6, ReadsStep
<1>7. CASE Reads("DATA", "DATA")
  BY <1>1, <1>7, ReadsStep
<1>8. CASE Accepts
  BY <1>1, <1>8, AcceptsStep
<1>9. CASE Aborts
  <2>1. small /\ bd = 0 /\ ~Has(up, ACK) => ShellSmall'
    BY <1>1, <1>9, GivesUpReading
  <2> QED
    BY <1>1, <1>9, <2>1, Aborting
<1> QED
  BY <1>2, <1>a, <1>3, <1>4, <1>5, <1>6, <1>7, <1>8, <1>9, ReceiveCases

-----------------------------------------------------------------------------
(* A second of silence.                                                    *)

LEMMA SilentTransfer ==
  ASSUME LineTypeOK, LineInv, loop = "transfer", down = <<>>,
         UNCHANGED <<small, down, snd>>, NEW s, GoesOn(s),
         s = d.state \/ (d.state # "INIT" /\ s = "START"), Quiet(up, up')
  PROVE  Transfer'
<1>1. /\ small' = small /\ snd' = snd /\ down' = <<>> /\ bd' = bd /\ flash' = flash
      /\ d'.state = s /\ d'.pktnum = d.pktnum /\ (Has(up', ACK) => Has(up, ACK))
      /\ down' = down
  BY DEF GoesOn, Quiet
<1>2. CASE Idle
  <2>1. Idle'
    BY <1>1, <1>2 DEF Idle
  <2> QED
    BY <2>1 DEF Transfer
<1>3. CASE Expecting
  <2>1. Current(down', snd')
    BY <1>1, <1>3 DEF Expecting
  <2>2. d'.state = "INIT" => bd' = 0
    BY <1>1, <1>3 DEF Expecting
  <2>3. Expecting'
    BY <1>1, <1>3, <2>1, <2>2 DEF Expecting, AtStart, Waits, blocks, Holds
  <2> QED
    BY <2>3 DEF Transfer
<1>4. CASE Acknowledged
  <2>1. Acknowledged'
    BY <1>1, <1>4 DEF Acknowledged, Waits, blocks, Holds
  <2> QED
    BY <2>1 DEF Transfer
<1>5. CASE Ending
  <2>1. Ending'
    BY <1>1, <1>5 DEF Ending, Waits, blocks, Holds
  <2> QED
    BY <2>1 DEF Transfer
<1>6. ~Failing
  <2>1. Len(<<>>) = 0
    OBVIOUS
  <2> QED
    BY <2>1 DEF Failing
<1> QED
  BY <1>2, <1>3, <1>4, <1>5, <1>6 DEF LineInv, Transfer

(* A small version gives up in silence.                                    *)
LEMMA GivesUpSilent ==
  ASSUME LineTypeOK, LineInv, loop = "transfer", down = <<>>, UNCHANGED <<down, snd>>,
         Aborts, small, bd = 0, ~Has(up, ACK)
  PROVE  ShellSmall'
<1>1. /\ snd' = snd /\ down' = <<>> /\ bd' = 0 /\ up' = up /\ snd.phase # "stopped"
  BY DEF Aborts, LineInv
<1>2. CASE Idle
  BY <1>1, <1>2 DEF Idle, ShellSmall, Waits
<1>3. CASE Expecting
  <2>1. snd.next = 1 /\ snd.num = 1 /\ Waits
    BY <1>3, SenderParts DEF Expecting
  <2>2. Current(down', snd') /\ ~Has(down', EOT)
    BY <1>1, CurrentNone, HasNone
  <2> QED
    BY <1>1, <2>1, <2>2 DEF ShellSmall, Waits
<1>4. ~Acknowledged /\ ~Ending /\ ~Failing
  BY SenderParts DEF Acknowledged, Ending, Failing, LineInv, Sizes
<1> QED
  BY <1>2, <1>3, <1>4 DEF LineInv, Transfer

LEMMA SilenceStep == ASSUME LineTypeOK, LineInv, Silence PROVE LineInv'
<1>1. loop = "transfer" /\ down = <<>> /\ UNCHANGED <<small, down, snd>>
  BY DEF Silence, sender
<1>2. CASE GoesOn(d.state) /\ (up' = up \/ up' = up \o <<C>>)
  <2>1. Quiet(up, up')
    BY <1>2, AnswersQuiet
  <2>2. Transfer'
    BY <1>1, <1>2, <2>1, SilentTransfer
  <2> QED
    BY <1>1, <1>2, <2>1, <2>2, KeepsTransfer DEF GoesOn
<1>3. CASE d.state # "INIT" /\ GoesOn("START") /\ up' = up \o <<NAK>>
  <2>1. Quiet(up, up')
    BY <1>3, AnswersQuiet
  <2>2. Transfer'
    BY <1>1, <1>3, <2>1, SilentTransfer
  <2> QED
    BY <1>1, <1>3, <2>1, <2>2, KeepsTransfer DEF GoesOn
<1>4. CASE Aborts
  <2>1. small /\ bd = 0 /\ ~Has(up, ACK) => ShellSmall'
    BY <1>1, <1>4, GivesUpSilent
  <2> QED
    BY <1>1, <1>4, <2>1, Aborting
<1> QED
  BY <1>2, <1>3, <1>4, SilenceCases DEF Silence

-----------------------------------------------------------------------------
(* Steps of the line and of the shell: the sender and the receiver stay.   *)

ShellOK == (small => ShellSmall) /\ (~small => ShellLarge)

(* Neither side does anything.                                             *)
LEMMA LineStep ==
  ASSUME LineTypeOK, LineInv, UNCHANGED <<small, err, bd, flash, loop, snd>>, Quiet(up, up'),
         loop = "transfer" => Transfer', loop = "shell" => ShellOK'
  PROVE  LineInv'
<1>1. OneImage' /\ (Whole(flash) => Whole(flash'))
  BY DEF LineInv, OneImage, Holds, Whole
<1>2. Complete => Complete'
  BY DEF Complete, Holds, blocks
<1>3. /\ err' = 0 => loop' = "booted" /\ Whole(flash')
      /\ snd'.phase = "done" => Complete'
      /\ Has(up', ACK) /\ Waits' /\ snd'.next > Len(blocks') => Complete'
      /\ Once(up', ACK)
  BY <1>1, <1>2 DEF LineInv, Quiet, Waits, blocks
<1>4. /\ Waits' /\ snd'.next <= Len(blocks') => snd'.size \in Sizes(snd')
      /\ small' => ~Has(up', CAN) /\ snd'.phase # "stopped"
      /\ small' /\ bd' = 0 => \A b \in 1..Blocks : flash'[b] = Erased
      /\ loop' = "transfer" => Transfer' /\ ~Has(up', CAN)
  BY DEF LineInv, Quiet, Waits, blocks
<1>5. loop' = "shell" => IF small' THEN ShellSmall' ELSE ShellLarge'
  BY DEF ShellOK
<1> QED
  BY <1>1, <1>3, <1>4, <1>5 DEF LineInv

LEMMA GarbleStep == ASSUME LineTypeOK, LineInv, GarbleByte PROVE LineInv'
<1> DEFINE g == <<garbled>> \o Tail(down)
<1>1. /\ down # <<>> /\ down' = g /\ down \in Seq(Byte)
      /\ UNCHANGED <<small, err, bd, flash, loop, snd>> /\ d' = d /\ up' = up
  BY DEF GarbleByte, receiver, LineTypeOK
<1>2. /\ g # <<>> /\ Len(g) = Len(down) /\ g[1] = garbled
      /\ \A i \in 2..Len(down) : g[i] = down[i]
      /\ \A i \in 1..Len(down) : g[i] = garbled \/ g[i] = down[i]
      /\ Len(down) \in Nat
  <2>1. /\ g # <<>> /\ Len(g) = Len(down) /\ g[1] = garbled
        /\ \A i \in 2..Len(down) : g[i] = down[i]
    BY <1>1, GarbledIs
  <2>2. Len(down) \in Nat
    BY <1>1, DownParts
  <2> HIDE DEF g
  <2>3. \A i \in 1..Len(down) : i = 1 \/ i \in 2..Len(down)
    BY <2>2
  <2> QED
    BY <2>1, <2>2, <2>3
<1>3. Current(down, snd) => Current(g, snd)
  BY <1>1, CurrentGarbled
<1> HIDE DEF g
<1>4. garbled # EOT /\ garbled \in Heads /\ \A n : garbled # Num(n)
  BY Kinds DEF EOT, Heads
<1>5. Has(g, EOT) => Has(down, EOT)
  BY <1>2, <1>4 DEF Has
<1>6. loop = "transfer" => Transfer'
  <2> SUFFICES ASSUME Transfer PROVE Transfer'
    BY DEF LineInv
  <2>1. ~Idle /\ ~Acknowledged
    BY <1>1 DEF Idle, Acknowledged
  <2>2. CASE Expecting
    <3>1. Current(down', snd') /\ (Has(down', EOT) => Has(down, EOT)) /\ down'[1] \in Heads
      BY <1>1, <1>2, <1>3, <1>4, <1>5, <2>2 DEF Expecting
    <3>2. Expecting'
      BY <1>1, <2>2, <3>1 DEF Expecting, AtStart, Waits, blocks, Holds
    <3> QED
      BY <3>2 DEF Transfer
  <2>3. CASE Ending
    <3>1. \A j \in 1..Len(down') : down'[j] \in {EOT, garbled}
      BY <1>1, <1>2, <2>3 DEF Ending
    <3>2. Ending'
      BY <1>1, <2>3, <3>1 DEF Ending, Waits, blocks, Holds
    <3> QED
      BY <3>2 DEF Transfer
  <2>4. CASE Failing
    <3>1. \/ /\ d'.state = "START" /\ Len(down') >= 2 /\ down'[1] \in Heads
             /\ down'[2] # Num(d'.pktnum)
          \/ /\ d'.state = "PKTNUM_1" /\ down' # <<>>
             /\ down'[1] # Num(d'.pktnum)
      <4>1. CASE d.state = "START" /\ Len(down) >= 2 /\ down[2] # Num(d.pktnum)
        <5>1. g[2] = down[2]
          BY <1>2, <4>1
        <5> QED
          BY <1>1, <1>2, <1>4, <4>1, <5>1
      <4>2. CASE d.state = "PKTNUM_1"
        BY <1>1, <1>2, <1>4, <4>2
      <4> QED
        BY <2>4, <4>1, <4>2 DEF Failing
    <3>2. Failing'
      BY <1>1, <2>4, <3>1 DEF Failing, Waits, blocks, Holds
    <3> QED
      BY <3>2 DEF Transfer
  <2> QED
    BY <2>1, <2>2, <2>3, <2>4 DEF Transfer
<1>7. loop = "shell" => ShellOK'
  <2> SUFFICES ASSUME ShellOK PROVE ShellOK'
    BY DEF LineInv, ShellOK
  <2>1. small => ShellSmall'
    BY <1>1, <1>3, <1>5 DEF ShellOK, ShellSmall, Waits
  <2>2. ~small => ShellLarge'
    BY <1>1 DEF ShellOK, ShellLarge, Waits
  <2> QED
    BY <1>1, <2>1, <2>2 DEF ShellOK
<1> QED
  BY <1>1, <1>6, <1>7, LineStep, QuietSame

LEMMA ShellInputStep == ASSUME LineTypeOK, LineInv, ShellInput PROVE LineInv'
<1>1. /\ loop # "transfer" /\ down # <<>> /\ down' = Tail(down) /\ down \in Seq(Byte)
      /\ UNCHANGED <<small, err, bd, flash, loop, snd>> /\ up' = up
  BY DEF ShellInput, receiver, LineTypeOK
<1>2. loop = "shell" => ShellOK'
  <2> SUFFICES ASSUME ShellOK PROVE ShellOK'
    BY DEF LineInv, ShellOK
  <2>1. ASSUME small PROVE ShellSmall'
    <3>1. ShellSmall /\ Waits
      BY <1>1, <2>1 DEF ShellOK, ShellSmall
    <3>2. Current(down', snd') /\ ~Has(down', EOT)
      BY <1>1, <3>1, CurrentTail, DownParts DEF ShellSmall
    <3> QED
      BY <1>1, <3>1, <3>2 DEF ShellSmall, Waits
  <2>2. ~small => ShellLarge'
    BY <1>1 DEF ShellOK, ShellLarge, Waits
  <2> QED
    BY <1>1, <2>1, <2>2 DEF ShellOK
<1> QED
  BY <1>1, <1>2, LineStep, QuietSame

(* An answer is lost, or means nothing to the sender.                      *)
LEMMA AnswerGone ==
  ASSUME LineTypeOK, LineInv, up # <<>>, up' = Tail(up), Waits => Head(up) # CAN,
         UNCHANGED <<small, d, err, bd, flash, loop, down, snd>>
  PROVE  LineInv'
<1>1. up \in Seq(Answer) /\ Quiet(up, up')
  BY QuietTail DEF LineTypeOK
<1>2. Has(up', ACK) => Has(up, ACK)
  BY <1>1 DEF Quiet
<1>3. loop = "transfer" => Transfer'
  <2> SUFFICES ASSUME Transfer PROVE Transfer'
    BY DEF LineInv
  <2>1. Idle => Idle'
    BY <1>2 DEF Idle
  <2>2. Expecting => Expecting'
    <3> SUFFICES ASSUME Expecting PROVE Expecting'
      OBVIOUS
    <3>1. Current(down', snd')
      BY DEF Expecting
    <3> QED
      BY <1>2, <3>1 DEF Expecting, AtStart, Waits, blocks, Holds
  <2>3. Acknowledged => Acknowledged'
    BY DEF Acknowledged, Waits, blocks, Holds
  <2>4. Ending => Ending'
    BY <1>2 DEF Ending, Waits, blocks, Holds
  <2>5. Failing => Failing'
    BY <1>2 DEF Failing, Waits, blocks, Holds
  <2> QED
    BY <2>1, <2>2, <2>3, <2>4, <2>5 DEF Transfer
<1>4. loop = "shell" => ShellOK'
  <2> SUFFICES ASSUME ShellOK PROVE ShellOK'
    BY DEF LineInv, ShellOK
  <2>1. ASSUME small PROVE ShellSmall'
    <3>1. Waits => Current(down', snd')
      BY <2>1 DEF ShellOK, ShellSmall
    <3> QED
      BY <1>2, <2>1, <3>1 DEF ShellOK, ShellSmall, Waits
  <2>2. ASSUME ~small PROVE ShellLarge'
    <3>1. LastIs(up, CAN)
      BY <2>2 DEF ShellOK, ShellLarge
    <3>2. LastIs(up', CAN) \/ (up' = <<>> /\ Head(up) = CAN)
      BY <1>1, <3>1, LastTail
    <3> QED
      BY <3>2 DEF ShellLarge, Waits
  <2> QED
    BY <2>1, <2>2 DEF ShellOK
<1> QED
  BY <1>1, <1>3, <1>4, LineStep

LEMMA LoseAnswerStep == ASSUME LineTypeOK, LineInv, LoseAnswer PROVE LineInv'
BY AnswerGone DEF LoseAnswer

(* The sender's user starts another transfer.                              *)
LEMMA SendImageStep == ASSUME LineTypeOK, LineInv, SendImage PROVE LineInv'
<1>1. /\ snd.phase \in {"off", "done", "stopped"} /\ down' = down /\ up' = up
      /\ UNCHANGED <<small, d, err, bd, flash, loop>> /\ snd'.phase = "starts"
      /\ snd \in SenderState
  BY DEF SendImage, unsent, receiver, LineTypeOK
<1>2. ~Waits /\ ~Waits'
  BY <1>1 DEF Waits
<1>3. OneImage' /\ (Whole(flash) => Whole(flash'))
  BY <1>1 DEF LineInv, OneImage, Holds, Whole
<1>4. ASSUME loop = "transfer" PROVE Transfer'
  <2>1. Idle
    BY <1>2, <1>4 DEF LineInv, Transfer, Expecting, Acknowledged, Ending, Failing
  <2>2. Idle'
    BY <1>1, <2>1 DEF Idle
  <2> QED
    BY <2>2 DEF Transfer
<1>5. ASSUME loop = "shell" PROVE IF small' THEN ShellSmall' ELSE ShellLarge'
  <2>1. CASE small
    BY <1>1, <1>2, <1>5, <2>1 DEF LineInv, ShellSmall
  <2>2. CASE ~small
    BY <1>1, <1>2, <1>5, <2>2 DEF LineInv, ShellLarge
  <2> QED
    BY <1>1, <2>1, <2>2
<1>6. /\ err' = 0 => loop' = "booted" /\ Whole(flash')
      /\ snd'.phase # "done" /\ snd'.phase # "stopped"
      /\ Once(up', ACK)
      /\ small' => ~Has(up', CAN)
      /\ small' /\ bd' = 0 => \A b \in 1..Blocks : flash'[b] = Erased
      /\ loop' = "transfer" => ~Has(up', CAN)
  BY <1>1, <1>3 DEF LineInv
<1> QED
  BY <1>1, <1>2, <1>3, <1>4, <1>5, <1>6 DEF LineInv

-----------------------------------------------------------------------------
(* The sender sends.                                                       *)

SameReceiver == UNCHANGED <<small, d, err, bd, flash, loop>>

(* The sender sends from block n on.                                       *)
LEMMA SendsStep ==
  ASSUME LineTypeOK, LineInv, SameReceiver, Quiet(up, up'),
         NEW n \in Nat, NEW m \in Nat, Sends(n, m),
         Has(up', ACK) /\ n > Len(blocks) => Waits /\ n = snd.next,
         loop = "transfer" => Transfer',
         loop = "shell" => ShellOK'
  PROVE  LineInv'
<1>1. /\ small' = small /\ d' = d /\ err' = err /\ bd' = bd /\ flash' = flash /\ loop' = loop
  BY DEF SameReceiver
<1>2. /\ snd'.img = snd.img /\ snd'.next = n /\ snd'.phase = "waits"
      /\ snd'.next <= Len(blocks) => snd'.size \in Sizes(snd')
  <2>1. CASE SendsEnd(n)
    <3>1. n > Len(blocks) /\ snd'.next = n
      BY <2>1 DEF SendsEnd
    <3>2. ~(n <= Len(blocks))
      BY <3>1, SenderParts
    <3> QED
      BY <2>1, <3>1, <3>2 DEF SendsEnd
  <2>2. CASE SendsPacket(n, m)
    BY <2>2 DEF SendsPacket
  <2> QED
    BY <2>1, <2>2 DEF Sends
<1>3. blocks' = blocks /\ Waits'
  BY <1>2 DEF blocks, Waits
<1>4. OneImage' /\ (Whole(flash) => Whole(flash'))
  BY <1>1 DEF LineInv, OneImage, Holds, Whole
<1>5. Has(up', ACK) /\ Waits' /\ snd'.next > Len(blocks') => Complete'
  <2> SUFFICES ASSUME Has(up', ACK), snd'.next > Len(blocks') PROVE Complete'
    OBVIOUS
  <2>1. Waits /\ n = snd.next /\ n > Len(blocks) /\ Has(up, ACK)
    BY <1>2, <1>3 DEF Quiet
  <2>2. Complete
    BY <2>1 DEF LineInv
  <2> QED
    BY <1>1, <1>2, <1>3, <2>2 DEF Complete, Holds
<1>6. /\ err' = 0 => loop' = "booted" /\ Whole(flash')
      /\ snd'.phase # "done" /\ snd'.phase # "stopped"
      /\ Once(up', ACK)
      /\ small' => ~Has(up', CAN)
      /\ small' /\ bd' = 0 => \A b \in 1..Blocks : flash'[b] = Erased
      /\ loop' = "transfer" => Transfer' /\ ~Has(up', CAN)
  BY <1>1, <1>2, <1>4 DEF LineInv, Quiet
<1>7. loop' = "shell" => IF small' THEN ShellSmall' ELSE ShellLarge'
  BY <1>1 DEF ShellOK
<1>8. Waits' /\ snd'.next <= Len(blocks') => snd'.size \in Sizes(snd')
  BY <1>2, <1>3
<1> QED
  BY <1>4, <1>5, <1>6, <1>7, <1>8 DEF LineInv

(* What is under way after a packet.                                       *)
LEMMA PacketUnderWay ==
  ASSUME LineTypeOK, NEW n \in Nat, NEW m \in Nat, SendsPacket(n, m),
         \/ down = <<>>
         \/ Current(down, snd) /\ n = snd.next /\ m = snd.num
  PROVE  /\ Current(down', snd') /\ down' # <<>>
         /\ down' \in Seq(Byte)
         /\ m = 1 /\ ~Has(down, EOT) => ~Has(down', EOT)
         /\ (down = <<>> \/ down[1] \in Heads) => down'[1] \in Heads
<1> DEFINE t == snd'
           p == LastPacket(t)
<1>1. /\ t \in SenderState /\ t.size \in Sizes(t) /\ t.num = m /\ t.next = n /\ t.img = snd.img
      /\ down' = down \o p /\ down \in Seq(Byte)
  BY DEF SendsPacket, LineTypeOK
<1>2. /\ p \in Seq(Byte) /\ p # <<>> /\ p[1] \in Heads /\ Len(p) \in Nat /\ Len(p) >= 1
      /\ m = 1 => ~Has(p, EOT)
  <2>1. /\ p \in Seq(Byte) /\ p # <<>> /\ p[1] \in Heads
        /\ Len(p) = t.size + 4 /\ t.size \in {1, 2}
    BY <1>1, LastPacketIs
  <2>2. m = 1 => ~Has(p, EOT)
    BY <1>1, FirstHasNoEOT
  <2> QED
    BY <2>1, <2>2
<1> HIDE DEF t, p
<1>3. SumsRight(down, t) /\ Followed(down, t)
  <2>1. CASE down = <<>>
    BY <2>1, CurrentNone DEF Current
  <2>2. CASE Current(down, snd) /\ n = snd.next /\ m = snd.num
    BY <1>1, <2>2, CurrentSame DEF SamePacket
  <2> QED
    BY <2>1, <2>2
<1>4. Current(down', t)
  BY <1>1, <1>3, CurrentAppend DEF p
<1>5. down' \in Seq(Byte) /\ down' # <<>>
  BY <1>1, <1>2, ConcatIs, LastConcat
<1>6. m = 1 /\ ~Has(down, EOT) => ~Has(down', EOT)
  BY <1>1, <1>2, HasConcat
<1>7. (down = <<>> \/ down[1] \in Heads) => down'[1] \in Heads
  <2>1. CASE down = <<>>
    <3>1. 1 \in 1..Len(p) /\ Len(down) = 0
      BY <1>2, <2>1
    <3>2. (down \o p)[0 + 1] = p[1]
      BY <1>1, <1>2, <3>1, ConcatIs
    <3> QED
      BY <1>1, <1>2, <3>2
  <2>2. CASE down # <<>>
    <3>1. 1 \in 1..Len(down)
      BY <2>2, DownParts
    <3>2. (down \o p)[1] = down[1]
      BY <1>1, <1>2, <3>1, ConcatIs
    <3> QED
      BY <1>1, <2>2, <3>2
  <2> QED
    BY <2>1, <2>2
<1> QED
  BY <1>4, <1>5, <1>6, <1>7 DEF t

(* Whatever is sent, a transfer that fails goes on failing.                *)
LEMMA SendsFailing ==
  ASSUME LineTypeOK, SameReceiver, Failing, NEW n \in Nat, NEW m \in Nat, Sends(n, m),
         Has(up', ACK) => n <= Len(blocks)
  PROVE  Failing'
<1>1. d' = d /\ bd' = bd /\ flash' = flash /\ down \in Seq(Byte) /\ EOT \in Byte
  BY DEF SameReceiver, LineTypeOK, Byte, EOT
<1>2. snd'.img = snd.img /\ snd'.next = n /\ snd'.phase = "waits"
  BY DEF Sends, SendsEnd, SendsPacket
<1>3. PICK p \in Seq(Byte) : down' = down \o p
  <2>1. CASE SendsEnd(n)
    BY <1>1, <2>1, OneIs DEF SendsEnd
  <2>2. CASE SendsPacket(n, m)
    BY <2>2, LastPacketIs DEF SendsPacket
  <2> QED
    BY <2>1, <2>2 DEF Sends
<1>4. /\ Len(down) \in Nat /\ Len(down') >= Len(down) /\ Len(down') \in Nat
      /\ \A i \in 1..Len(down) : down'[i] = down[i]
  BY <1>1, <1>3, ConcatIs
<1>5. \/ /\ d'.state = "START" /\ Len(down') >= 2 /\ down'[1] \in Heads
         /\ down'[2] # Num(d'.pktnum)
      \/ /\ d'.state = "PKTNUM_1" /\ down' # <<>> /\ down'[1] # Num(d'.pktnum)
  <2>1. CASE d.state = "START" /\ Len(down) >= 2 /\ down[1] \in Heads /\ down[2] # Num(d.pktnum)
    <3>1. 1 \in 1..Len(down) /\ 2 \in 1..Len(down) /\ Len(down') >= 2
      BY <1>4, <2>1
    <3> QED
      BY <1>1, <1>4, <2>1, <3>1
  <2>2. CASE d.state = "PKTNUM_1" /\ down # <<>> /\ down[1] # Num(d.pktnum)
    <3>1. 1 \in 1..Len(down) /\ Len(down') # 0
      BY <1>4, <2>2, DownParts
    <3>2. down' # <<>>
      BY <3>1
    <3> QED
      BY <1>1, <1>4, <2>2, <3>1, <3>2
  <2> QED
    BY <2>1, <2>2 DEF Failing
<1> QED
  BY <1>1, <1>2, <1>5 DEF Failing, Waits, blocks, Holds

(* It answers C: the first packet.                                         *)
LEMMA FirstStep ==
  ASSUME LineTypeOK, LineInv, SameReceiver, snd.phase = "starts", Sends(1, 1),
         up # <<>>, up' = Tail(up), Head(up) = C
  PROVE  LineInv'
<1>1. /\ Quiet(up, up') /\ up \in Seq(Answer) /\ ~Waits /\ 1 <= Len(blocks)
      /\ Len(blocks) \in Nat /\ (Has(up', ACK) => Has(up, ACK))
      /\ d' = d /\ bd' = bd /\ flash' = flash /\ small' = small
  BY QuietTail, SenderParts DEF LineTypeOK, Waits, Quiet, SameReceiver
<1>2. SendsPacket(1, 1)
  BY <1>1 DEF Sends, SendsEnd
<1>3. /\ snd'.img = snd.img /\ snd'.next = 1 /\ snd'.num = 1 /\ snd'.phase = "waits"
      /\ blocks' = blocks /\ Waits'
  BY <1>2 DEF SendsPacket, blocks, Waits
<1>4. down = <<>> => Current(down', snd') /\ ~Has(down', EOT) /\ down'[1] \in Heads
  BY <1>2, PacketUnderWay, HasNone
<1>5. ASSUME loop = "transfer" PROVE Transfer'
  <2>1. Idle
    BY <1>1, <1>5 DEF LineInv, Transfer, Expecting, Acknowledged, Ending, Failing
  <2>2. d'.pktnum = 1 % Mod
    <3>1. 1 % Mod = 1
      BY Parameters
    <3> QED
      BY <1>1, <2>1, <3>1 DEF Idle
  <2>3. Expecting'
    BY <1>1, <1>3, <1>4, <2>1, <2>2 DEF Expecting, AtStart, Idle
  <2> QED
    BY <2>3 DEF Transfer
<1>6. ASSUME loop = "shell" PROVE ShellOK'
  <2>1. ASSUME small PROVE ShellSmall'
    BY <1>1, <1>3, <1>4, <1>6, <2>1 DEF LineInv, ShellSmall
  <2>2. ASSUME ~small PROVE ShellLarge'
    <3>1. LastIs(up, CAN)
      BY <1>6, <2>2 DEF LineInv, ShellLarge
    <3>2. LastIs(up', CAN)
      BY <1>1, <3>1, LastTail, Parameters
    <3> QED
      BY <3>2 DEF ShellLarge
  <2> QED
    BY <1>1, <2>1, <2>2 DEF ShellOK
<1>7. ~(1 > Len(blocks))
  BY <1>1
<1> QED
  BY <1>1, <1>5, <1>6, <1>7, SendsStep

(* The next packet, or the end.                                            *)
LEMMA NextStep ==
  ASSUME LineTypeOK, LineInv, SameReceiver, Waits, snd.next <= Len(blocks),
         Sends(snd.next + snd.size, snd.num + 1),
         up # <<>>, up' = Tail(up), Head(up) = ACK
  PROVE  LineInv'
<1> DEFINE n == snd.next + snd.size
           m == snd.num + 1
<1>1. /\ Quiet(up, up') /\ up \in Seq(Answer) /\ Has(up, ACK) /\ ~Has(up', ACK)
      /\ d' = d /\ bd' = bd /\ flash' = flash /\ small' = small
      /\ n \in Nat /\ m \in Nat
  <2>1. up \in Seq(Answer)
    BY DEF LineTypeOK
  <2>2. n \in Nat /\ m \in Nat
    BY SenderParts
  <2> QED
    BY <2>1, <2>2, QuietTail, OnceTail, HasHead DEF LineInv, SameReceiver
<1>2. Sends(n, m) /\ snd'.img = snd.img /\ snd'.next = n /\ snd'.phase = "waits"
  BY DEF Sends, SendsEnd, SendsPacket
<1> HIDE DEF n, m
<1>3. blocks' = blocks /\ Waits'
  BY <1>2 DEF blocks, Waits
<1>4. ASSUME loop = "transfer" PROVE Transfer'
  <2>1. ~Idle /\ ~Expecting /\ ~Ending /\ Transfer
    BY <1>1, <1>4 DEF Idle, Expecting, Ending, LineInv, Waits
  <2>2. CASE Acknowledged
    <3>1. /\ bd + 1 = n /\ d.pktnum = m % Mod /\ d.state = "START" /\ down = <<>>
          /\ Holds(flash, snd.img, bd)
      BY <2>2 DEF Acknowledged, n, m
    <3>2. bd > 0 /\ bd <= Len(blocks) /\ bd \in Nat /\ Len(blocks) \in Nat
      <4>1. snd.size \in {1, 2} /\ snd.next + snd.size - 1 <= Len(blocks)
        BY SenderParts DEF LineInv, Sizes
      <4>2. bd = snd.next + snd.size - 1 /\ bd \in Nat /\ snd.next \in Nat \ {0}
        BY <3>1, SenderParts DEF n
      <4> QED
        BY <4>1, <4>2, SenderParts
    <3>3. CASE SendsEnd(n)
      <4>1. n > Len(blocks) /\ down' = down \o <<EOT>> /\ EOT \in Byte
        BY <3>3 DEF SendsEnd, Byte, EOT
      <4>2. bd = Len(blocks)
        BY <3>1, <3>2, <4>1
      <4>3. \A j \in 1..Len(down') : down'[j] \in {EOT, garbled}
        BY <3>1, <4>1
      <4>4. Ending'
        BY <1>1, <1>2, <1>3, <3>1, <4>1, <4>2, <4>3 DEF Ending, Holds
      <4> QED
        BY <4>4 DEF Transfer
    <3>4. CASE SendsPacket(n, m)
      <4>1. snd'.num = m /\ n <= Len(blocks)
        BY <3>4 DEF SendsPacket
      <4>2. Current(down', snd') /\ down'[1] \in Heads
        BY <1>1, <3>1, <3>4, PacketUnderWay
      <4>3. bd' # 0 /\ d'.state = "START"
        BY <1>1, <3>1, <3>2
      <4>4. Expecting'
        BY <1>1, <1>2, <1>3, <3>1, <4>1, <4>2, <4>3 DEF Expecting, AtStart, Holds
      <4> QED
        BY <4>4 DEF Transfer
    <3> QED
      BY <1>2, <3>3, <3>4 DEF Sends
  <2>3. CASE Failing
    BY <1>1, <1>2, <2>3, SendsFailing DEF Transfer
  <2> QED
    BY <2>1, <2>2, <2>3 DEF Transfer
<1>5. ASSUME loop = "shell" PROVE ShellOK'
  <2>1. ~small
    BY <1>1, <1>5 DEF LineInv, ShellSmall
  <2>2. LastIs(up, CAN)
    BY <1>5, <2>1 DEF LineInv, ShellLarge
  <2>3. LastIs(up', CAN)
    BY <1>1, <2>2, LastTail, Parameters
  <2> QED
    BY <1>1, <2>1, <2>3 DEF ShellOK, ShellLarge
<1> QED
  BY <1>1, <1>2, <1>4, <1>5, SendsStep

(* The same packet again, or the end again.                                *)
LEMMA AgainStep ==
  ASSUME LineTypeOK, LineInv, SameReceiver, Waits, Sends(snd.next, snd.num), Quiet(up, up'),
         loop = "shell" /\ ~small => LastIs(up', CAN)
  PROVE  LineInv'
<1> DEFINE n == snd.next
           m == snd.num
<1>1. /\ d' = d /\ bd' = bd /\ flash' = flash /\ small' = small
      /\ (Has(up', ACK) => Has(up, ACK))
      /\ n \in Nat /\ m \in Nat /\ Len(blocks) \in Nat /\ bd \in Nat
  BY SenderParts DEF SameReceiver, Quiet
<1>2. Sends(n, m) /\ snd'.img = snd.img /\ snd'.next = n /\ snd'.phase = "waits"
  BY DEF Sends, SendsEnd, SendsPacket
<1>3. blocks' = blocks /\ Waits'
  BY <1>2 DEF blocks, Waits
<1>4. n <= Len(blocks) => SendsPacket(n, m)
  <2>1. n <= Len(blocks) => ~(n > Len(blocks))
    BY <1>1
  <2> QED
    BY <1>2, <2>1 DEF Sends, SendsEnd
<1>5. ASSUME loop = "transfer" PROVE Transfer'
  <2>1. ~Idle /\ Transfer
    BY <1>5 DEF Idle, LineInv, Waits
  <2>2. CASE Expecting
    <3>1. /\ n <= Len(blocks) /\ bd + 1 = n /\ d.pktnum = m % Mod /\ ~Has(up, ACK)
          /\ Current(down, snd)
      BY <2>2 DEF Expecting
    <3>2. SendsPacket(n, m) /\ snd'.num = m
      BY <1>4, <3>1 DEF SendsPacket
    <3>3. /\ Current(down', snd')
          /\ m = 1 /\ ~Has(down, EOT) => ~Has(down', EOT)
          /\ (down = <<>> \/ down[1] \in Heads) => down'[1] \in Heads
      BY <1>1, <3>1, <3>2, PacketUnderWay
    <3>4. bd' = 0 => snd'.num = 1 /\ ~Has(down', EOT)
      BY <1>1, <2>2, <3>2, <3>3 DEF Expecting
    <3>5. AtStart' => down'[1] \in Heads
      BY <1>1, <2>2, <3>3 DEF Expecting, AtStart
    <3>6. /\ d'.state = "INIT" => bd' = 0
          /\ bd' > 0 => Holds(flash', snd'.img, bd')
      BY <1>1, <1>2, <2>2 DEF Expecting, Holds
    <3>7. Expecting'
      BY <1>1, <1>2, <1>3, <3>1, <3>2, <3>3, <3>4, <3>5, <3>6 DEF Expecting
    <3> QED
      BY <3>7 DEF Transfer
  <2>3. CASE Acknowledged
    <3>1. /\ n <= Len(blocks) /\ bd + 1 = n + snd.size /\ d.pktnum = (m + 1) % Mod
          /\ d.state = "START" /\ down = <<>> /\ Holds(flash, snd.img, bd)
      BY <2>3 DEF Acknowledged
    <3>2. bd \in 1..Len(blocks)
      <4>1. snd.size \in {1, 2} /\ n + snd.size - 1 <= Len(blocks) /\ n # 0
        BY <3>1, SenderParts DEF LineInv, Sizes
      <4> QED
        BY <1>1, <3>1, <4>1
    <3>3. SendsPacket(n, m)
      BY <1>4, <3>1
    <3>4. /\ snd' \in SenderState /\ snd'.size \in Sizes(snd') /\ snd'.num = m
          /\ down' = down \o LastPacket(snd')
      BY <3>3 DEF SendsPacket
    <3>5. /\ LastPacket(snd') \in Seq(Byte) /\ LastPacket(snd')[1] \in Heads
          /\ LastPacket(snd')[2] = Num(m) /\ Len(LastPacket(snd')) >= 2
      <4>1. /\ Len(LastPacket(snd')) = snd'.size + 4 /\ snd'.size \in {1, 2}
            /\ LastPacket(snd') \in Seq(Byte) /\ LastPacket(snd')[1] \in Heads
            /\ LastPacket(snd')[2] = Num(m)
        BY <3>4, LastPacketIs
      <4> QED
        BY <4>1
    <3>6. down' = LastPacket(snd')
      BY <3>1, <3>4, <3>5, ConcatEmptySeq
    <3>7. down'[2] # Num(d'.pktnum)
      BY <1>1, <3>1, <3>5, <3>6, NextNum
    <3>8. Failing'
      BY <1>1, <1>2, <1>3, <3>1, <3>2, <3>5, <3>6, <3>7 DEF Failing, Holds
    <3> QED
      BY <3>8 DEF Transfer
  <2>4. CASE Ending
    <3>1. n > Len(blocks) /\ ~(n <= Len(blocks))
      BY <1>1, <2>4 DEF Ending
    <3>2. SendsEnd(n)
      BY <1>2, <3>1 DEF Sends, SendsPacket
    <3>3. down' = down \o <<EOT>> /\ down \in Seq(Byte) /\ <<EOT>> \in Seq(Byte)
      <4>1. EOT \in Byte
        BY DEF Byte, EOT
      <4> QED
        BY <3>2, <4>1 DEF SendsEnd, LineTypeOK
    <3>4. ASSUME NEW j \in 1..Len(down') PROVE down'[j] \in {EOT, garbled}
      <4>1. \/ j \in 1..Len(down) /\ down'[j] = down[j]
            \/ \E i \in 1..Len(<<EOT>>) : down'[j] = <<EOT>>[i]
        BY <3>3, ConcatAt
      <4> QED
        BY <2>4, <4>1 DEF Ending
    <3>5. Ending'
      BY <1>1, <1>2, <1>3, <2>4, <3>1, <3>4 DEF Ending, Holds
    <3> QED
      BY <3>5 DEF Transfer
  <2>5. CASE Failing
    <3>1. Has(up', ACK) => n <= Len(blocks)
      BY <1>1, <2>5 DEF Failing
    <3> QED
      BY <1>1, <1>2, <2>5, <3>1, SendsFailing DEF Transfer
  <2> QED
    BY <2>1, <2>2, <2>3, <2>4, <2>5 DEF Transfer
<1>6. ASSUME loop = "shell" PROVE ShellOK'
  <2>1. ASSUME small PROVE ShellSmall'
    <3>1. /\ ShellSmall /\ n = 1 /\ m = 1 /\ Current(down, snd) /\ ~Has(down, EOT)
      BY <1>6, <2>1 DEF LineInv, ShellSmall
    <3>2. SendsPacket(n, m) /\ snd'.num = m
      <4>1. n <= Len(blocks)
        BY <3>1, SenderParts
      <4> QED
        BY <1>4, <4>1 DEF SendsPacket
    <3>3. Current(down', snd') /\ ~Has(down', EOT)
      BY <1>1, <3>1, <3>2, PacketUnderWay
    <3> QED
      BY <1>1, <1>2, <1>3, <3>1, <3>2, <3>3 DEF ShellSmall
  <2>2. ~small => ShellLarge'
    BY <1>6 DEF ShellLarge
  <2> QED
    BY <1>1, <2>1, <2>2 DEF ShellOK
<1> QED
  BY <1>1, <1>2, <1>5, <1>6, SendsStep

LEMMA ResendStep == ASSUME LineTypeOK, LineInv, SenderResends PROVE LineInv'
<1>1. /\ Waits /\ up = <<>> /\ send(snd.next, snd.num) /\ SameReceiver /\ up' = up
      /\ snd \in SenderState /\ snd.next \in Nat \ {0} /\ snd.num \in Nat
  BY SenderParts DEF SenderResends, receiver, SameReceiver, Waits
<1>2. Sends(snd.next, snd.num)
  BY <1>1, SendCases
<1>3. ~(loop = "shell" /\ ~small)
  BY <1>1 DEF LineInv, ShellLarge, LastIs
<1> QED
  BY <1>1, <1>2, <1>3, AgainStep, QuietSame

(* The sender saw its last packet, or the end, acknowledged.               *)
LEMMA DoneStep ==
  ASSUME LineTypeOK, LineInv, SameReceiver, Waits, snd.next > Len(blocks),
         up # <<>>, up' = Tail(up), Head(up) = ACK,
         snd' = [snd EXCEPT !.phase = "done"]
  PROVE  LineInv'
<1>1. /\ Quiet(up, up') /\ up \in Seq(Answer) /\ Has(up, ACK)
      /\ bd' = bd /\ flash' = flash /\ small' = small /\ loop' = loop /\ err' = err
  BY QuietTail, HasHead DEF LineTypeOK, SameReceiver
<1>2. snd'.img = snd.img /\ snd'.phase = "done"
  BY DEF LineTypeOK, SenderState
<1>3. Complete
  BY <1>1 DEF LineInv
<1>4. Complete' /\ loop' = "booted" /\ ~Waits'
  BY <1>1, <1>2, <1>3 DEF Complete, Holds, blocks, Waits
<1>5. OneImage' /\ (Whole(flash) => Whole(flash'))
  BY <1>1 DEF LineInv, OneImage, Holds, Whole
<1>6. /\ err' = 0 => loop' = "booted" /\ Whole(flash')
      /\ Once(up', ACK)
      /\ small' => ~Has(up', CAN) /\ snd'.phase # "stopped"
      /\ small' /\ bd' = 0 => \A b \in 1..Blocks : flash'[b] = Erased
  BY <1>1, <1>2, <1>5 DEF LineInv, Quiet
<1> QED
  BY <1>4, <1>5, <1>6 DEF LineInv

LEMMA StoppedStep ==
  ASSUME LineTypeOK, LineInv, SameReceiver, snd.phase \in {"starts", "waits"},
         up # <<>>, up' = Tail(up), Head(up) = CAN,
         snd' = [snd EXCEPT !.phase = "stopped"]
  PROVE  LineInv'
<1>1. /\ Quiet(up, up') /\ up \in Seq(Answer) /\ Has(up, CAN)
      /\ bd' = bd /\ flash' = flash /\ small' = small /\ loop' = loop /\ err' = err
  BY QuietTail, HasHead DEF LineTypeOK, SameReceiver
<1>2. snd'.phase = "stopped" /\ ~Waits'
  BY DEF LineTypeOK, SenderState, Waits
<1>3. loop # "transfer" /\ ~small
  BY <1>1 DEF LineInv
<1>4. OneImage' /\ (Whole(flash) => Whole(flash'))
  BY <1>1 DEF LineInv, OneImage, Holds, Whole
<1>5. loop = "shell" => ShellLarge'
  <2> SUFFICES ASSUME loop = "shell" PROVE ShellLarge'
    OBVIOUS
  <2>1. LastIs(up, CAN)
    BY <1>3 DEF LineInv, ShellLarge
  <2>2. LastIs(up', CAN) \/ up' = <<>>
    BY <1>1, <2>1, LastTail
  <2> QED
    BY <1>2, <2>2 DEF ShellLarge
<1>6. /\ err' = 0 => loop' = "booted" /\ Whole(flash')
      /\ Once(up', ACK)
      /\ loop' = "shell" => IF small' THEN ShellSmall' ELSE ShellLarge'
  BY <1>1, <1>3, <1>4, <1>5 DEF LineInv, Quiet
<1> QED
  BY <1>1, <1>2, <1>3, <1>4, <1>6 DEF LineInv

LEMMA SenderReadsStep == ASSUME LineTypeOK, LineInv, SenderReads PROVE LineInv'
<1>1. /\ up # <<>> /\ up' = Tail(up) /\ SameReceiver
      /\ up \in Seq(Answer) /\ Quiet(up, up')
  BY QuietTail DEF SenderReads, SameReceiver, LineTypeOK
<1>2. CASE snd.phase = "starts" /\ Head(up) = C /\ Sends(1, 1)
  BY <1>1, <1>2, FirstStep
<1>3. CASE /\ snd.phase = "waits" /\ Head(up) = ACK /\ snd.next > Len(blocks)
           /\ snd' = [snd EXCEPT !.phase = "done"] /\ down' = down
  BY <1>1, <1>3, DoneStep DEF Waits
<1>4. CASE /\ snd.phase = "waits" /\ Head(up) = ACK /\ snd.next <= Len(blocks)
           /\ Sends(snd.next + snd.size, snd.num + 1)
  BY <1>1, <1>4, NextStep DEF Waits
<1>5. CASE snd.phase = "waits" /\ Head(up) = NAK /\ Sends(snd.next, snd.num)
  <2>1. ASSUME loop = "shell", ~small PROVE LastIs(up', CAN)
    <3>1. LastIs(up, CAN)
      BY <1>1, <2>1 DEF LineInv, ShellLarge
    <3> QED
      BY <1>1, <1>5, <3>1, LastTail, Parameters
  <2> QED
    BY <1>1, <1>5, <2>1, AgainStep DEF Waits
<1>6. CASE /\ snd.phase \in {"starts", "waits"} /\ Head(up) = CAN
           /\ snd' = [snd EXCEPT !.phase = "stopped"] /\ down' = down
  BY <1>1, <1>6, StoppedStep
<1>7. CASE /\ snd' = snd /\ down' = down
           /\ snd.phase \in {"starts", "waits"} => Head(up) # CAN
  BY <1>1, <1>7, AnswerGone DEF SameReceiver, Waits
<1> QED
  BY <1>2, <1>3, <1>4, <1>5, <1>6, <1>7, SenderReadsCases

-----------------------------------------------------------------------------
(* A transfer starts.                                                      *)

LEMMA StartStep == ASSUME LineTypeOK, LineInv, Start PROVE LineInv'
<1>1. /\ loop = "shell" /\ loop' = "transfer" /\ bd' = 0 /\ err' = 1
      /\ small' = small /\ flash' = flash /\ down' = down /\ snd' = snd
      /\ up' = up \o <<C>> /\ (~small => down = <<>> /\ up = <<>>)
      /\ d'.state = "INIT" /\ d'.pktnum = 1
  BY DEF Start, sender, xmodem_start, putc
<1>2. Quiet(up, up')
  BY <1>1, AnswersQuiet
<1>3. /\ ~Has(up, ACK) /\ ~Has(up, CAN)
      /\ snd.phase # "done"
      /\ ~Waits => down = <<>>
      /\ Waits => /\ snd.next = 1 /\ snd.num = 1 /\ Current(down, snd)
                  /\ ~Has(down, EOT)
  <2>1. snd.phase # "done"
    BY <1>1 DEF LineInv, Complete
  <2>2. CASE small
    BY <1>1, <2>1, <2>2 DEF LineInv, ShellSmall
  <2>3. CASE ~small
    <3>1. ~LastIs(up, CAN)
      BY <1>1, <2>3 DEF LastIs
    <3>2. ~Waits
      BY <1>1, <2>3, <3>1 DEF LineInv, ShellLarge
    <3> QED
      BY <1>1, <2>1, <2>3, <3>2, HasNone
  <2> QED
    BY <2>2, <2>3
<1>4. ~Has(up', ACK) /\ ~Has(up', CAN) /\ Once(up', ACK)
  BY <1>2, <1>3 DEF Quiet, LineInv
<1>5. Transfer'
  <2>1. CASE Waits
    <3>1. d'.pktnum = snd'.num % Mod
      <4>1. 1 % Mod = 1
        BY Parameters
      <4> QED
        BY <1>1, <1>3, <2>1, <4>1
    <3>2. Waits' /\ snd'.next <= Len(blocks') /\ bd' + 1 = snd'.next
      <4>1. blocks' = blocks /\ 1 <= Len(blocks)
        BY <1>1, SenderParts DEF blocks
      <4> QED
        BY <1>1, <1>3, <2>1, <4>1 DEF Waits
    <3>3. Current(down', snd')
      BY <1>1, <1>3, <2>1
    <3>4. Expecting'
      BY <1>1, <1>3, <1>4, <2>1, <3>1, <3>2, <3>3 DEF Expecting, AtStart
    <3> QED
      BY <3>4 DEF Transfer
  <2>2. CASE ~Waits
    <3>1. snd.phase \in {"off", "starts", "stopped"}
      BY <1>3, <2>2, SenderParts DEF Waits, SenderState
    <3>2. Idle'
      BY <1>1, <1>3, <1>4, <2>2, <3>1 DEF Idle
    <3> QED
      BY <3>2 DEF Transfer
  <2> QED
    BY <2>1, <2>2
<1>6. OneImage'
  BY <1>1 DEF LineInv, OneImage, Holds
<1>7. small' => snd'.phase # "stopped" /\ \A b \in 1..Blocks : flash'[b] = Erased
  BY <1>1 DEF LineInv, ShellSmall
<1>8. Waits' /\ snd'.next <= Len(blocks') => snd'.size \in Sizes(snd')
  BY <1>1 DEF LineInv, Waits, blocks
<1> QED
  BY <1>1, <1>3, <1>4, <1>5, <1>6, <1>7, <1>8 DEF LineInv

(* The invariant holds at first and in every step.                         *)
LEMMA InitInv == PInit => LineInv
<1> SUFFICES ASSUME PInit PROVE LineInv
  OBVIOUS
<1>1. /\ err = -1 /\ loop = "shell" /\ down = <<>> /\ up = <<>> /\ snd.phase = "off" /\ bd = 0
      /\ \A b \in 1..Blocks : flash[b] = Erased
  BY DEF PInit, Init
<1>2. OneImage
  <2>1. /\ 1 \in DOMAIN Image /\ 0 \in 0..Len(Image[1])
    BY Parameters
  <2>2. Holds(flash, 1, 0)
    <3>1. \A b \in 1..Blocks : ~(b <= 0)
      BY Parameters
    <3> QED
      BY <1>1, <3>1 DEF Holds
  <2> QED
    BY <2>1, <2>2 DEF OneImage
<1>3. ~Has(up, ACK) /\ ~Has(up, CAN) /\ Once(up, ACK)
  BY <1>1 DEF Has, Once
<1>4. ~Waits
  BY <1>1 DEF Waits
<1>5. ShellSmall /\ ShellLarge
  BY <1>1, <1>3, <1>4 DEF ShellSmall, ShellLarge
<1> QED
  BY <1>1, <1>2, <1>3, <1>4, <1>5 DEF LineInv

LEMMA UnchangedStep == ASSUME LineTypeOK, LineInv, UNCHANGED vars PROVE LineInv'
<1>1. /\ UNCHANGED <<small, err, bd, flash, loop, snd>> /\ d' = d /\ down' = down /\ up' = up
  BY DEF vars, receiver
<1>2. Transfer => Transfer'
  BY <1>1 DEF Transfer, Idle, Expecting, AtStart, Acknowledged, Ending, Failing, Waits, blocks,
              Holds
<1>3. ShellOK => ShellOK'
  BY <1>1 DEF ShellOK, ShellSmall, ShellLarge, Waits
<1>4. (loop = "transfer" => Transfer') /\ (loop = "shell" => ShellOK')
  BY <1>2, <1>3 DEF LineInv, ShellOK
<1> QED
  BY <1>1, <1>4, LineStep, QuietSame

(* A small loader took a byte within a packet for the end.                 *)
Astray == small /\ mistaken

(* It remains so.                                                          *)
LEMMA StaysAstray ==
  ASSUME LineTypeOK, Astray, AnyStep
  PROVE  Astray'
<1>1. small' = small
  BY DEF AnyStep, Start, Receive, Silence, ShellInput, SenderReads, SenderResends, SendImage,
         Stall, LoseByte, LoseAnswer, GarbleByte, vars, receiver
<1>2. CASE Receive
  BY <1>2 DEF Receive, Astray, LineTypeOK
<1>3. CASE ~Receive
  <2>1. mistaken' = mistaken
    BY <1>3 DEF AnyStep, Start, Silence, ShellInput, SenderReads, SenderResends, SendImage,
                Stall, LoseByte, LoseAnswer, GarbleByte, vars
  <2> QED
    BY <1>1, <2>1 DEF Astray
<1> QED
  BY <1>1, <1>2, <1>3

LEMMA StepInv ==
  ASSUME LineTypeOK, Astray \/ LineInv, [PNext]_vars, [~LoseByte /\ ~Stall]_vars
  PROVE  (Astray \/ LineInv)'
<1>1. CASE UNCHANGED vars
  BY <1>1, UnchangedStep DEF vars, receiver, Astray
<1>2. CASE ~UNCHANGED vars /\ Astray
  BY <1>2, Steps, StaysAstray
<1>3. CASE ~UNCHANGED vars /\ LineInv
  <2>1. AnyStep /\ ~LoseByte /\ ~Stall
    BY <1>3, Steps
  <2> QED
    BY <1>3, <2>1, StartStep, ReceiveStep, SilenceStep, ShellInputStep, SenderReadsStep,
       ResendStep, SendImageStep, LoseAnswerStep, GarbleStep DEF AnyStep, Astray
<1> QED
  BY <1>1, <1>2, <1>3

-----------------------------------------------------------------------------
(* The theorems.                                                           *)

(* The line keeps the bytes of the sender and does not stall.              *)
LineKeepsUp == [][~LoseByte /\ ~Stall]_vars

LEMMA Invariant == PSpec /\ LineKeepsUp => [](LineTypeOK /\ (Astray \/ LineInv))
<1>1. PInit => LineTypeOK /\ (Astray \/ LineInv)
  BY InitType, InitInv
<1>2. /\ LineTypeOK /\ (Astray \/ LineInv)
      /\ [PNext]_vars /\ [~LoseByte /\ ~Stall]_vars
      => (LineTypeOK /\ (Astray \/ LineInv))'
  BY StepType, StepInv, Steps
<1> QED
  BY <1>1, <1>2, PTL DEF PSpec, LineKeepsUp

(* OneImage: whatever is garbled, sent twice, answered late or given up,   *)
(* and however often and with which images a transfer is begun again, the  *)
(* flash holds the beginning of one image and nothing else, as long as no  *)
(* small loader took a byte of data for the end                            *)
(* (main.c:167-183, xmodem.c:117-170).                                     *)
THEOREM NeverMixed == PSpec /\ LineKeepsUp => []((small /\ mistaken) \/ OneImage)
<1>1. Astray \/ LineInv => (small /\ mistaken) \/ OneImage
  BY DEF LineInv, Astray
<1> QED
  BY <1>1, Invariant, PTL

(* A transfer ends well only when the flash holds the whole of an image,   *)
(* or a small loader took a byte of data for the end; no other byte of a   *)
(* packet is taken for it (xmodem.c:96-111).                               *)
THEOREM EndsOnlyWhole ==
  PSpec /\ LineKeepsUp => []((small /\ mistaken) \/ (err = 0 => Whole(flash)))
<1>1. Astray \/ LineInv => (small /\ mistaken) \/ (err = 0 => Whole(flash))
  BY DEF LineInv, Astray
<1> QED
  BY <1>1, Invariant, PTL

(* EndsAtEnd: the large loader needs none of its exceptions on such a line *)
(* (xmodem.c:96-111).                                                      *)
THEOREM EndsAtTheEnd == PSpec /\ ~small /\ LineKeepsUp => EndsAtEnd
<1>1. ~small /\ [PNext]_vars => ~small'
  <2> SUFFICES ASSUME ~small, AnyStep PROVE ~small'
    BY Steps
  <2> QED
    BY DEF AnyStep, Start, Receive, Silence, ShellInput, SenderReads, SenderResends, SendImage,
           Stall, LoseByte, LoseAnswer, GarbleByte, vars, receiver
<1>2. (Astray \/ LineInv)' /\ ~small' => [loop = "transfer" /\ err' = 0 => Whole(flash')]_vars
  BY DEF LineInv, Astray
<1>3. [loop = "transfer" /\ err' = 0 => Whole(flash')]_vars =>
        [loop = "transfer" /\ err' = 0 =>
           \/ Whole(flash')
           \/ Head(down)[1] # "num"
           \/ /\ faults > 0
              /\ \E n \in {d.pktnum, d.pktnum - 1} : EOT \in {Num(n), Num(Mod - 1 - n)}
           \/ small /\ mistaken /\ bd = 0]_vars
  OBVIOUS
<1> QED
  BY <1>1, <1>2, <1>3, Invariant, PTL DEF PSpec, EndsAtEnd

(* DoneIsWhole: a sender that saw its image acknowledged to the end can    *)
(* rely on it, after any number of transfers, for as long as no small      *)
(* loader took a byte of data for the end                                  *)
(* (xmodem.c:144-170, main.c:167-183).                                     *)
THEOREM DoneMeansWhole == PSpec /\ LineKeepsUp => []DoneIsWhole
<1>1. Astray \/ LineInv => DoneIsWhole
  BY DEF LineInv, Complete, DoneIsWhole, Astray
<1> QED
  BY <1>1, Invariant, PTL
=============================================================================
