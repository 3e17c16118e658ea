-------------------------- MODULE ConnStream_proof --------------------------
(***************************************************************************)
(* Theorems about the bytes of a connection: for PDUs of any lengths and   *)
(* kernel buffers of any size, however they cut the stream.                *)
(***************************************************************************)
EXTENDS ConnStream, SequenceTheorems, TLAPS

Byte == Nat \X Nat

\* The n bytes t are those of the PDUs from first to last: with each byte the
\* rest of its PDU is there, and after the last byte of each the first of the next.
Whole(t, n, first, last) ==
  /\ \A i \in 1..n : LET k == t[i][1] IN
       /\ k \in first..last /\ t[i][2] \in 1..Size[k]
       /\ i + Size[k] <= n + t[i][2]
       /\ \A j \in i..n : j + t[i][2] <= i + Size[k] =>
            t[j][1] = k /\ t[j][2] = t[i][2] + (j - i)
       /\ \A j \in i..n : j + t[i][2] > i + Size[k] => t[j][1] > k
       /\ t[i][2] = Size[k] /\ i < n => t[i + 1][1] = k + 1 /\ t[i + 1][2] = 1
  /\ n = 0 => first = last + 1
  /\ n > 0 => /\ t[1][1] = first /\ t[1][2] = 1
              /\ t[n][1] = last /\ t[n][2] = Size[last]

\* The m bytes u are the n bytes t and then those of PDU k.
Extends(u, m, t, n, k) ==
  /\ m = n + Size[k]
  /\ \A i \in 1..n : u[i] = t[i]
  /\ \A i \in (n + 1)..m : u[i][1] = k /\ u[i][2] = i - n

\* The m bytes u are the last of the n bytes t, those after PDU k.
LeftOf(u, m, t, n, k) ==
  /\ m = n - Size[k]
  /\ \A i \in 1..m : u[i] = t[Size[k] + i]

-----------------------------------------------------------------------------
(* Sequences of bytes.                                                     *)

\* What is taken off the front of a sequence, and what is left.
LEMMA Cut ==
  ASSUME NEW s \in Seq(Byte), NEW n \in 0..Len(s)
  PROVE  /\ SubSeq(s, 1, n) \in Seq(Byte) /\ SubSeq(s, n + 1, Len(s)) \in Seq(Byte)
         /\ Len(SubSeq(s, 1, n)) = n /\ Len(SubSeq(s, n + 1, Len(s))) = Len(s) - n
         /\ \A i \in 1..(Len(s) - n) : SubSeq(s, n + 1, Len(s))[i] = s[n + i]
         /\ SubSeq(s, 1, n) \o SubSeq(s, n + 1, Len(s)) = s
<1>1. Len(s) \in Nat /\ n \in Int /\ n + 1 \in Int /\ Len(s) \in Int /\ \A i \in 1..Len(s) : s[i] \in Byte
  OBVIOUS
<1>2. PICK one \in Int : one = 1
  OBVIOUS
<1>3. SubSeq(s, one, n) \in Seq(Byte) /\ Len(SubSeq(s, one, n)) = IF one <= n THEN n - one + 1 ELSE 0
  <2>1. \A i \in one..n : s[i] \in Byte
    BY <1>1, <1>2
  <2> QED
    BY <1>1, <2>1, SubSeqProperties
<1>4. /\ SubSeq(s, n + 1, Len(s)) \in Seq(Byte)
      /\ Len(SubSeq(s, n + 1, Len(s))) = IF n + 1 <= Len(s) THEN Len(s) - (n + 1) + 1 ELSE 0
      /\ \A i \in 1..(Len(s) - (n + 1) + 1) : SubSeq(s, n + 1, Len(s))[i] = s[(n + 1) + i - 1]
  <2>1. \A i \in (n + 1)..Len(s) : s[i] \in Byte
    BY <1>1
  <2> QED
    BY <1>1, <2>1, SubSeqProperties
<1>5. \A i \in 1..(Len(s) - n) : SubSeq(s, n + 1, Len(s))[i] = s[n + i]
  <2> TAKE i \in 1..(Len(s) - n)
  <2>1. i \in 1..(Len(s) - (n + 1) + 1) /\ (n + 1) + i - 1 = n + i
    BY <1>1
  <2> QED
    BY <1>4, <2>1
<1>6. SubSeq(s, one, n) \o SubSeq(s, n + 1, Len(s)) = SubSeq(s, one, Len(s))
  <2>1. one \in 1..Len(s) + 1 /\ n \in one - 1..Len(s) /\ Len(s) \in n..Len(s)
    BY <1>1, <1>2
  <2> QED
    BY <2>1, ConcatAdjacentSubSeq
<1>7. SubSeq(s, 1, Len(s)) = s
  BY SubSeqFull
<1>8. Len(SubSeq(s, one, n)) = n /\ Len(SubSeq(s, n + 1, Len(s))) = Len(s) - n
  BY <1>1, <1>2, <1>3, <1>4
<1>9. SubSeq(s, 1, n) = SubSeq(s, one, n) /\ SubSeq(s, one, Len(s)) = s
  BY <1>2, <1>7
<1> QED
  BY <1>3, <1>4, <1>5, <1>6, <1>8, <1>9

LEMMA Three ==
  ASSUME NEW a \in Seq(Byte), NEW b \in Seq(Byte), NEW c \in Seq(Byte)
  PROVE  /\ a \o b \o c \in Seq(Byte) /\ Len(a \o b \o c) = Len(a) + Len(b) + Len(c)
         /\ a \o b \in Seq(Byte) /\ b \o c \in Seq(Byte)
         /\ (a \o b) \o c = a \o (b \o c)
         /\ Len(a) \in Nat /\ Len(b) \in Nat /\ Len(c) \in Nat
<1>1. a \o b \in Seq(Byte) /\ Len(a \o b) = Len(a) + Len(b) /\ b \o c \in Seq(Byte)
  BY ConcatProperties
<1>2. (a \o b) \o c \in Seq(Byte) /\ Len((a \o b) \o c) = Len(a \o b) + Len(c)
  BY <1>1, ConcatProperties
<1> QED
  BY <1>1, <1>2, ConcatAssociative

LEMMA Assoc ==
  \A x \in Seq(Byte), y \in Seq(Byte), z \in Seq(Byte) : (x \o y) \o z = x \o (y \o z)
BY Three

\* Without what else the provers know of sequences.
Cat(x, y) == x \o y
Stream == Seq(Byte)

LEMMA CatAssoc ==
  /\ \A x \in Stream, y \in Stream : Cat(x, y) \in Stream
  /\ \A x \in Stream, y \in Stream, z \in Stream : Cat(Cat(x, y), z) = Cat(x, Cat(y, z))
<1>1. ASSUME NEW x \in Seq(Byte), NEW y \in Seq(Byte)
      PROVE  x \o y \in Seq(Byte)
  BY Three
<1> QED
  BY <1>1, Assoc DEF Cat, Stream

\* Bytes moved on from the second to the first, those behind a third.
LEMMA MovedOn ==
  ASSUME NEW a \in Stream, NEW b \in Stream, NEW c \in Stream,
         NEW v \in Stream, NEW w \in Stream, Cat(v, w) = Cat(b, c)
  PROVE  Cat(Cat(a, v), w) = Cat(Cat(a, b), c)
BY CatAssoc

\* The same with bytes d put behind.
LEMMA PutBehind ==
  ASSUME NEW a \in Stream, NEW b \in Stream, NEW c \in Stream, NEW d \in Stream,
         NEW v \in Stream, NEW w \in Stream, Cat(v, w) = Cat(Cat(b, c), d)
  PROVE  Cat(Cat(a, v), w) = Cat(Cat(Cat(a, b), c), d)
BY CatAssoc

\* Bytes p taken off the front.
LEMMA TakenOff ==
  ASSUME NEW p \in Stream, NEW q \in Stream, NEW b \in Stream, NEW c \in Stream
  PROVE  Cat(Cat(Cat(p, q), b), c) = Cat(p, Cat(Cat(q, b), c))
BY CatAssoc

LEMMA BytesShape ==
  ASSUME NEW k \in 1..MaxPdus
  PROVE  /\ Bytes(k) \in Seq(Byte) /\ Len(Bytes(k)) = Size[k]
         /\ \A i \in 1..Size[k] : Bytes(k)[i] = <<k, i>>
         /\ Size[k] \in Nat /\ Size[k] >= HeaderLen /\ Size[k] >= 1
<1>1. Size[k] \in Nat /\ Size[k] >= HeaderLen /\ Size[k] >= 1 /\ k \in Nat
  BY StreamAssumption
<1>2. \A i \in 1..Size[k] : <<k, i>> \in Byte
  BY <1>1 DEF Byte
<1> QED
  BY <1>1, <1>2 DEF Bytes

-----------------------------------------------------------------------------
(* PDUs after each other.                                                  *)

\* Another PDU behind them.
LEMMA WholeAnd ==
  ASSUME NEW t, NEW u, NEW n \in Nat, NEW first \in Nat \ {0}, NEW last \in Nat, NEW k \in 1..MaxPdus,
         Whole(t, n, first, last), k = last + 1, NEW m \in Nat, Extends(u, m, t, n, k)
  PROVE  Whole(u, m, first, k)
<1>0. /\ m = n + Size[k]
      /\ \A i \in 1..n : u[i] = t[i]
      /\ \A i \in (n + 1)..m : u[i][1] = k /\ u[i][2] = i - n
  BY DEF Extends
<1>1. \A j \in 1..MaxPdus : Size[j] \in Nat /\ Size[j] >= 1
  BY StreamAssumption
<1>2. m > n /\ 1 \in 1..m /\ m \in (n + 1)..m
  BY <1>0, <1>1
<1>3. ASSUME NEW i \in 1..m, i <= n
      PROVE  LET p == u[i][1] IN
             /\ p \in first..k /\ u[i][2] \in 1..Size[p]
             /\ i + Size[p] <= m + u[i][2]
             /\ \A j \in i..m : j + u[i][2] <= i + Size[p] =>
                  u[j][1] = p /\ u[j][2] = u[i][2] + (j - i)
             /\ \A j \in i..m : j + u[i][2] > i + Size[p] => u[j][1] > p
             /\ u[i][2] = Size[p] /\ i < m => u[i + 1][1] = p + 1 /\ u[i + 1][2] = 1
  <2> DEFINE p == u[i][1]
             q == u[i][2]
  <2>1. i \in 1..n /\ u[i] = t[i]
    BY <1>0, <1>3
  <2>2. /\ p \in first..last /\ q \in 1..Size[p] /\ i + Size[p] <= n + q
        /\ \A j \in i..n : j + q > i + Size[p] => t[j][1] > p
        /\ \A j \in i..n : j + q <= i + Size[p] => t[j][1] = p /\ t[j][2] = q + (j - i)
        /\ q = Size[p] /\ i < n => t[i + 1][1] = p + 1 /\ t[i + 1][2] = 1
    BY <1>0, <2>1 DEF Whole
  <2>3. i = n => p = last
    BY <1>0, <2>1 DEF Whole
  <2> HIDE DEF p, q
  <2>4. Size[p] \in Nat /\ q \in Nat /\ p \in first..k /\ p < k
    <3>1. k \in Nat /\ MaxPdus \in Nat /\ last + 1 <= MaxPdus /\ last \in Nat
      BY StreamAssumption
    <3>2. p \in first..k /\ p < k /\ p \in 1..MaxPdus
      BY <1>0, <2>2, <3>1
    <3>3. Size[p] \in Nat
      BY <1>0, <1>1, <3>2
    <3> QED
      BY <1>0, <2>2, <3>2, <3>3
  <2>5. i + Size[p] <= m + q
    BY <1>0, <1>2, <2>2, <2>4
  <2>6. ASSUME NEW j \in i..m, j + q <= i + Size[p]
        PROVE  u[j][1] = p /\ u[j][2] = q + (j - i)
    <3>1. j \in i..n /\ j \in 1..n
      BY <1>0, <2>1, <2>2, <2>4, <2>6
    <3> QED
      BY <1>0, <2>2, <2>6, <3>1
  <2>7. ASSUME q = Size[p]
        PROVE  u[i + 1][1] = p + 1 /\ u[i + 1][2] = 1
    <3>1. CASE i < n
      <4>1. i + 1 \in 1..n
        BY <1>0, <2>1, <3>1
      <4> QED
        BY <1>0, <2>2, <2>7, <3>1, <4>1
    <3>2. CASE i = n
      <4>1. i + 1 \in (n + 1)..m /\ (i + 1) - n = 1
        BY <1>0, <1>2, <3>2
      <4>2. u[i + 1][1] = k /\ u[i + 1][2] = 1
        BY <1>0, <4>1
      <4> QED
        BY <1>0, <2>3, <3>2, <4>2
    <3> QED
      BY <1>0, <2>1, <3>1, <3>2
  <2>8. ASSUME NEW j \in i..m, j + q > i + Size[p]
        PROVE  u[j][1] > p
    <3>1. CASE j <= n
      <4>1. j \in i..n /\ j \in 1..n
        BY <1>0, <2>1, <3>1
      <4> QED
        BY <1>0, <2>2, <2>8, <4>1
    <3>2. CASE j > n
      <4>1. j \in (n + 1)..m
        BY <1>0, <3>2
      <4> QED
        BY <1>0, <2>4, <4>1
    <3> QED
      BY <1>0, <2>1, <3>1, <3>2
  <2> QED
    BY <1>0, <2>2, <2>4, <2>5, <2>6, <2>7, <2>8 DEF p, q
<1>4. ASSUME NEW i \in 1..m, i > n
      PROVE  LET p == u[i][1] IN
             /\ p \in first..k /\ u[i][2] \in 1..Size[p]
             /\ i + Size[p] <= m + u[i][2]
             /\ \A j \in i..m : j + u[i][2] <= i + Size[p] =>
                  u[j][1] = p /\ u[j][2] = u[i][2] + (j - i)
             /\ \A j \in i..m : j + u[i][2] > i + Size[p] => u[j][1] > p
             /\ u[i][2] = Size[p] /\ i < m => u[i + 1][1] = p + 1 /\ u[i + 1][2] = 1
  <2>1. i \in (n + 1)..m /\ Size[k] \in Nat
    BY <1>0, <1>1, <1>4
  <2>2. u[i][1] = k /\ u[i][2] = i - n
    BY <1>0, <2>1
  <2>3. /\ i - n \in 1..Size[k] /\ i + Size[k] = m + (i - n)
        /\ i - n = Size[k] => ~(i < m)
        /\ \A j \in i..m : ~(j + (i - n) > i + Size[k])
    BY <1>0, <2>1
  <2>4. ASSUME NEW j \in i..m
        PROVE  u[j][1] = k /\ u[j][2] = (i - n) + (j - i)
    <3>1. j \in (n + 1)..m /\ j - n = (i - n) + (j - i)
      BY <1>0, <2>1
    <3> QED
      BY <1>0, <3>1
  <2>5. k \in first..k
    <3>1. n = 0 => first = k
      BY DEF Whole
    <3>2. n > 0 => first \in first..last
      <4>1. n > 0 => 1 \in 1..n /\ t[1][1] = first
        BY DEF Whole
      <4> QED
        BY <1>0, <4>1 DEF Whole
    <3> QED
      BY <1>0, <3>1, <3>2
  <2> QED
    BY <1>0, <2>1, <2>2, <2>3, <2>4, <2>5
<1>5. u[1][1] = first /\ u[1][2] = 1
  <2>1. CASE n = 0
    <3>1. 1 \in (n + 1)..m /\ 1 - n = 1
      BY <1>0, <1>2, <2>1
    <3>2. first = k
      BY <1>0, <2>1 DEF Whole
    <3> QED
      BY <1>0, <3>1, <3>2
  <2>2. CASE n > 0
    <3>1. 1 \in 1..n
      BY <1>0, <2>2
    <3> QED
      BY <1>0, <2>2, <3>1 DEF Whole
  <2> QED
    BY <1>0, <2>1, <2>2
<1>6. u[m][1] = k /\ u[m][2] = Size[k]
  BY <1>0, <1>1, <1>2
<1> QED
  BY <1>0, <1>2, <1>3, <1>4, <1>5, <1>6 DEF Whole

\* The first PDU taken off.
LEMMA WholeButFirst ==
  ASSUME NEW t, NEW u, NEW n \in Nat, NEW first \in Nat \ {0}, NEW last \in 0..MaxPdus,
         Whole(t, n, first, last), n > 0, NEW m \in Int, LeftOf(u, m, t, n, first)
  PROVE  /\ first \in 1..last /\ m \in Nat
         /\ Whole(u, m, first + 1, last)
<1> DEFINE z == Size[first]
<1>0. m = n - z /\ \A i \in 1..m : u[i] = t[z + i]
  BY DEF LeftOf
<1>1. MaxPdus \in Nat /\ \A j \in 1..MaxPdus : Size[j] \in Nat /\ Size[j] >= 1
  BY StreamAssumption
<1>2. /\ 1 \in 1..n /\ t[1][1] = first /\ t[1][2] = 1 /\ first \in first..last
      /\ 1 + z <= n + 1
      /\ \A j \in 1..n : j + 1 <= 1 + z => t[j][1] = first /\ t[j][2] = 1 + (j - 1)
      /\ \A j \in 1..n : j + 1 > 1 + z => t[j][1] > first
  <2>1. 1 \in 1..n /\ t[1][1] = first /\ t[1][2] = 1
    BY DEF Whole
  <2>2. LET k == t[1][1] IN
        /\ k \in first..last
        /\ 1 + Size[k] <= n + t[1][2]
        /\ \A j \in 1..n : j + t[1][2] <= 1 + Size[k] =>
             t[j][1] = k /\ t[j][2] = t[1][2] + (j - 1)
        /\ \A j \in 1..n : j + t[1][2] > 1 + Size[k] => t[j][1] > k
    BY <1>0, <2>1 DEF Whole
  <2> QED
    BY <1>0, <2>1, <2>2
<1>3. first \in 1..last /\ z \in Nat /\ z >= 1 /\ m \in Nat /\ m = n - z /\ z \in 1..n
  BY <1>0, <1>1, <1>2
<1>4. t[z][1] = first /\ t[z][2] = z
  BY <1>0, <1>2, <1>3
<1> HIDE DEF z
<1>5. ASSUME NEW i \in 1..m
      PROVE  LET p == u[i][1] IN
             /\ p \in first + 1..last /\ u[i][2] \in 1..Size[p]
             /\ i + Size[p] <= m + u[i][2]
             /\ \A j \in i..m : j + u[i][2] <= i + Size[p] =>
                  u[j][1] = p /\ u[j][2] = u[i][2] + (j - i)
             /\ \A j \in i..m : j + u[i][2] > i + Size[p] => u[j][1] > p
             /\ u[i][2] = Size[p] /\ i < m => u[i + 1][1] = p + 1 /\ u[i + 1][2] = 1
  <2> DEFINE p == u[i][1]
             q == u[i][2]
             k == z + i
  <2>1. k \in 1..n /\ k + 1 > 1 + z /\ u[i] = t[k]
    BY <1>0, <1>3 DEF z
  <2>2. /\ p \in first..last /\ q \in 1..Size[p] /\ k + Size[p] <= n + q
        /\ \A j \in k..n : j + q > k + Size[p] => t[j][1] > p
        /\ \A j \in k..n : j + q <= k + Size[p] => t[j][1] = p /\ t[j][2] = q + (j - k)
        /\ q = Size[p] /\ k < n => t[k + 1][1] = p + 1 /\ t[k + 1][2] = 1
    BY <1>0, <2>1 DEF Whole
  <2>3. p > first
    BY <1>0, <1>2, <2>1
  <2> HIDE DEF p, q
  <2>4. Size[p] \in Nat /\ q \in Nat /\ p \in first + 1..last
    BY <1>0, <1>1, <1>3, <2>2, <2>3
  <2>5. i + Size[p] <= m + q
    BY <1>0, <1>3, <2>2, <2>4
  <2>6. ASSUME NEW j \in i..m
        PROVE  /\ j + q <= i + Size[p] => u[j][1] = p /\ u[j][2] = q + (j - i)
               /\ j + q > i + Size[p] => u[j][1] > p
    <3> DEFINE l == z + j
    <3>1. l \in k..n /\ l - k = j - i /\ u[j] = t[l]
      BY <1>0, <1>3 DEF z
    <3>2. (l + q <= k + Size[p] <=> j + q <= i + Size[p]) /\ (l + q > k + Size[p] <=> j + q > i + Size[p])
      BY <1>0, <1>3, <2>4
    <3> HIDE DEF l, k
    <3> QED
      BY <1>0, <2>2, <3>1, <3>2
  <2>7. ASSUME q = Size[p], i < m
        PROVE  u[i + 1][1] = p + 1 /\ u[i + 1][2] = 1
    <3>1. i + 1 \in 1..m /\ z + (i + 1) = k + 1 /\ k < n
      BY <1>0, <1>3, <2>7
    <3>2. u[i + 1] = t[z + (i + 1)]
      BY <1>0, <3>1 DEF z
    <3> HIDE DEF k
    <3> QED
      BY <1>0, <2>2, <2>7, <3>1, <3>2
  <2> QED
    BY <1>0, <2>2, <2>4, <2>5, <2>6, <2>7 DEF p, q
<1>6. CASE m = 0
  <2>1. n = z
    BY <1>0, <1>3, <1>6
  <2>3. t[n][1] = last
    BY DEF Whole
  <2>2. first = last
    BY <1>0, <1>4, <2>1, <2>3
  <2> QED
    BY <1>0, <1>3, <1>5, <1>6, <2>2 DEF Whole
<1>7. CASE m > 0
  <2>1. /\ 1 \in 1..m /\ m \in 1..m /\ z + m = n /\ z < n
    BY <1>0, <1>3, <1>7
  <2>2. t[z + 1][1] = first + 1 /\ t[z + 1][2] = 1
    BY <1>0, <1>3, <1>4, <2>1 DEF Whole, z
  <2>3. u[1] = t[z + 1] /\ u[m] = t[z + m]
    BY <1>0, <2>1 DEF z
  <2>4. t[n][1] = last /\ t[n][2] = Size[last]
    BY DEF Whole
  <2>5. u[1][1] = first + 1 /\ u[1][2] = 1 /\ u[m][1] = last /\ u[m][2] = Size[last]
    BY <1>0, <2>1, <2>2, <2>3, <2>4
  <2> QED
    BY <1>0, <1>3, <1>5, <1>7, <2>5 DEF Whole
<1> QED
  BY <1>0, <1>3, <1>6, <1>7

\* The same for sequences.
LEMMA WholeAppended ==
  ASSUME NEW t \in Seq(Byte), NEW first \in Nat \ {0}, NEW last \in Nat, last < MaxPdus,
         Whole(t, Len(t), first, last), NEW u, u = t \o Bytes(last + 1)
  PROVE  Whole(u, Len(u), first, last + 1)
<1> DEFINE k == last + 1
           n == Len(t)
           m == n + Size[k]
<1>1. k \in 1..MaxPdus /\ k = last + 1 /\ n \in Nat
  BY StreamAssumption
<1> HIDE DEF k
<1>2. /\ Bytes(k) \in Seq(Byte) /\ Len(Bytes(k)) = Size[k]
      /\ \A i \in 1..Size[k] : Bytes(k)[i] = <<k, i>>
      /\ Size[k] \in Nat
  BY <1>1, BytesShape
<1>3. /\ Len(t \o Bytes(k)) = m
      /\ \A i \in 1..m : (t \o Bytes(k))[i] = IF i <= n THEN t[i] ELSE Bytes(k)[i - n]
  <2>1. PICK b \in Seq(Byte) : b = Bytes(k)
    BY <1>2
  <2>2. /\ Len(t \o b) = Len(t) + Len(b)
        /\ \A i \in 1..Len(t) + Len(b) : (t \o b)[i] = IF i <= Len(t) THEN t[i] ELSE b[i - Len(t)]
    BY ConcatProperties
  <2>3. Len(b) = Size[k]
    BY <1>2, <2>1
  <2> QED
    BY <2>1, <2>2, <2>3
<1>4. u = t \o Bytes(k)
  BY <1>1
<1>5. Len(u) = m /\ \A i \in 1..m : u[i] = IF i <= n THEN t[i] ELSE Bytes(k)[i - n]
  BY <1>3, <1>4
<1> HIDE DEF n
<1>6. m \in Nat /\ m = n + Size[k]
  BY <1>1, <1>2
<1>7. \A i \in 1..n : u[i] = t[i]
  BY <1>1, <1>2, <1>5, <1>6
<1>8. \A i \in (n + 1)..m : u[i][1] = k /\ u[i][2] = i - n
  <2> TAKE i \in (n + 1)..m
  <2>1. i \in 1..m /\ ~(i <= n) /\ i - n \in 1..Size[k]
    BY <1>1, <1>2
  <2>2. PICK x \in Nat : x = i - n
    BY <2>1
  <2>3. u[i] = <<k, x>>
    BY <1>2, <1>5, <2>1, <2>2
  <2>4. <<k, x>>[1] = k /\ <<k, x>>[2] = x
    OBVIOUS
  <2> QED
    BY <2>2, <2>3, <2>4
<1>9. Whole(t, n, first, last)
  BY DEF n
<1> HIDE DEF m
<1>10. Whole(u, m, first, k)
  <2>1. k \in 1..MaxPdus /\ k = last + 1 /\ n \in Nat
    BY <1>1 DEF n
  <2>2. Extends(u, m, t, n, k)
    BY <1>6, <1>7, <1>8 DEF Extends
  <2> QED
    BY <1>6, <1>9, <2>1, <2>2, WholeAnd
<1> QED
  BY <1>1, <1>5, <1>10

LEMMA WholeTaken ==
  ASSUME NEW a \in Seq(Byte), NEW u \in Seq(Byte), NEW t, t = a \o u, t # <<>>,
         NEW first \in Nat \ {0}, NEW last \in 0..MaxPdus, Len(a) = Size[first],
         Whole(t, Len(t), first, last)
  PROVE  first \in 1..last /\ Whole(u, Len(u), first + 1, last)
<1> DEFINE n == Len(t)
           m == Len(u)
           z == Size[first]
<1>1. /\ t \in Seq(Byte) /\ n = z + m /\ m \in Nat /\ z \in Nat
      /\ \A i \in 1..n : t[i] = IF i <= z THEN a[i] ELSE u[i - z]
  <2>1. /\ a \o u \in Seq(Byte) /\ Len(a \o u) = Len(a) + Len(u)
        /\ \A i \in 1..Len(a) + Len(u) : (a \o u)[i] = IF i <= Len(a) THEN a[i] ELSE u[i - Len(a)]
    BY ConcatProperties
  <2>2. Len(a) = z /\ Len(a) \in Nat /\ Len(u) \in Nat
    OBVIOUS
  <2> QED
    BY <2>1, <2>2
<1>2. n \in Nat \ {0}
  BY <1>1, EmptySeq
<1>3. Whole(t, n, first, last)
  OBVIOUS
<1> HIDE DEF n, m
<1>4. \A i \in 1..m : u[i] = t[z + i]
  <2> TAKE i \in 1..m
  <2>1. z + i \in 1..n /\ ~(z + i <= z) /\ (z + i) - z = i
    BY <1>1
  <2> QED
    BY <1>1, <2>1
<1>5. m \in Int /\ m = n - Size[first] /\ n > 0 /\ n \in Nat
  BY <1>1, <1>2
<1>6. first \in 1..last /\ Whole(u, m, first + 1, last)
  <2>1. LeftOf(u, m, t, n, first)
    BY <1>4, <1>5 DEF LeftOf
  <2> QED
    BY <1>3, <1>5, <2>1, WholeButFirst
<1> QED
  BY <1>6 DEF m

-----------------------------------------------------------------------------
(* The inductive invariant: what is in the buffers is whole PDUs, the ones  *)
(* not handled, a queue has its event to come, also when the kernel is full,*)
(* and until the connection is confirmed nothing has left the sender, whose *)
(* socket is ready.                                                        *)

Types ==
  /\ confirmed \in BOOLEAN /\ busy \in BOOLEAN /\ noSpace \in BOOLEAN /\ ready \in BOOLEAN
  /\ reverse \in BOOLEAN /\ rready \in BOOLEAN /\ missed \in BOOLEAN
  /\ sent \in 0..MaxPdus
  /\ outBuf \in Seq(Byte) /\ wire \in Seq(Byte) /\ inBuf \in Seq(Byte)
  /\ Len(wire) <= Cap
  /\ busy <=> outBuf # <<>>
  /\ got \in Seq(Nat)

Flow ==
  /\ \A i \in 1..Len(got) : got[i] = i
  /\ Whole(InTransit, Len(InTransit), Len(got) + 1, sent)

Wakes ==
  /\ busy => noSpace \/ ready \/ missed
  /\ busy /\ Len(wire) = Cap => noSpace \/ missed

Connecting ==
  ~confirmed => ready /\ ~reverse /\ wire = <<>> /\ inBuf = <<>> /\ got = <<>>

StreamInv == Types /\ Flow /\ Wakes /\ Connecting

LEMMA InitInv == Init => StreamInv
<1> SUFFICES ASSUME Init
             PROVE  StreamInv
  OBVIOUS
<1>1. <<>> \in Seq(Byte) /\ Len(<<>>) = 0 /\ <<>> \in Seq(Nat)
  BY EmptySeq
<1>2. InTransit = <<>> /\ Len(InTransit) = 0
  <2>1. <<>> \o <<>> = <<>>
    BY <1>1, ConcatEmptySeq
  <2> QED
    BY <1>1, <2>1 DEF Init, InTransit
<1>3. Types
  <2>1. sent \in 0..MaxPdus /\ Len(wire) <= Cap
    BY <1>1, StreamAssumption DEF Init
  <2>2. outBuf \in Seq(Byte) /\ wire \in Seq(Byte) /\ inBuf \in Seq(Byte) /\ got \in Seq(Nat)
    BY <1>1 DEF Init
  <2> QED
    BY <2>1, <2>2 DEF Init, Types
<1>4. Flow
  BY <1>1, <1>2 DEF Init, Flow, Whole
<1> QED
  BY <1>3, <1>4 DEF Init, StreamInv, Wakes, Connecting

-----------------------------------------------------------------------------
(* What send() does to the bytes.                                          *)

LEMMA Taken ==
  ASSUME Types, NEW bytes \in Seq(Byte), NEW n \in 0..Len(bytes), KernelTakes(bytes, n),
         NEW rest, rest = SubSeq(bytes, n + 1, Len(bytes))
  PROVE  /\ wire' \in Seq(Byte) /\ Len(wire') <= Cap /\ rest \in Seq(Byte)
         /\ wire' \o rest = wire \o bytes
         /\ n < Len(bytes) <=> rest # <<>>
         /\ noSpace' \in BOOLEAN /\ rready' \in BOOLEAN
         /\ n < Len(bytes) => noSpace'
<1> DEFINE pre == SubSeq(bytes, 1, n)
<1>1. /\ pre \in Seq(Byte) /\ rest \in Seq(Byte)
      /\ Len(pre) = n /\ Len(rest) = Len(bytes) - n
      /\ pre \o rest = bytes
  BY Cut
<1>2. wire' = wire \o pre /\ wire \in Seq(Byte)
  BY DEF KernelTakes, Types
<1> HIDE DEF pre
<1>3. wire' \in Seq(Byte) /\ Len(wire') = Len(wire) + n
  BY <1>1, <1>2, ConcatProperties
<1>4. Len(wire) + n <= Cap
  <2>1. Len(wire) \in Nat /\ Len(bytes) \in Nat /\ Cap \in Nat /\ Len(wire) <= Cap
    BY <1>2, StreamAssumption DEF Types
  <2>2. n = Least(Len(bytes), Cap - Len(wire))
    BY DEF KernelTakes, Free
  <2> QED
    BY <2>1, <2>2 DEF Least
<1>5. wire' \o rest = wire \o bytes
  <2>1. pre \in Seq(Byte) /\ rest \in Seq(Byte) /\ wire \in Seq(Byte)
    BY <1>1, <1>2
  <2>2. (wire \o pre) \o rest = wire \o (pre \o rest)
    BY <2>1, Assoc, Zenon
  <2> QED
    BY <1>1, <1>2, <2>2
<1>6. n < Len(bytes) <=> rest # <<>>
  <2>1. rest = <<>> => Len(rest) = 0
    BY EmptySeq
  <2>2. rest # <<>> => Len(rest) \in Nat \ {0}
    BY <1>1, EmptySeq
  <2>3. Len(bytes) \in Nat
    OBVIOUS
  <2> QED
    BY <1>1, <2>1, <2>2, <2>3
<1>7. noSpace' = (noSpace \/ n < Len(bytes)) /\ rready' = (rready \/ n > 0)
  BY DEF KernelTakes
<1> QED
  BY <1>1, <1>3, <1>4, <1>5, <1>6, <1>7

LEMMA SendWires ==
  ASSUME Types, Send, NEW bytes, bytes = Bytes(sent + 1)
  PROVE  /\ sent \in Nat /\ sent < MaxPdus /\ bytes \in Seq(Byte)
         /\ wire' \in Seq(Byte) /\ Len(wire') <= Cap /\ outBuf' \in Seq(Byte)
         /\ wire' \o outBuf' = (wire \o outBuf) \o bytes
         /\ busy' <=> outBuf' # <<>>
         /\ busy' \in BOOLEAN /\ noSpace' \in BOOLEAN /\ rready' \in BOOLEAN
         /\ ~confirmed => wire' = wire
         /\ busy => wire' = wire /\ noSpace' = noSpace
         /\ ~busy /\ confirmed /\ busy' => noSpace'
<1>1. sent \in Nat /\ sent < MaxPdus /\ sent + 1 \in 1..MaxPdus
  <2>1. MaxPdus \in Nat /\ sent \in 0..MaxPdus /\ sent < MaxPdus
    BY StreamAssumption DEF Send, Types
  <2> QED
    BY <2>1
<1>2. bytes \in Seq(Byte) /\ Len(bytes) \in Nat \ {0}
  <2>1. PICK k \in 1..MaxPdus : k = sent + 1
    BY <1>1
  <2>2. Bytes(k) \in Seq(Byte) /\ Len(Bytes(k)) \in Nat \ {0}
    BY BytesShape
  <2> QED
    BY <2>1, <2>2
<1>3. /\ wire \in Seq(Byte) /\ outBuf \in Seq(Byte) /\ Len(wire) <= Cap
      /\ busy \in BOOLEAN /\ noSpace \in BOOLEAN /\ rready \in BOOLEAN
      /\ busy <=> outBuf # <<>>
  BY DEF Types
<1>4. CASE busy
  <2>1. outBuf' = outBuf \o bytes /\ busy' = busy /\ wire' = wire /\ rready' = rready /\ noSpace' = noSpace
    BY <1>4 DEF Send
  <2>2. outBuf' \in Seq(Byte) /\ Len(outBuf') = Len(outBuf) + Len(bytes)
    BY <1>2, <1>3, <2>1, ConcatProperties
  <2>3. Len(outBuf) \in Nat
    BY <1>3
  <2>4. Len(outBuf') # 0
    BY <1>2, <2>2, <2>3
  <2>5. outBuf' # <<>>
    BY <2>4, EmptySeq
  <2>6. (wire \o outBuf) \o bytes = wire \o (outBuf \o bytes)
    <3>1. wire \in Stream /\ outBuf \in Stream /\ bytes \in Stream
      BY <1>2, <1>3 DEF Stream
    <3>2. Cat(Cat(wire, outBuf), bytes) = Cat(wire, Cat(outBuf, bytes))
      BY <3>1, CatAssoc
    <3> QED
      BY <3>2 DEF Cat
  <2> QED
    BY <1>1, <1>2, <1>3, <1>4, <2>1, <2>2, <2>5, <2>6
<1>5. CASE ~busy
  <2>1. PICK n \in 0..Len(bytes) :
          /\ IF confirmed THEN KernelTakes(bytes, n)
             ELSE n = 0 /\ UNCHANGED <<wire, rready, noSpace>>
          /\ outBuf' = outBuf \o SubSeq(bytes, n + 1, Len(bytes))
          /\ busy' = (n < Len(bytes))
    BY <1>5 DEF Send
  <2>2. PICK rest : rest = SubSeq(bytes, n + 1, Len(bytes))
    OBVIOUS
  <2>3. outBuf = <<>> /\ rest \in Seq(Byte)
    BY <1>2, <1>3, <1>5, <2>2, Cut
  <2>4. outBuf' = rest /\ wire \o outBuf = wire
    BY <1>3, <2>1, <2>2, <2>3, ConcatEmptySeq
  <2>5. CASE confirmed
    <3>1. KernelTakes(bytes, n)
      BY <2>1, <2>5
    <3>2. /\ wire' \in Seq(Byte) /\ Len(wire') <= Cap /\ rest \in Seq(Byte)
          /\ wire' \o rest = wire \o bytes
          /\ n < Len(bytes) <=> rest # <<>>
          /\ noSpace' \in BOOLEAN /\ rready' \in BOOLEAN
          /\ n < Len(bytes) => noSpace'
      BY <1>2, <2>2, <3>1, Taken
    <3>3. busy' \in BOOLEAN /\ (busy' <=> n < Len(bytes))
      <4>1. CASE n < Len(bytes)
        BY <2>1, <4>1
      <4>2. CASE ~(n < Len(bytes))
        <5>1. (n < Len(bytes)) = FALSE
          BY <4>2
        <5>2. busy' = (n < Len(bytes))
          BY <2>1
        <5>3. busy' = FALSE
          BY <5>1, <5>2
        <5> QED
          BY <4>2, <5>3
      <4> QED
        BY <4>1, <4>2
    <3> QED
      BY <1>1, <1>2, <1>5, <2>4, <2>5, <3>2, <3>3
  <2>6. CASE ~confirmed
    <3>1. n = 0 /\ wire' = wire /\ rready' = rready /\ noSpace' = noSpace
      BY <2>1, <2>6
    <3>2. rest = bytes
      <4>1. n + 1 = 1
        BY <3>1
      <4>2. rest = SubSeq(bytes, 1, Len(bytes))
        BY <2>2, <4>1
      <4> QED
        BY <1>2, <4>2, SubSeqFull
    <3>3. busy' \in BOOLEAN /\ busy'
      <4>1. n < Len(bytes)
        BY <1>2, <3>1
      <4> QED
        BY <2>1, <4>1
    <3>4. bytes # <<>>
      BY <1>2, EmptySeq
    <3> QED
      BY <1>1, <1>2, <1>3, <1>5, <2>4, <2>6, <3>1, <3>2, <3>3, <3>4
  <2> QED
    BY <2>5, <2>6
<1> QED
  BY <1>3, <1>4, <1>5

LEMMA WriteWires ==
  ASSUME Types, OnWrite
  PROVE  /\ wire' \in Seq(Byte) /\ Len(wire') <= Cap /\ outBuf' \in Seq(Byte)
         /\ wire' \o outBuf' = wire \o outBuf
         /\ busy' <=> outBuf' # <<>>
         /\ busy' \in BOOLEAN /\ noSpace' \in BOOLEAN /\ rready' \in BOOLEAN
         /\ busy' => noSpace'
<1>1. /\ wire \in Seq(Byte) /\ outBuf \in Seq(Byte) /\ Len(wire) <= Cap
      /\ busy \in BOOLEAN /\ noSpace \in BOOLEAN /\ rready \in BOOLEAN
      /\ busy <=> outBuf # <<>>
  BY DEF Types
<1>2. CASE ~busy
  BY <1>1, <1>2 DEF OnWrite
<1>3. CASE busy
  <2>1. PICK bytes \in Seq(Byte) : bytes = outBuf
    BY <1>1
  <2>2. PICK n \in 0..Len(bytes) :
          /\ KernelTakes(bytes, n)
          /\ outBuf' = SubSeq(bytes, n + 1, Len(bytes))
          /\ busy' = (n < Len(bytes))
    BY <1>3, <2>1 DEF OnWrite
  <2>3. PICK rest : rest = SubSeq(bytes, n + 1, Len(bytes))
    OBVIOUS
  <2>4. /\ wire' \in Seq(Byte) /\ Len(wire') <= Cap /\ rest \in Seq(Byte)
        /\ wire' \o rest = wire \o bytes
        /\ n < Len(bytes) <=> rest # <<>>
        /\ noSpace' \in BOOLEAN /\ rready' \in BOOLEAN
        /\ n < Len(bytes) => noSpace'
    BY <2>2, <2>3, Taken
  <2>5. outBuf' = rest /\ busy' \in BOOLEAN /\ (busy' <=> n < Len(bytes))
    <3>1. CASE n < Len(bytes)
      BY <2>2, <2>3, <3>1
    <3>2. CASE ~(n < Len(bytes))
      <4>1. (n < Len(bytes)) = FALSE
        BY <3>2
      <4>2. busy' = (n < Len(bytes))
        BY <2>2
      <4>3. busy' = FALSE
        BY <4>1, <4>2
      <4> QED
        BY <2>2, <2>3, <3>2, <4>3
    <3> QED
      BY <3>1, <3>2
  <2> QED
    BY <2>1, <2>4, <2>5
<1> QED
  BY <1>1, <1>2, <1>3

-----------------------------------------------------------------------------
(* What is in transit, step by step.                                       *)

LEMMA SendFlow ==
  ASSUME Types, Flow, Send
  PROVE  Flow'
<1>1. PICK bytes : bytes = Bytes(sent + 1)
  OBVIOUS
<1>2. /\ sent \in Nat /\ sent < MaxPdus /\ bytes \in Seq(Byte)
      /\ wire' \in Seq(Byte) /\ outBuf' \in Seq(Byte)
      /\ wire' \o outBuf' = (wire \o outBuf) \o bytes
  BY <1>1, SendWires
<1>3. inBuf \in Seq(Byte) /\ wire \in Seq(Byte) /\ outBuf \in Seq(Byte) /\ got \in Seq(Nat)
  BY DEF Types
<1>4. inBuf' = inBuf /\ got' = got /\ sent' = sent + 1
  BY DEF Send
<1>5. PICK t \in Seq(Byte) : t = InTransit
  BY <1>3, Three DEF InTransit
<1>6. PICK a \in Seq(Byte), w \in Seq(Byte), o \in Seq(Byte) : a = inBuf /\ w = wire' /\ o = outBuf'
  BY <1>2, <1>3
<1>7. PICK b \in Seq(Byte), c \in Seq(Byte) : b = wire /\ c = outBuf
  BY <1>3
<1>8. PICK u : u = (a \o w) \o o
  OBVIOUS
<1>9. InTransit' = u /\ t = (a \o b) \o c
  BY <1>4, <1>5, <1>6, <1>7, <1>8 DEF InTransit
<1>10. u = t \o bytes
  <2>1. /\ a \in Stream /\ b \in Stream /\ c \in Stream /\ bytes \in Stream
        /\ w \in Stream /\ o \in Stream
    BY <1>2 DEF Stream
  <2>2. Cat(w, o) = Cat(Cat(b, c), bytes)
    BY <1>2, <1>6, <1>7 DEF Cat
  <2>3. Cat(Cat(a, w), o) = Cat(Cat(Cat(a, b), c), bytes)
    BY <2>1, <2>2, PutBehind
  <2> QED
    BY <1>8, <1>9, <2>3 DEF Cat
<1>11. PICK first \in Nat \ {0} : first = Len(got) + 1
  BY <1>3
<1>12. PICK last \in Nat : last = sent
  BY <1>2
<1>13. Whole(t, Len(t), first, last)
  BY <1>5, <1>11, <1>12 DEF Flow
<1>14. Whole(u, Len(u), first, last + 1)
  <2>1. u = t \o Bytes(last + 1) /\ last < MaxPdus
    BY <1>1, <1>2, <1>10, <1>12
  <2> QED
    BY <1>13, <2>1, WholeAppended
<1>15. first = Len(got') + 1 /\ last + 1 = sent'
  BY <1>4, <1>11, <1>12
<1>16. Whole(InTransit', Len(InTransit'), Len(got') + 1, sent')
  BY <1>9, <1>14, <1>15
<1>17. \A i \in 1..Len(got') : got'[i] = i
  BY <1>4 DEF Flow
<1> QED
  BY <1>16, <1>17 DEF Flow

\* A step that only moves bytes on.
LEMMA KeepsFlow ==
  ASSUME Flow, InTransit' = InTransit, got' = got, sent' = sent
  PROVE  Flow'
<1>1. Whole(InTransit', Len(InTransit'), Len(got') + 1, sent')
  BY DEF Flow
<1>2. \A i \in 1..Len(got') : got'[i] = i
  BY DEF Flow
<1> QED
  BY <1>1, <1>2 DEF Flow

LEMMA WriteFlow ==
  ASSUME Types, OnWrite, inBuf' = inBuf
  PROVE  InTransit' = InTransit
<1>1. inBuf \in Seq(Byte) /\ wire \in Seq(Byte) /\ outBuf \in Seq(Byte)
  BY DEF Types
<1>2. wire' \in Seq(Byte) /\ outBuf' \in Seq(Byte) /\ wire' \o outBuf' = wire \o outBuf
  BY WriteWires
<1>3. PICK a \in Seq(Byte), w \in Seq(Byte), o \in Seq(Byte) : a = inBuf /\ w = wire' /\ o = outBuf'
  BY <1>1, <1>2
<1>4. PICK b \in Seq(Byte), c \in Seq(Byte) : b = wire /\ c = outBuf
  BY <1>1
<1>5. w \o o = b \o c
  BY <1>2, <1>3, <1>4
<1>6. (a \o w) \o o = (a \o b) \o c
  <2>1. a \in Stream /\ b \in Stream /\ c \in Stream /\ w \in Stream /\ o \in Stream
    BY DEF Stream
  <2>2. Cat(w, o) = Cat(b, c)
    BY <1>5 DEF Cat
  <2>3. Cat(Cat(a, w), o) = Cat(Cat(a, b), c)
    BY <2>1, <2>2, MovedOn
  <2> QED
    BY <2>3 DEF Cat
<1>7. InTransit' = (a \o w) \o o /\ InTransit = (a \o b) \o c
  BY <1>3, <1>4 DEF InTransit
<1> QED
  BY <1>6, <1>7

LEMMA ReceiveWires ==
  ASSUME Types, Receive
  PROVE  /\ inBuf' \in Seq(Byte) /\ wire' \in Seq(Byte) /\ rready' \in BOOLEAN
         /\ Len(wire') < Len(wire) /\ wire # <<>>
         /\ InTransit' = InTransit
<1>1. PICK a \in Seq(Byte), b \in Seq(Byte), c \in Seq(Byte) : a = inBuf /\ b = wire /\ c = outBuf
  BY DEF Types
<1>2. PICK n \in 1..Len(b) :
        /\ inBuf' = a \o SubSeq(b, 1, n)
        /\ wire' = SubSeq(b, n + 1, Len(b))
        /\ rready' = (n < Len(b))
  BY <1>1 DEF Receive
<1>3. PICK p, q : p = SubSeq(b, 1, n) /\ q = SubSeq(b, n + 1, Len(b))
  OBVIOUS
<1>4. Len(b) \in Nat /\ n \in 0..Len(b)
  OBVIOUS
<1>5. p \in Seq(Byte) /\ q \in Seq(Byte) /\ Len(q) = Len(b) - n /\ p \o q = b
  BY <1>3, <1>4, Cut
<1>6. inBuf' = a \o p /\ wire' = q /\ outBuf' = c
  BY <1>1, <1>2, <1>3 DEF Receive
<1>7. (a \o p) \o q = a \o (p \o q)
  <2>1. a \in Stream /\ p \in Stream /\ q \in Stream
    BY <1>5 DEF Stream
  <2>2. Cat(Cat(a, p), q) = Cat(a, Cat(p, q))
    BY <2>1, CatAssoc
  <2> QED
    BY <2>2 DEF Cat
<1>8. InTransit' = ((a \o p) \o q) \o c /\ InTransit = (a \o b) \o c
  BY <1>1, <1>6 DEF InTransit
<1>9. a \o p \in Seq(Byte)
  BY <1>5, ConcatProperties
<1>10. rready' \in BOOLEAN
  <2>1. CASE n < Len(b)
    BY <1>2, <2>1
  <2>2. CASE ~(n < Len(b))
    <3>1. (n < Len(b)) = FALSE
      BY <2>2
    <3>2. rready' = (n < Len(b))
      BY <1>2
    <3> QED
      BY <3>1, <3>2
  <2> QED
    BY <2>1, <2>2
<1>11. Len(wire') < Len(wire) /\ wire # <<>>
  <2>1. Len(q) < Len(b) /\ Len(b) # 0
    BY <1>4, <1>5
  <2>2. b # <<>>
    BY <2>1, EmptySeq
  <2> QED
    BY <1>1, <1>6, <2>1, <2>2
<1> QED
  BY <1>5, <1>6, <1>7, <1>8, <1>9, <1>10, <1>11

\* The PDU that is complete is the first not handled yet.
LEMMA ReadFlow ==
  ASSUME Types, Flow, ReadPdu
  PROVE  /\ FirstPdu = Len(got) + 1 /\ FirstPdu \in 1..sent
         /\ inBuf' \in Seq(Byte) /\ got' \in Seq(Nat)
         /\ Flow'
<1>1. PICK a \in Seq(Byte), b \in Seq(Byte), c \in Seq(Byte), g \in Seq(Nat) :
        a = inBuf /\ b = wire /\ c = outBuf /\ g = got
  BY DEF Types
<1>2. PICK t \in Seq(Byte) : t = (a \o b) \o c
  BY Three
<1>3. PICK first \in Nat \ {0} : first = Len(g) + 1
  OBVIOUS
<1>4. PICK last \in 0..MaxPdus : last = sent
  BY DEF Types
<1>5. Whole(t, Len(t), first, last)
  BY <1>1, <1>2, <1>3, <1>4 DEF Flow, InTransit
<1>6. Len(a) \in Nat /\ Len(a) >= 1 /\ Len(t) \in Nat /\ Len(t) >= 1
  <2>1. Len(a) >= HeaderLen /\ HeaderLen \in Nat \ {0} /\ Len(a) \in Nat
    BY <1>1, StreamAssumption DEF ReadPdu, PduAvailable
  <2>2. Len(t) = Len(a) + Len(b) + Len(c) /\ Len(b) \in Nat /\ Len(c) \in Nat
    BY <1>2, Three
  <2> QED
    BY <2>1, <2>2
<1>7. t[1] = a[1]
  <2>1. t = a \o (b \o c) /\ b \o c \in Seq(Byte)
    <3>1. a \in Stream /\ b \in Stream /\ c \in Stream
      BY DEF Stream
    <3>2. Cat(Cat(a, b), c) = Cat(a, Cat(b, c)) /\ Cat(b, c) \in Stream
      BY <3>1, CatAssoc
    <3> QED
      BY <1>2, <3>2 DEF Cat, Stream
  <2>2. 1 \in 1..Len(a) + Len(b \o c) /\ 1 <= Len(a)
    BY <1>6, <2>1
  <2> QED
    BY <2>1, <2>2, ConcatProperties
<1>8. FirstPdu = first /\ first \in first..last
  <2>1. t[1][1] = first /\ 1 \in 1..Len(t)
    BY <1>5, <1>6 DEF Whole
  <2>2. t[1][1] \in first..last
    BY <1>5, <2>1 DEF Whole
  <2> QED
    BY <1>1, <1>7, <2>1, <2>2 DEF FirstPdu
<1>9. PICK z \in Nat : z = Size[first] /\ z <= Len(a)
  <2>1. first \in 1..MaxPdus
    BY <1>4, <1>8, StreamAssumption
  <2>2. Size[first] \in Nat
    BY <2>1, StreamAssumption
  <2>3. Len(a) >= Size[first]
    BY <1>1, <1>8 DEF ReadPdu, PduAvailable
  <2> QED
    BY <1>6, <2>2, <2>3
<1>10. PICK p, q : p = SubSeq(a, 1, z) /\ q = SubSeq(a, z + 1, Len(a))
  OBVIOUS
<1>11. p \in Seq(Byte) /\ q \in Seq(Byte) /\ Len(p) = z /\ p \o q = a
  <2>1. z \in 0..Len(a)
    BY <1>6, <1>9
  <2> QED
    BY <1>10, <2>1, Cut
<1>12. inBuf' = q /\ wire' = b /\ outBuf' = c /\ got' = Append(g, first) /\ sent' = last
  BY <1>1, <1>4, <1>8, <1>9, <1>10 DEF ReadPdu
<1>13. PICK u \in Seq(Byte) : u = (q \o b) \o c
  BY <1>11, Three
<1>14. t = p \o u
  <2>1. p \in Stream /\ q \in Stream /\ b \in Stream /\ c \in Stream
    BY <1>11 DEF Stream
  <2>2. Cat(Cat(Cat(p, q), b), c) = Cat(p, Cat(Cat(q, b), c))
    BY <2>1, TakenOff
  <2>3. ((p \o q) \o b) \o c = p \o ((q \o b) \o c)
    BY <2>2 DEF Cat
  <2> QED
    BY <1>2, <1>11, <1>13, <2>3
<1>15. first \in 1..last /\ Whole(u, Len(u), first + 1, last)
  <2>1. t # <<>>
    BY <1>6, EmptySeq
  <2>2. Len(p) = Size[first]
    BY <1>9, <1>11
  <2> QED
    BY <1>5, <1>11, <1>14, <2>1, <2>2, WholeTaken
<1>16. /\ got' \in Seq(Nat) /\ Len(got') = Len(g) + 1
       /\ \A i \in 1..Len(g) : got'[i] = g[i]
       /\ got'[Len(g) + 1] = first
  BY <1>12, AppendProperties
<1>17. \A i \in 1..Len(got') : got'[i] = i
  <2> TAKE i \in 1..Len(got')
  <2>1. i \in 1..Len(g) + 1 /\ Len(g) \in Nat
    BY <1>16
  <2>2. CASE i \in 1..Len(g)
    BY <1>1, <1>16, <2>2 DEF Flow
  <2>3. CASE i = Len(g) + 1
    BY <1>3, <1>16, <2>3
  <2> QED
    BY <2>1, <2>2, <2>3
<1>18. Whole(InTransit', Len(InTransit'), Len(got') + 1, sent')
  <2>1. InTransit' = u
    BY <1>12, <1>13 DEF InTransit
  <2>2. Len(got') + 1 = first + 1
    BY <1>3, <1>16
  <2> QED
    BY <1>12, <1>15, <2>1, <2>2
<1>19. Flow'
  BY <1>17, <1>18 DEF Flow
<1> QED
  BY <1>1, <1>3, <1>4, <1>8, <1>11, <1>12, <1>15, <1>16, <1>19

-----------------------------------------------------------------------------
(* The invariant, action by action.                                        *)

LEMMA SendInv == ASSUME StreamInv, Send PROVE StreamInv'
<1>1. /\ Types /\ Flow
      /\ busy => noSpace \/ ready \/ missed
      /\ busy /\ Len(wire) = Cap => noSpace \/ missed
      /\ Connecting
  BY DEF StreamInv, Wakes
<1>2. /\ sent \in Nat /\ sent < MaxPdus
      /\ wire' \in Seq(Byte) /\ Len(wire') <= Cap /\ outBuf' \in Seq(Byte)
      /\ busy' <=> outBuf' # <<>>
      /\ busy' \in BOOLEAN /\ noSpace' \in BOOLEAN /\ rready' \in BOOLEAN
      /\ ~confirmed => wire' = wire
      /\ busy => wire' = wire /\ noSpace' = noSpace
      /\ ~busy /\ confirmed /\ busy' => noSpace'
  BY <1>1, SendWires
<1>3. /\ confirmed' = confirmed /\ ready' = ready /\ reverse' = reverse /\ inBuf' = inBuf
      /\ got' = got /\ missed' = missed /\ sent' = sent + 1
      /\ busy => busy' = busy
  BY DEF Send
<1>4. Types'
  <2>1. sent' \in 0..MaxPdus
    BY <1>2, <1>3, StreamAssumption
  <2> QED
    BY <1>1, <1>2, <1>3, <2>1 DEF Types
<1>5. Flow'
  BY <1>1, SendFlow
<1>6. Connecting'
  BY <1>1, <1>2, <1>3 DEF Connecting
<1>7. busy' => noSpace' \/ ready' \/ missed'
  BY <1>1, <1>2, <1>3 DEF Connecting
<1>8. busy' /\ Len(wire') = Cap => noSpace' \/ missed'
  <2>1. CASE ~confirmed
    <3>1. wire' = <<>>
      BY <1>1, <1>2, <2>1 DEF Connecting
    <3>2. Len(wire') = 0 /\ Cap # 0
      BY <3>1, EmptySeq, StreamAssumption
    <3> QED
      BY <3>2
  <2>2. CASE confirmed
    BY <1>1, <1>2, <1>3, <2>2
  <2> QED
    BY <2>1, <2>2
<1>9. Wakes'
  BY <1>7, <1>8 DEF Wakes
<1> QED
  BY <1>4, <1>5, <1>6, <1>9 DEF StreamInv

LEMMA WriteInv == ASSUME StreamInv, SenderWrite PROVE StreamInv'
<1>1. Types /\ Flow /\ Wakes /\ Connecting
  BY DEF StreamInv
<1>2. /\ confirmed /\ confirmed' = confirmed /\ ready' = FALSE /\ reverse' = reverse
      /\ inBuf' = inBuf /\ got' = got /\ sent' = sent
  BY DEF SenderWrite
<1>3. Connecting'
  BY <1>2 DEF Connecting
<1>4. CASE Free > 0 /\ OnWrite /\ missed' = FALSE
  <2>1. /\ wire' \in Seq(Byte) /\ Len(wire') <= Cap /\ outBuf' \in Seq(Byte)
        /\ busy' <=> outBuf' # <<>>
        /\ busy' \in BOOLEAN /\ noSpace' \in BOOLEAN /\ rready' \in BOOLEAN
        /\ busy' => noSpace'
    BY <1>1, <1>4, WriteWires
  <2>2. Types'
    BY <1>1, <1>2, <1>4, <2>1 DEF Types
  <2>3. Flow'
    BY <1>1, <1>2, <1>4, KeepsFlow, WriteFlow
  <2>4. Wakes'
    BY <2>1 DEF Wakes
  <2> QED
    BY <1>3, <2>2, <2>3, <2>4 DEF StreamInv
<1>5. CASE Free = 0 /\ UNCHANGED <<busy, outBuf, wire, rready, noSpace, missed>>
  <2>1. /\ busy' = busy /\ outBuf' = outBuf /\ wire' = wire /\ rready' = rready
        /\ noSpace' = noSpace /\ missed' = missed
    BY <1>5
  <2>2. Types'
    BY <1>1, <1>2, <2>1 DEF Types
  <2>3. InTransit' = InTransit
    BY <1>2, <2>1 DEF InTransit
  <2>4. Flow'
    BY <1>1, <1>2, <2>3, KeepsFlow
  <2>5. Len(wire) = Cap
    <3>1. Len(wire) \in Nat /\ Cap \in Nat
      BY <1>1, StreamAssumption DEF Types
    <3> QED
      BY <1>5, <3>1 DEF Free
  <2>6. Wakes'
    BY <1>1, <2>1, <2>5 DEF Wakes
  <2> QED
    BY <1>3, <2>2, <2>4, <2>6 DEF StreamInv
<1> QED
  BY <1>4, <1>5 DEF SenderWrite

LEMMA ReceiveInv == ASSUME StreamInv, Receive PROVE StreamInv'
<1>1. Types /\ Flow /\ Wakes /\ Connecting
  BY DEF StreamInv
<1>2. /\ inBuf' \in Seq(Byte) /\ wire' \in Seq(Byte) /\ rready' \in BOOLEAN
      /\ Len(wire') < Len(wire) /\ wire # <<>> /\ InTransit' = InTransit
  BY <1>1, ReceiveWires
<1>3. /\ noSpace' = FALSE /\ ready' = (ready \/ noSpace)
      /\ confirmed' = confirmed /\ sent' = sent /\ busy' = busy /\ outBuf' = outBuf
      /\ reverse' = reverse /\ got' = got /\ missed' = missed
  BY DEF Receive
<1>4. Len(wire') < Cap /\ Len(wire') \in Nat
  <2>1. Len(wire) <= Cap /\ Len(wire) \in Nat /\ Cap \in Nat /\ Len(wire') \in Nat
    BY <1>1, <1>2, StreamAssumption DEF Types
  <2> QED
    BY <1>2, <2>1
<1>5. ready' \in BOOLEAN
  BY <1>1, <1>3 DEF Types
<1>6. Types'
  <2>1. Len(wire') <= Cap
    BY <1>4, StreamAssumption
  <2> QED
    BY <1>1, <1>2, <1>3, <1>5, <2>1 DEF Types
<1>7. Flow'
  BY <1>1, <1>2, <1>3, KeepsFlow
<1>8. Wakes'
  <2>1. Len(wire') # Cap
    BY <1>4, StreamAssumption
  <2>2. busy' => ready' \/ missed'
    BY <1>1, <1>3 DEF Wakes
  <2> QED
    BY <2>1, <2>2 DEF Wakes
<1>9. Connecting'
  BY <1>1, <1>2, <1>3 DEF Connecting
<1> QED
  BY <1>6, <1>7, <1>8, <1>9 DEF StreamInv

LEMMA ReadInv == ASSUME StreamInv, ReadPdu PROVE StreamInv'
<1>1. Types /\ Flow /\ Wakes /\ Connecting
  BY DEF StreamInv
<1>2. inBuf' \in Seq(Byte) /\ got' \in Seq(Nat) /\ Flow'
  BY <1>1, ReadFlow
<1>3. /\ confirmed' = confirmed /\ sent' = sent /\ busy' = busy /\ outBuf' = outBuf
      /\ wire' = wire /\ noSpace' = noSpace /\ ready' = ready /\ reverse' = reverse
      /\ rready' = rready /\ missed' = missed
  BY DEF ReadPdu
<1>4. Types'
  BY <1>1, <1>2, <1>3 DEF Types
<1>5. Wakes'
  BY <1>1, <1>3 DEF Wakes
<1>6. confirmed
  <2>1. inBuf # <<>>
    <3>1. Len(inBuf) >= HeaderLen /\ HeaderLen \in Nat \ {0}
      BY StreamAssumption DEF ReadPdu, PduAvailable
    <3>2. Len(inBuf) # 0
      BY <3>1
    <3> QED
      BY <3>2, EmptySeq
  <2> QED
    BY <1>1, <2>1 DEF Connecting
<1>7. Connecting'
  BY <1>3, <1>6 DEF Connecting
<1> QED
  BY <1>2, <1>4, <1>5, <1>7 DEF StreamInv

\* SenderRead, SenderConfirm and ReverseData move no bytes.
LEMMA EventInv ==
  ASSUME StreamInv, SenderRead \/ SenderConfirm \/ ReverseData
  PROVE  StreamInv'
<1>1. Types /\ Flow /\ Wakes /\ Connecting
  BY DEF StreamInv
<1>2. /\ sent' = sent /\ busy' = busy /\ outBuf' = outBuf /\ wire' = wire /\ noSpace' = noSpace
      /\ rready' = rready /\ inBuf' = inBuf /\ got' = got
  BY DEF SenderRead, SenderConfirm, ReverseData
<1>3. Flow'
  <2>1. InTransit' = InTransit
    BY <1>2 DEF InTransit
  <2> QED
    BY <1>1, <1>2, <2>1, KeepsFlow
<1>4. /\ confirmed' \in BOOLEAN /\ ready' \in BOOLEAN /\ reverse' \in BOOLEAN /\ missed' \in BOOLEAN
  BY <1>1 DEF Types, SenderRead, SenderConfirm, ReverseData
<1>5. Types'
  BY <1>1, <1>2, <1>4 DEF Types
<1>6. CASE SenderRead
  <2>1. /\ reverse /\ confirmed' = confirmed
        /\ missed' = (missed \/ (busy /\ Free > 0))
    BY <1>6 DEF SenderRead
  <2>2. Connecting'
    BY <1>1, <2>1 DEF Connecting
  <2>3. busy => noSpace \/ missed'
    <3>1. Len(wire) = Cap \/ Free > 0
      <4>1. Len(wire) \in Nat /\ Cap \in Nat /\ Len(wire) <= Cap
        BY <1>1, StreamAssumption DEF Types
      <4> QED
        BY <4>1 DEF Free
    <3>2. CASE Len(wire) = Cap
      BY <1>1, <2>1, <3>2 DEF Wakes
    <3>3. CASE Free > 0
      BY <2>1, <3>3
    <3> QED
      BY <3>1, <3>2, <3>3
  <2>4. Wakes'
    BY <1>2, <2>3 DEF Wakes
  <2> QED
    BY <1>3, <1>5, <2>2, <2>4 DEF StreamInv
<1>7. CASE SenderConfirm
  <2>1. confirmed' = TRUE /\ missed' = busy
    BY <1>7 DEF SenderConfirm
  <2>2. Connecting' /\ Wakes'
    BY <1>2, <2>1 DEF Connecting, Wakes
  <2> QED
    BY <1>3, <1>5, <2>2 DEF StreamInv
<1>8. CASE ReverseData
  <2>1. got # <<>> /\ confirmed' = confirmed /\ missed' = missed /\ ready' = TRUE
    BY <1>8 DEF ReverseData
  <2>2. Connecting' /\ Wakes'
    BY <1>1, <1>2, <2>1 DEF Connecting, Wakes
  <2> QED
    BY <1>3, <1>5, <2>2 DEF StreamInv
<1> QED
  BY <1>6, <1>7, <1>8

LEMMA StepInv == StreamInv /\ [Next]_vars => StreamInv'
<1> SUFFICES ASSUME StreamInv, [Next]_vars
             PROVE  StreamInv'
  OBVIOUS
<1>1. CASE Send
  BY <1>1, SendInv
<1>2. CASE SenderRead \/ SenderConfirm \/ ReverseData
  BY <1>2, EventInv
<1>3. CASE SenderWrite
  BY <1>3, WriteInv
<1>4. CASE Receive
  BY <1>4, ReceiveInv
<1>5. CASE ReadPdu
  BY <1>5, ReadInv
<1>6. CASE UNCHANGED vars
  <2>1. InTransit' = InTransit
    BY <1>6 DEF vars, InTransit
  <2>2. Types' /\ Wakes' /\ Connecting'
    BY <1>6 DEF StreamInv, Types, Wakes, Connecting, vars
  <2>3. Flow'
    BY <1>6, <2>1, KeepsFlow DEF StreamInv, vars
  <2> QED
    BY <2>2, <2>3 DEF StreamInv
<1> QED
  BY <1>1, <1>2, <1>3, <1>4, <1>5, <1>6 DEF Next

\* The strengthened invariant holds of every state.
THEOREM StreamInvariant == Spec => []StreamInv
BY InitInv, StepInv, PTL DEF Spec

\* Types; m_busy says whether m_out_buf holds anything; and nothing is handled
\* that was not sent (Send(), OnWrite() and OnRead() of imconn.cpp).
THEOREM StreamTypes == Spec => []TypeOK
<1>1. StreamInv => TypeOK
  <2> SUFFICES ASSUME StreamInv
               PROVE  TypeOK
    OBVIOUS
  <2>1. Types /\ Flow
    BY DEF StreamInv
  <2>2. Len(got) <= sent
    <3>1. PICK n \in Nat, last \in Nat, l \in Nat :
            n = Len(InTransit) /\ last = sent /\ l = Len(got)
      <4>1. Len(InTransit) \in Nat
        BY <2>1, Three DEF Types, InTransit
      <4>2. sent \in Nat /\ Len(got) \in Nat
        BY <2>1, StreamAssumption DEF Types
      <4> QED
        BY <4>1, <4>2
    <3>2. PICK t : t = InTransit
      OBVIOUS
    <3>3. Whole(t, n, l + 1, last)
      BY <2>1, <3>1, <3>2 DEF Flow
    <3>4. CASE n = 0
      <4>1. l + 1 = last + 1
        BY <3>3, <3>4 DEF Whole
      <4> QED
        BY <3>1, <4>1
    <3>5. CASE n > 0
      <4>1. 1 \in 1..n /\ t[1][1] = l + 1
        BY <3>3, <3>5 DEF Whole
      <4>2. t[1][1] \in (l + 1)..last
        BY <3>3, <4>1 DEF Whole
      <4> QED
        BY <3>1, <4>1, <4>2
    <3> QED
      BY <3>1, <3>4, <3>5
  <2>3. \A i \in 1..Len(got) : got[i] \in 1..sent
    <3>1. Len(got) \in Nat /\ sent \in Nat
      BY <2>1, StreamAssumption DEF Types
    <3> QED
      BY <2>1, <2>2, <3>1 DEF Flow
  <2> QED
    BY <2>1, <2>3 DEF TypeOK, Types
<1> QED
  BY <1>1, StreamInvariant, PTL

\* No byte is lost, repeated or overtaken between Send() and ReadPdu(), however
\* send() and recv() cut the stream (m_busy and m_out_buf of imconn.cpp).
THEOREM StreamIntactHolds == Spec => []StreamIntact
<1>1. StreamInv => StreamIntact
  <2> SUFFICES ASSUME StreamInv
               PROVE  StreamIntact
    OBVIOUS
  <2>1. Types /\ Flow
    BY DEF StreamInv
  <2>2. PICK t \in Seq(Byte) : t = InTransit
    BY <2>1, Three DEF Types, InTransit
  <2>3. PICK n \in Nat, last \in Nat, l \in Nat : n = Len(t) /\ last = sent /\ l = Len(got)
    <3>1. sent \in Nat /\ Len(got) \in Nat /\ Len(t) \in Nat
      BY <2>1, StreamAssumption DEF Types
    <3> QED
      BY <3>1
  <2>4. Whole(t, n, l + 1, last)
    BY <2>1, <2>2, <2>3 DEF Flow
  <2>5. \A i \in 1..n : t[i] = <<t[i][1], t[i][2]>>
    <3> TAKE i \in 1..n
    <3>1. t[i] \in Nat \X Nat
      BY <2>3 DEF Byte
    <3> QED
      BY <3>1
  <2>6. CASE n = 0
    <3>1. t = <<>>
      BY <2>3, <2>6, EmptySeq
    <3>2. l + 1 = last + 1
      BY <2>4, <2>6 DEF Whole
    <3>3. Len(got) = sent
      BY <2>3, <3>2
    <3> QED
      BY <2>1, <2>2, <3>1, <3>3 DEF StreamIntact, Flow
  <2>7. CASE n > 0
    <3>1. 1 \in 1..n /\ n \in 1..n
      BY <2>7
    <3>2. t[1][1] = l + 1 /\ t[1][2] = 1 /\ t[n][1] = last /\ t[n][2] = Size[last]
      BY <2>4, <2>7 DEF Whole
    <3>3. t[1] = <<l + 1, 1>> /\ t[n] = <<last, Size[last]>>
      BY <2>5, <3>1, <3>2
    <3>4. \A i \in 2..n : t[i] = NextByte(t[i - 1])
      <4> TAKE i \in 2..n
      <4>1. PICK j \in 1..n : j = i - 1 /\ j < n /\ j + 1 \in 1..n /\ j + 1 = i
        BY <3>1
      <4> DEFINE k == t[j][1]
                 q == t[j][2]
      <4>2. /\ k \in (l + 1)..last /\ q \in 1..Size[k]
            /\ \A h \in j..n : h + q <= j + Size[k] => t[h][1] = k /\ t[h][2] = q + (h - j)
            /\ q = Size[k] /\ j < n => t[j + 1][1] = k + 1 /\ t[j + 1][2] = 1
        BY <2>4 DEF Whole
      <4>3. Size[k] \in Nat /\ q \in Nat
        <5>1. k \in 1..MaxPdus
          <6>1. last <= MaxPdus /\ MaxPdus \in Nat
            BY <2>1, <2>3, StreamAssumption DEF Types
          <6> QED
            BY <4>2, <6>1
        <5> QED
          BY <4>2, <5>1, StreamAssumption
      <4>4. NextByte(t[j]) = IF q < Size[k] THEN <<k, q + 1>> ELSE <<k + 1, 1>>
        BY DEF NextByte
      <4>5. t[j + 1] = <<t[j + 1][1], t[j + 1][2]>>
        BY <2>5, <4>1
      <4> HIDE DEF k, q
      <4>6. CASE q < Size[k]
        <5>1. j + 1 \in j..n /\ (j + 1) + q <= j + Size[k] /\ q + ((j + 1) - j) = q + 1
          BY <4>1, <4>3, <4>6
        <5>2. t[j + 1][1] = k /\ t[j + 1][2] = q + 1
          BY <4>2, <5>1
        <5> QED
          BY <4>1, <4>4, <4>5, <4>6, <5>2
      <4>7. CASE ~(q < Size[k])
        <5>1. q = Size[k]
          BY <4>2, <4>3, <4>7
        <5>2. t[j + 1][1] = k + 1 /\ t[j + 1][2] = 1
          BY <4>1, <4>2, <5>1
        <5> QED
          BY <4>1, <4>4, <4>5, <4>7, <5>2
      <4> QED
        BY <4>6, <4>7
    <3>5. t # <<>>
      <4>1. Len(t) # 0
        BY <2>3, <2>7
      <4> QED
        BY <4>1, EmptySeq
    <3>6. /\ InTransit[1] = <<Len(got) + 1, 1>>
          /\ InTransit[Len(InTransit)] = <<sent, Size[sent]>>
          /\ \A i \in 2..Len(InTransit) : InTransit[i] = NextByte(InTransit[i - 1])
          /\ InTransit # <<>>
      BY <2>2, <2>3, <3>3, <3>4, <3>5
    <3>7. \A i \in 1..Len(got) : got[i] = i
      BY <2>1 DEF Flow
    <3> HIDE DEF InTransit
    <3> QED
      BY <3>6, <3>7 DEF StreamIntact
  <2> QED
    BY <2>6, <2>7
<1> QED
  BY <1>1, StreamInvariant, PTL

\* A queue in m_out_buf has an event to come that flushes it, unless one was
\* reported and OnWrite() not called (the kernel buffer may be full, the
\* connection not confirmed, data come the other way at any moment).
THEOREM WakeupPendingHolds == Spec => []WakeupPending
<1>1. StreamInv => WakeupPending
  BY DEF StreamInv, Wakes, WakeupPending
<1> QED
  BY <1>1, StreamInvariant, PTL

\* Every step is one of the abstract channel, or none: a PDU is put by Send(),
\* and ReadPdu() takes the one whose turn it is.
THEOREM StreamImplementsChannel == Spec => Chan!ChanSafety
<1>1. Init => Chan!ChanInit
  BY DEF Init, Chan!ChanInit
<1>2. StreamInv /\ [Next]_vars => [Chan!Put \/ Chan!Take]_Chan!chanVars
  <2> SUFFICES ASSUME StreamInv, [Next]_vars
               PROVE  [Chan!Put \/ Chan!Take]_Chan!chanVars
    OBVIOUS
  <2>1. CASE Send
    BY <2>1 DEF Send, Chan!Put
  <2>2. CASE ReadPdu
    <3>1. Types /\ Flow
      BY DEF StreamInv
    <3>2. PICK g \in Seq(Nat) : g = got
      BY <3>1 DEF Types
    <3>3. PICK n \in Nat : n = Len(g) + 1
      OBVIOUS
    <3>4. FirstPdu = n /\ n \in 1..sent
      BY <2>2, <3>1, <3>2, <3>3, ReadFlow
    <3>5. got' = Append(g, n) /\ sent' = sent
      BY <2>2, <3>2, <3>4 DEF ReadPdu
    <3>6. Append(g, n) = [i \in 1..n |-> i]
      <4>1. /\ Append(g, n) \in Seq(Nat) /\ Len(Append(g, n)) = n
            /\ \A i \in 1..Len(g) : Append(g, n)[i] = g[i]
            /\ Append(g, n)[n] = n
        BY <3>3, AppendProperties
      <4>2. \A i \in 1..n : Append(g, n)[i] = i
        <5>1. \A i \in 1..Len(g) : g[i] = i
          BY <3>1, <3>2 DEF Flow
        <5>2. \A i \in 1..n : i \in 1..Len(g) \/ i = n
          BY <3>3
        <5> QED
          BY <4>1, <5>1, <5>2
      <4>3. PICK s : s = Append(g, n)
        OBVIOUS
      <4>4. s \in Seq(Nat) /\ Len(s) = n /\ \A i \in 1..n : s[i] = i
        BY <4>1, <4>2, <4>3
      <4>5. s = [i \in 1..n |-> s[i]]
        BY <4>4
      <4> QED
        BY <4>3, <4>4, <4>5
    <3>7. n \in (Len(got) + 1)..sent
      BY <3>2, <3>3, <3>4
    <3> QED
      BY <3>5, <3>6, <3>7 DEF Chan!Take
  <2>3. CASE SenderRead \/ SenderConfirm \/ SenderWrite \/ ReverseData \/ Receive \/ UNCHANGED vars
    BY <2>3 DEF SenderRead, SenderConfirm, SenderWrite, ReverseData, Receive, vars, Chan!chanVars
  <2> QED
    BY <2>1, <2>2, <2>3 DEF Next
<1> QED
  BY <1>1, <1>2, StreamInvariant, PTL DEF Spec, Chan!ChanSafety
=============================================================================
