---------------------------- MODULE Codec_proof -----------------------------
(***************************************************************************)
(* Theorems about bytes: for any number of values of a byte from four on,  *)
(* any PDUs and any cuts of their stream, and any items and any length of  *)
(* the buffer they are written to.                                         *)
(***************************************************************************)
EXTENDS PduCodec, FixedStream, SequenceTheorems, TLAPS

-----------------------------------------------------------------------------
(* Powers, quotients and remainders.                                       *)

LEMMA BaseFacts == Base \in Nat /\ Base > 1 /\ Base = (Base \div 2) + (Base \div 2) /\ Base \div 2 \in Nat
BY BaseAssumption

\* Power and FromBytes are what their equations say.
LEMMA PowerEquation ==
  Power = [k \in 0..4 |-> IF k = 0 THEN 1 ELSE Base * Power[k - 1]]
<1> DEFINE Conforms(f) == f = [k \in 0..4 |-> IF k = 0 THEN 1 ELSE Base * f[k - 1]]
           p == [k \in 0..4 |-> IF k = 0 THEN 1 ELSE IF k = 1 THEN Base * 1 ELSE
                                IF k = 2 THEN Base * (Base * 1) ELSE
                                IF k = 3 THEN Base * (Base * (Base * 1)) ELSE
                                Base * (Base * (Base * (Base * 1)))]
<1>1. Conforms(p)
  <2>1. p[0] = 1 /\ p[1] = Base * p[0] /\ p[2] = Base * p[1] /\ p[3] = Base * p[2] /\ p[4] = Base * p[3]
    OBVIOUS
  <2>2. \A k \in 0..4 : p[k] = IF k = 0 THEN 1 ELSE Base * p[k - 1]
    BY <2>1
  <2> QED
    BY <2>2
<1>2. Power = CHOOSE f : Conforms(f)
  BY DEF Power
<1> HIDE DEF Conforms
<1>3. Conforms(Power)
  BY <1>1, <1>2, Zenon
<1> QED
  BY <1>3 DEF Conforms

LEMMA Powers ==
  /\ Power[0] = 1 /\ Power[1] = Base /\ Power[2] = Base * Base
  /\ Power[3] = Base * Power[2] /\ Power[4] = Base * Power[3]
  /\ \A k \in 0..4 : Power[k] \in Nat /\ Power[k] > 0
<1>1. /\ Power[0] = 1 /\ Power[1] = Base * Power[0] /\ Power[2] = Base * Power[1]
      /\ Power[3] = Base * Power[2] /\ Power[4] = Base * Power[3]
  BY PowerEquation
<1>2. /\ Power[1] \in Nat /\ Power[1] > 0 /\ Power[1] = Base
  BY <1>1, BaseFacts
<1>3. Power[2] \in Nat /\ Power[2] > 0
  BY <1>1, <1>2, BaseFacts
<1>4. Power[3] \in Nat /\ Power[3] > 0
  BY <1>1, <1>3, BaseFacts
<1>5. Power[4] \in Nat /\ Power[4] > 0
  BY <1>1, <1>4, BaseFacts
<1> QED
  BY <1>1, <1>2, <1>3, <1>4, <1>5

LEMMA Quotient ==
  ASSUME NEW v \in Int, NEW b \in Nat, b > 0
  PROVE  /\ v \div b \in Int /\ v % b \in 0..(b - 1)
         /\ v = b * (v \div b) + (v % b)
OBVIOUS

LEMMA Unique ==
  ASSUME NEW v \in Int, NEW b \in Nat, b > 0, NEW q \in Int, NEW r \in 0..(b - 1),
         v = b * q + r
  PROVE  v \div b = q /\ v % b = r
<1>1. v \div b \in Int /\ v % b \in 0..(b - 1) /\ v = b * (v \div b) + (v % b)
  BY Quotient
<1> DEFINE d == v \div b
           e == v % b
<1>2. d \in Int /\ e \in 0..(b - 1) /\ b * d + e = b * q + r
  BY <1>1
<1> HIDE DEF d, e
<1>3. CASE d > q
  <2>1. b * d = b * (d - q) + b * q /\ b * (d - q) >= b /\ b * q \in Int
    BY <1>2, <1>3
  <2> QED
    BY <1>2, <2>1
<1>4. CASE q > d
  <2>1. b * q = b * (q - d) + b * d /\ b * (q - d) >= b /\ b * d \in Int
    BY <1>2, <1>4
  <2> QED
    BY <1>2, <2>1
<1>5. CASE q = d
  BY <1>2, <1>5 DEF d, e
<1> QED
  BY <1>2, <1>3, <1>4, <1>5

\* A shift by two amounts is one by their sum.
LEMMA ShiftTwice ==
  ASSUME NEW v \in Int, NEW a \in Nat, NEW b \in Nat, a > 0, b > 0
  PROVE  v \div (b * a) = (v \div a) \div b
<1> DEFINE d == v \div a
           e == v % a
           q == d \div b
           r == d % b
<1>1. d \in Int /\ e \in 0..(a - 1) /\ v = a * d + e
  BY Quotient
<1> HIDE DEF d, e
<1>2. q \in Int /\ r \in 0..(b - 1) /\ d = b * q + r
  BY <1>1, Quotient
<1> HIDE DEF q, r
<1>3. v = (b * a) * q + (a * r + e)
  <2>1. a * d = a * (b * q) + a * r
    BY <1>1, <1>2
  <2>2. a * (b * q) = (b * a) * q
    BY <1>1, <1>2
  <2> QED
    BY <1>1, <1>2, <2>1, <2>2
<1>4. a * r + e \in 0..(b * a - 1) /\ b * a \in Nat /\ b * a > 0
  <2>1. a * r >= 0 /\ a * r \in Int /\ b * a \in Nat /\ b * a > 0
    BY <1>2
  <2>2. a * r <= a * (b - 1)
    BY <1>2
  <2>3. a * (b - 1) = b * a - a
    OBVIOUS
  <2> QED
    BY <1>1, <2>1, <2>2, <2>3
<1>5. v \div (b * a) = q
  <2> DEFINE c == b * a
             f == a * r + e
  <2>1. c \in Nat /\ c > 0 /\ f \in 0..(c - 1) /\ v = c * q + f
    BY <1>3, <1>4
  <2> HIDE DEF c, f
  <2>2. v \div c = q
    BY <1>2, <2>1, Unique
  <2> QED
    BY <2>2 DEF c
<1> QED
  BY <1>5 DEF q, d

-----------------------------------------------------------------------------
(* Integers and their bytes.                                               *)

LEMMA FromEquation ==
  ASSUME NEW b \in Seq(Int), Len(b) <= 4
  PROVE  \E f : /\ f = [i \in 0..Len(b) |-> IF i = 0 THEN 0 ELSE f[i - 1] * Base + b[i]]
               /\ FromBytes(b) = f[Len(b)]
<1> DEFINE Conforms(f) == f = [i \in 0..Len(b) |-> IF i = 0 THEN 0 ELSE f[i - 1] * Base + b[i]]
           x1 == 0 * Base + b[1]
           x2 == x1 * Base + b[2]
           x3 == x2 * Base + b[3]
           x4 == x3 * Base + b[4]
           g == [i \in 0..Len(b) |-> IF i = 0 THEN 0 ELSE IF i = 1 THEN x1 ELSE
                                     IF i = 2 THEN x2 ELSE IF i = 3 THEN x3 ELSE x4]
<1>1. Conforms(g)
  <2>1. ASSUME NEW i \in 0..Len(b), i # 0
        PROVE  g[i] = g[i - 1] * Base + b[i]
    <3>1. i \in {1, 2, 3, 4} /\ i - 1 \in 0..Len(b)
      BY <2>1
    <3> HIDE DEF x1, x2, x3, x4
    <3>2. g[i] = (IF i = 1 THEN x1 ELSE IF i = 2 THEN x2 ELSE IF i = 3 THEN x3 ELSE x4)
      BY <2>1
    <3>3. g[i - 1] = (IF i = 1 THEN 0 ELSE IF i = 2 THEN x1 ELSE IF i = 3 THEN x2 ELSE x3)
      BY <3>1
    <3> HIDE DEF g
    <3> QED
      BY <3>1, <3>2, <3>3 DEF x1, x2, x3, x4
  <2>2. g[0] = 0
    OBVIOUS
  <2>3. \A i \in 0..Len(b) : g[i] = IF i = 0 THEN 0 ELSE g[i - 1] * Base + b[i]
    BY <2>1, <2>2
  <2> QED
    BY <2>3
<1> DEFINE c == CHOOSE f : Conforms(f)
<1>2. Conforms(c)
  <2> HIDE DEF Conforms
  <2> QED
    BY <1>1, Zenon
<1>3. FromBytes(b) = c[Len(b)]
  BY Zenon DEF FromBytes
<1> HIDE DEF c
<1> QED
  BY <1>2, <1>3

\* The integer of one byte, of two, and of four.
LEMMA FromBytesIs ==
  ASSUME NEW b \in Seq(Int)
  PROVE  /\ Len(b) = 1 => FromBytes(b) = b[1]
         /\ Len(b) = 2 => FromBytes(b) = b[1] * Base + b[2]
         /\ Len(b) = 4 => FromBytes(b) = ((b[1] * Base + b[2]) * Base + b[3]) * Base + b[4]
<1> SUFFICES ASSUME Len(b) \in {1, 2, 4}
             PROVE  /\ Len(b) = 1 => FromBytes(b) = b[1]
                    /\ Len(b) = 2 => FromBytes(b) = b[1] * Base + b[2]
                    /\ Len(b) = 4 => FromBytes(b) = ((b[1] * Base + b[2]) * Base + b[3]) * Base + b[4]
  OBVIOUS
<1>1. PICK f : /\ f = [i \in 0..Len(b) |-> IF i = 0 THEN 0 ELSE f[i - 1] * Base + b[i]]
               /\ FromBytes(b) = f[Len(b)]
  <2>1. Len(b) = 1 \/ Len(b) = 2 \/ Len(b) = 4
    BY Zenon
  <2>2. ASSUME NEW n \in {1, 2, 4} PROVE n <= 4
    OBVIOUS
  <2> QED
    BY <2>2, FromEquation, Zenon
<1>2. \A i \in 0..Len(b) : f[i] = IF i = 0 THEN 0 ELSE f[i - 1] * Base + b[i]
  BY <1>1
<1>3. f[0] = 0 /\ f[1] = f[0] * Base + b[1]
  BY <1>2
<1>4. f[1] = b[1] /\ b[1] \in Int
  BY <1>3, BaseFacts
<1>5. CASE Len(b) = 1
  BY <1>1, <1>4, <1>5
<1>6. CASE Len(b) = 2
  <2>1. f[2] = f[1] * Base + b[2]
    BY <1>2, <1>6
  <2>2. f[2] = b[1] * Base + b[2]
    BY <1>4, <2>1, Zenon
  <2> QED
    BY <1>1, <1>6, <2>2
<1>7. CASE Len(b) = 4
  <2>1. /\ f[2] = f[1] * Base + b[2] /\ f[3] = f[2] * Base + b[3]
        /\ f[4] = f[3] * Base + b[4]
    BY <1>2, <1>7
  <2>2. f[4] = ((b[1] * Base + b[2]) * Base + b[3]) * Base + b[4]
    BY <1>4, <2>1, Zenon
  <2> QED
    BY <1>1, <1>7, <2>2
<1> QED
  BY <1>5, <1>6, <1>7

LEMMA ToBytesIs ==
  ASSUME NEW v \in Int, NEW n \in 0..4
  PROVE  /\ ToBytes(v, n) \in Seq(Byte) /\ Len(ToBytes(v, n)) = n
         /\ \A i \in 1..n : ToBytes(v, n)[i] = (v \div Power[n - i]) % Base
<1>1. ASSUME NEW i \in 1..n
      PROVE  (v \div Power[n - i]) % Base \in Byte
  <2>1. n - i \in 0..4
    OBVIOUS
  <2>2. Power[n - i] \in Nat /\ Power[n - i] > 0
    BY <2>1, Powers
  <2>3. v \div Power[n - i] \in Int
    BY <2>2, Quotient
  <2> QED
    BY <2>3, Quotient, BaseFacts DEF Byte
<1> QED
  BY <1>1 DEF ToBytes

LEMMA WidthsAre ==
  ASSUME NEW v \in Int, NEW n \in {1, 2, 4}
  PROVE  ToBytes(v, n) \in Seq(Byte) /\ Len(ToBytes(v, n)) = n
<1> n \in 0..4
  OBVIOUS
<1> QED
  BY ToBytesIs

LEMMA Horner ==
  ASSUME NEW a \in Nat, NEW x \in 0..(a - 1), NEW d \in Byte
  PROVE  x * Base + d \in 0..(Base * a - 1)
<1>1. /\ x * Base \in Int /\ x * Base >= 0 /\ Base * a \in Int
      /\ x * Base <= (a - 1) * Base
  BY BaseFacts
<1>2. (a - 1) * Base = Base * a - Base
  BY BaseFacts
<1> QED
  BY <1>1, <1>2, BaseFacts DEF Byte

\* A shift by one more byte.
LEMMA NextDigit ==
  ASSUME NEW v \in Int, NEW k \in 0..3
  PROVE  /\ v \div Power[k] \in Int
         /\ v \div Power[k + 1] = (v \div Power[k]) \div Base
         /\ (v \div Power[k]) % Base \in Byte
         /\ v \div Power[k] = (v \div Power[k + 1]) * Base + ((v \div Power[k]) % Base)
<1>1. /\ Power[k] \in Nat /\ Power[k] > 0 /\ k + 1 \in 0..4
      /\ Power[k + 1] = Base * Power[k]
  <2>1. k \in {0, 1, 2, 3}
    OBVIOUS
  <2> QED
    BY <2>1, Powers, BaseFacts
<1> DEFINE q == v \div Power[k]
<1>2. q \in Int
  BY <1>1, Quotient
<1>3. v \div Power[k + 1] = q \div Base
  BY <1>1, BaseFacts, ShiftTwice
<1> HIDE DEF q
<1>4. /\ q \div Base \in Int /\ q % Base \in 0..(Base - 1)
      /\ q = Base * (q \div Base) + (q % Base)
  BY <1>2, BaseFacts, Quotient
<1>5. q = (q \div Base) * Base + (q % Base) /\ q % Base \in Byte
  BY <1>4, BaseFacts DEF Byte
<1> QED
  BY <1>2, <1>3, <1>5 DEF q

\* The last k digits of y are x, and those before them q.
Ends(y, k, q, x) == q \in Int /\ x \in 0..(Power[k] - 1) /\ y = Power[k] * q + x

LEMMA DigitBehind ==
  ASSUME NEW k \in 1..3, NEW y, NEW q, NEW x, Ends(y, k, q, x), NEW d \in Byte
  PROVE  Ends(y * Base + d, k + 1, q, x * Base + d)
<1> DEFINE a == Power[k]
<1>1. Base \in Int /\ d \in Int /\ a \in Nat /\ Power[k + 1] = Base * a
  <2>1. k \in {1, 2, 3} /\ k \in 0..4
    OBVIOUS
  <2> QED
    BY <2>1, BaseFacts, Powers DEF Byte
<1>2. q \in Int /\ x \in 0..(a - 1) /\ y = a * q + x
  BY DEF Ends
<1> HIDE DEF a
<1>3. (a * q + x) * Base + d = (a * q) * Base + (x * Base + d)
  BY <1>1, <1>2
<1>4. (a * q) * Base = (Base * a) * q
  BY <1>1, <1>2
<1> QED
  BY <1>1, <1>2, <1>3, <1>4, Horner DEF Ends

\* What is written as n bytes is read as its remainder.
LEMMA Remainder ==
  ASSUME NEW v \in Int, NEW n \in {1, 2, 4}
  PROVE  FromBytes(ToBytes(v, n)) = v % Power[n]
<1> n \in 0..4 /\ (n = 1 \/ n = 2 \/ n = 4)
  OBVIOUS
<1>1. PICK b : b = ToBytes(v, n)
  OBVIOUS
<1>2. PICK Q : Q = [k \in 0..4 |-> v \div Power[k]]
  OBVIOUS
<1>3. PICK d : d = [k \in 0..3 |-> Q[k] % Base]
  OBVIOUS
<1>4. Q \in [0..4 -> Int] /\ v = Q[0]
  <2>1. v \div 1 = v
    OBVIOUS
  <2>2. \A k \in 0..4 : v \div Power[k] \in Int
    BY Powers, Quotient
  <2> QED
    BY <1>2, <2>1, <2>2, Powers
<1>5. d \in [0..3 -> Byte] /\ \A k \in 0..3 : Q[k] = Q[k + 1] * Base + d[k]
  BY <1>2, <1>3, NextDigit
<1>6. /\ b \in Seq(Int) /\ Len(b) = n
      /\ \A i \in 1..n : b[i] = d[n - i]
  <2>1. b \in Seq(Byte) /\ Len(b) = n /\ \A i \in 1..n : b[i] = (v \div Power[n - i]) % Base
    BY <1>1, ToBytesIs
  <2>2. b \in Seq(Int)
    <3>1. Byte \subseteq Int
      BY DEF Byte
    <3> QED
      BY <2>1, <3>1, SeqMonotonic
  <2>3. \A i \in 1..n : n - i \in 0..3 /\ n - i \in 0..4
    OBVIOUS
  <2> QED
    BY <1>2, <1>3, <2>1, <2>2, <2>3
<1>7. /\ Q[0] = Q[1] * Base + d[0] /\ Q[1] = Q[2] * Base + d[1]
      /\ Q[2] = Q[3] * Base + d[2] /\ Q[3] = Q[4] * Base + d[3]
  BY <1>5
<1>8. \A k \in 0..3 : d[k] \in Byte /\ d[k] \in Int /\ d[k] \in 0..(Power[1] - 1)
  BY <1>5, Powers DEF Byte
<1>9. \A k \in 1..4 : Q[k] * Base = Power[1] * Q[k]
  BY <1>4, Powers, BaseFacts
<1> SUFFICES ASSUME NEW r \in Int, r = FromBytes(b)
             PROVE  r \in 0..(Power[n] - 1) /\ v = Power[n] * Q[n] + r
  <2>1. FromBytes(b) \in Int
    <3>1. \A i \in 1..n : b[i] \in Int
      BY <1>6
    <3>2. CASE n = 1
      BY <1>6, <3>1, <3>2, FromBytesIs
    <3>3. CASE n = 2
      <4>1. FromBytes(b) = b[1] * Base + b[2] /\ b[1] \in Int /\ b[2] \in Int
        BY <1>6, <3>1, <3>3, FromBytesIs
      <4> QED
        BY <4>1, BaseFacts
    <3>4. CASE n = 4
      <4>1. FromBytes(b) = ((b[1] * Base + b[2]) * Base + b[3]) * Base + b[4]
            /\ b[1] \in Int /\ b[2] \in Int /\ b[3] \in Int /\ b[4] \in Int
        BY <1>6, <3>1, <3>4, FromBytesIs
      <4> QED
        BY <4>1, BaseFacts
    <3> QED
      BY <3>2, <3>3, <3>4
  <2>2. Power[n] \in Nat /\ Power[n] > 0 /\ Q[n] \in Int
    BY <1>4, Powers
  <2> QED
    BY <1>1, <2>1, <2>2, Unique
<1>10. /\ d[0] \in Byte /\ d[1] \in Byte /\ d[2] \in Byte
       /\ Ends(Q[0], 1, Q[1], d[0]) /\ Ends(Q[1], 1, Q[2], d[1]) /\ Ends(Q[3], 1, Q[4], d[3])
  BY <1>4, <1>7, <1>8, <1>9 DEF Ends
<1>11. CASE n = 1
  <2>1. r = d[0]
    BY <1>6, <1>11, FromBytesIs
  <2> QED
    BY <1>4, <1>10, <1>11, <2>1 DEF Ends
<1>12. CASE n = 2
  <2>1. r = d[1] * Base + d[0]
    BY <1>6, <1>12, FromBytesIs
  <2>2. Ends(Q[0], 1 + 1, Q[2], r)
    BY <1>7, <1>10, <2>1, DigitBehind
  <2> QED
    BY <1>4, <1>12, <2>2 DEF Ends
<1>13. CASE n = 4
  <2>1. PICK f2 : f2 = d[3] * Base + d[2]
    OBVIOUS
  <2>2. PICK f3 : f3 = f2 * Base + d[1]
    OBVIOUS
  <2>3. r = f3 * Base + d[0]
    BY <1>6, <1>13, <2>1, <2>2, FromBytesIs
  <2>4. Ends(Q[2], 1 + 1, Q[4], f2)
    BY <1>7, <1>10, <2>1, DigitBehind
  <2>5. Ends(Q[1], 2 + 1, Q[4], f3)
    <3>1. Ends(Q[2], 2, Q[4], f2) 
      BY <2>4
    <3> QED
      BY <1>7, <1>10, <2>2, <3>1, DigitBehind
  <2>6. Ends(Q[0], 3 + 1, Q[4], r)
    <3>1. Ends(Q[1], 3, Q[4], f3) 
      BY <2>5
    <3> QED
      BY <1>7, <1>10, <2>3, <3>1, DigitBehind
  <2> QED
    BY <1>4, <1>13, <2>6 DEF Ends
<1> QED
  BY <1>11, <1>12, <1>13

\* An unsigned integer is read as it was written.
LEMMA UnsignedBack ==
  ASSUME NEW n \in {1, 2, 4}, NEW v \in 0..(Power[n] - 1)
  PROVE  FromBytes(ToBytes(v, n)) = v
<1>1. Power[n] \in Nat /\ Power[n] > 0 /\ v = Power[n] * 0 + v
  BY Powers
<1>2. v % Power[n] = v
  BY <1>1, Unique
<1> QED
  BY <1>2, Remainder

\* So is a signed one: the highest bit is that of the first byte.
LEMMA SignedBack ==
  ASSUME NEW n \in {1, 2, 4}, NEW v \in -(Power[n] \div 2)..(Power[n] \div 2 - 1)
  PROVE  FromBytesSigned(ToBytes(v, n)) = v
<1> DEFINE h == Base \div 2
           a == Power[n - 1]
           c == Power[n]
           t == v \div a
           b == ToBytes(v, n)
<1>1. n \in 0..4 /\ n - 1 \in 0..4 /\ n \in 1..n
  OBVIOUS
<1>2. /\ h \in Nat /\ h > 0 /\ Base = h + h /\ a \in Nat /\ a > 0
      /\ c = Base * a /\ c \in Nat /\ c > 0
  <2>1. n = 1 \/ n = 2 \/ n = 4
    OBVIOUS
  <2>2. Base * 1 = Base
    BY BaseFacts
  <2> QED
    BY <1>1, <2>1, <2>2, BaseFacts, Powers
<1>3. b[1] = t % Base /\ Len(b) = n
  <2>1. 1 \in 1..n
    OBVIOUS
  <2>2. v \in Int
    BY <1>2
  <2> QED
    BY <1>1, <2>1, <2>2, ToBytesIs
<1>4. FromBytes(b) = v % c
  BY Remainder
<1>5. FromBytesSigned(b) = IF t % Base >= h THEN (v % c) - c ELSE v % c
  BY <1>3, <1>4 DEF FromBytesSigned
<1>6. v \in Int
  BY <1>2
<1>7. t \in Int /\ v % a \in 0..(a - 1) /\ v = a * t + (v % a)
  BY <1>2, <1>6, Quotient
<1>8. c \div 2 = h * a
  <2>1. c = 2 * (h * a) + 0 /\ h * a \in Int
    BY <1>2
  <2> HIDE DEF h, a, c
  <2>2. c \in Int
    BY <1>2
  <2>3. \A q \in Int : c = 2 * q + 0 => c \div 2 = q
    BY <2>2, Unique
  <2> QED
    BY <2>1, <2>3
<1>9. v >= -(h * a) /\ v < h * a
  <2>1. v \in -(c \div 2)..(c \div 2 - 1)
    OBVIOUS
  <2> HIDE DEF h, a, c
  <2>2. h * a \in Int
    BY <1>2
  <2> QED
    BY <1>8, <2>1, <2>2
<1> HIDE DEF t, b, h, a, c
<1>10. t < h /\ t >= -h
  <2>1. CASE t >= h
    <3>1. a * t = h * a + a * (t - h) /\ a * (t - h) >= 0 /\ h * a \in Int
      BY <1>2, <1>7, <2>1
    <3> QED
      BY <1>2, <1>6, <1>7, <1>9, <3>1
  <2>2. CASE t < -h
    <3>1. a * t = -(h * a) - a * (-h - t) /\ a * (-h - t) >= a /\ h * a \in Int
      BY <1>2, <1>7, <2>2
    <3> QED
      BY <1>2, <1>6, <1>7, <1>9, <3>1
  <2> QED
    BY <1>2, <1>7, <2>1, <2>2
<1>11. CASE t >= 0
  <2>1. t = Base * 0 + t /\ t \in 0..(Base - 1)
    BY <1>2, <1>7, <1>10, <1>11
  <2>2. t % Base = t
    BY <1>2, <1>7, <2>1, Unique
  <2>3. v >= 0
    <3>1. a * t >= 0
      BY <1>2, <1>7, <1>11
    <3> QED
      BY <1>2, <1>7, <3>1
  <2>4. v < c
    <3>1. h * a \in Int /\ c = h * a + h * a /\ h * a > 0
      BY <1>2
    <3> QED
      BY <1>6, <1>9, <3>1
  <2>5. v = c * 0 + v /\ v \in 0..(c - 1)
    BY <1>2, <1>6, <2>3, <2>4
  <2>6. v % c = v
    BY <1>2, <1>6, <2>5, Unique
  <2> QED
    BY <1>2, <1>5, <1>7, <1>10, <2>2, <2>6 DEF b
<1>12. CASE t < 0
  <2>1. t = Base * (-1) + (t + Base) /\ t + Base \in 0..(Base - 1) /\ t + Base >= h
    BY <1>2, <1>7, <1>10, <1>12
  <2>2. t % Base = t + Base
    <3>1. PICK u : u = t + Base
      OBVIOUS
    <3>2. t % Base = u
      BY <1>2, <1>7, <2>1, <3>1, Unique
    <3> QED
      BY <3>1, <3>2
  <2>3. v < 0
    <3>1. a * t <= -a
      BY <1>2, <1>7, <1>12
    <3> QED
      BY <1>2, <1>7, <3>1
  <2>4. v >= -c
    <3>1. h * a \in Int /\ c = h * a + h * a /\ h * a > 0
      BY <1>2
    <3> QED
      BY <1>6, <1>9, <3>1
  <2>5. v = c * (-1) + (v + c) /\ v + c \in 0..(c - 1)
    BY <1>2, <1>6, <2>3, <2>4
  <2>6. v % c = v + c
    <3>1. PICK u : u = v + c
      OBVIOUS
    <3>2. v % c = u
      BY <1>2, <1>6, <2>5, <3>1, Unique
    <3> QED
      BY <3>1, <3>2
  <2> QED
    BY <1>2, <1>5, <1>6, <1>7, <2>1, <2>2, <2>6 DEF b
<1> QED
  BY <1>7, <1>11, <1>12

-----------------------------------------------------------------------------
(* Streams.                                                                *)

\* The bytes b are in buf, from position pos on.
BytesAt(buf, pos, b) ==
  pos + Len(b) <= Len(buf) /\ \A i \in 1..Len(b) : buf[pos + i] = b[i]

LEMMA TakenOut ==
  ASSUME NEW S, NEW buf \in Seq(S), NEW b \in Seq(S), NEW pos \in Nat, BytesAt(buf, pos, b)
  PROVE  SubSeq(buf, pos + 1, pos + Len(b)) = b
<1> DEFINE s == SubSeq(buf, pos + 1, pos + Len(b))
<1>1. pos + Len(b) <= Len(buf) /\ Len(b) \in Nat /\ Len(buf) \in Nat
      /\ \A i \in 1..Len(b) : buf[pos + i] = b[i]
  BY DEF BytesAt
<1>2. s \in Seq(S) /\ Len(s) = Len(b) /\ \A i \in 1..Len(b) : s[i] = b[i]
  BY <1>1
<1> QED
  BY <1>2, SeqEqual

\* Bytes that follow others are at the position behind them.
LEMMA AtParts ==
  ASSUME NEW S, NEW buf \in Seq(S), NEW a \in Seq(S), NEW b \in Seq(S), NEW pos \in Nat
  PROVE  BytesAt(buf, pos, a \o b) <=> BytesAt(buf, pos, a) /\ BytesAt(buf, pos + Len(a), b)
<1> DEFINE m == Len(a)
           n == Len(b)
           c == a \o b
<1>1. /\ m \in Nat /\ n \in Nat /\ Len(c) = m + n /\ Len(buf) \in Nat
      /\ \A i \in 1..m : c[i] = a[i]
      /\ \A i \in 1..n : c[m + i] = b[i]
  <2>1. \A i \in 1..n : m + i \in (m + 1)..(m + n) /\ (m + i) - m = i
    OBVIOUS
  <2> QED
    BY <2>1
<1> HIDE DEF c, m, n
<1>2. ASSUME BytesAt(buf, pos, c)
      PROVE  BytesAt(buf, pos, a) /\ BytesAt(buf, pos + m, b)
  <2>1. \A i \in 1..m : buf[pos + i] = a[i]
    BY <1>1, <1>2 DEF BytesAt
  <2>2. ASSUME NEW i \in 1..n PROVE buf[(pos + m) + i] = b[i]
    <3>1. m + i \in 1..(m + n) /\ pos + (m + i) = (pos + m) + i
      BY <1>1
    <3> QED
      BY <1>1, <1>2, <3>1 DEF BytesAt
  <2>3. pos + m <= Len(buf) /\ (pos + m) + n <= Len(buf)
    BY <1>1, <1>2 DEF BytesAt
  <2> QED
    BY <2>1, <2>2, <2>3 DEF BytesAt, m, n
<1>3. ASSUME BytesAt(buf, pos, a), BytesAt(buf, pos + m, b)
      PROVE  BytesAt(buf, pos, c)
  <2>1. ASSUME NEW i \in 1..(m + n) PROVE buf[pos + i] = c[i]
    <3>1. CASE i <= m
      BY <1>1, <1>3, <3>1 DEF BytesAt, m
    <3>2. CASE i > m
      <4>1. i - m \in 1..n /\ (pos + m) + (i - m) = pos + i /\ m + (i - m) = i
        BY <1>1, <3>2
      <4> QED
        BY <1>1, <1>3, <4>1 DEF BytesAt, n
    <3> QED
      BY <1>1, <3>1, <3>2
  <2>2. pos + (m + n) <= Len(buf)
    BY <1>1, <1>3 DEF BytesAt, n
  <2> QED
    BY <1>1, <2>1, <2>2 DEF BytesAt
<1> QED
  BY <1>2, <1>3 DEF c, m

\* A stream, that over the fixed buffer buf at position pos, and that at the
\* end of a CSimpleBuffer that holds buf.
StreamOf(buf, pos, len, simple) == [buf |-> buf, pos |-> pos, len |-> len, simple |-> simple]
Stream(buf, pos) == StreamOf(buf, pos, Len(buf), FALSE)
Growing(buf, pos) == StreamOf(buf, pos, 0, TRUE)

WithBuf(st, new) == [st EXCEPT !.buf = new]
WithPos(st, new) == [st EXCEPT !.pos = new]

LEMMA BufReplaced ==
  ASSUME NEW buf, NEW pos, NEW len, NEW simple, NEW new
  PROVE  WithBuf(StreamOf(buf, pos, len, simple), new) = StreamOf(new, pos, len, simple)
BY DEF WithBuf, StreamOf

LEMMA PosReplaced ==
  ASSUME NEW buf, NEW pos, NEW len, NEW simple, NEW new
  PROVE  WithPos(StreamOf(buf, pos, len, simple), new) = StreamOf(buf, new, len, simple)
BY DEF WithPos, StreamOf

LEMMA StreamFields ==
  ASSUME NEW buf, NEW pos
  PROVE  /\ Stream(buf, pos).buf = buf /\ Stream(buf, pos).pos = pos
         /\ Stream(buf, pos).len = Len(buf) /\ ~Stream(buf, pos).simple
         /\ Growing(buf, pos).buf = buf /\ Growing(buf, pos).pos = pos
         /\ Growing(buf, pos).simple
BY DEF Stream, Growing, StreamOf

LEMMA MovedOn ==
  ASSUME NEW buf, NEW pos, NEW end
  PROVE  WithPos(Stream(buf, pos), end) = Stream(buf, end)
<1>1. PICK t : t = FALSE
  OBVIOUS
<1>2. Stream(buf, pos) = StreamOf(buf, pos, Len(buf), t) /\ Stream(buf, end) = StreamOf(buf, end, Len(buf), t)
  BY <1>1, Zenon DEF Stream
<1>3. WithPos(StreamOf(buf, pos, Len(buf), t), end) = StreamOf(buf, end, Len(buf), t)
  BY PosReplaced
<1> QED
  BY <1>2, <1>3, Zenon

LEMMA OnBufferIs == \A buf : OnBuffer(buf) = Stream(buf, 0)
BY DEF OnBuffer, Stream, StreamOf

\* _ReadByte() of what is next.
LEMMA ReadByteIs ==
  ASSUME NEW buf \in Seq(Byte), NEW pos \in Nat, NEW b \in Seq(Byte), BytesAt(buf, pos, b)
  PROVE  ReadByte(Stream(buf, pos), Len(b)) = [val |-> b, st |-> Stream(buf, pos + Len(b))]
<1> DEFINE st == Stream(buf, pos)
<1>1. st.buf = buf /\ st.pos = pos /\ st.len = Len(buf)
  BY StreamFields
<1>2. ~(pos + Len(b) > Len(buf))
  BY DEF BytesAt
<1>3. SubSeq(buf, pos + 1, pos + Len(b)) = b
  BY TakenOut
<1>4. [st EXCEPT !.pos = @ + Len(b)] = Stream(buf, pos + Len(b))
  BY <1>1, MovedOn, Zenon DEF WithPos
<1> QED
  BY <1>1, <1>2, <1>3, <1>4, Zenon DEF ReadByte

\* operator >> of an integer that is next.
LEMMA GetIs ==
  ASSUME NEW buf \in Seq(Byte), NEW pos \in Nat, NEW n \in {1, 2, 4},
         NEW v \in 0..(Power[n] - 1), BytesAt(buf, pos, ToBytes(v, n))
  PROVE  Get(Stream(buf, pos), n) = [val |-> v, st |-> Stream(buf, pos + n)]
<1>1. v \in Int /\ n \in 0..4
  BY Powers
<1>2. ToBytes(v, n) \in Seq(Byte) /\ Len(ToBytes(v, n)) = n
  BY <1>1, ToBytesIs
<1>3. ReadByte(Stream(buf, pos), n) = [val |-> ToBytes(v, n), st |-> Stream(buf, pos + n)]
  BY <1>2, ReadByteIs
<1>4. FromBytes(ToBytes(v, n)) = v
  BY UnsignedBack
<1> QED
  BY <1>3, <1>4 DEF Get

\* ReadData() of a length and as many bytes.
LEMMA ReadDataIs ==
  ASSUME NEW buf \in Seq(Byte), NEW pos \in Nat, NEW n \in {1, 2, 4}, NEW d \in Seq(Byte),
         Len(d) < Power[n], BytesAt(buf, pos, ToBytes(Len(d), n)), BytesAt(buf, pos + n, d)
  PROVE  ReadData(Stream(buf, pos), n) = [val |-> d, st |-> Stream(buf, pos + n + Len(d))]
<1>1. Len(d) \in 0..(Power[n] - 1) /\ pos + n \in Nat
  <2>1. n \in 0..4 /\ Len(d) \in Nat
    OBVIOUS
  <2>2. Power[n] \in Nat
    BY <2>1, Powers
  <2> QED
    BY <2>1, <2>2
<1>2. Get(Stream(buf, pos), n) = [val |-> Len(d), st |-> Stream(buf, pos + n)]
  BY <1>1, GetIs
<1>3. ReadByte(Stream(buf, pos + n), Len(d)) = [val |-> d, st |-> Stream(buf, pos + n + Len(d))]
  BY <1>1, ReadByteIs
<1> QED
  BY <1>2, <1>3 DEF ReadData

-----------------------------------------------------------------------------
(* PDUs and their bytes.                                                   *)

LEMMA WriteByteGrows ==
  ASSUME NEW buf, NEW pos, NEW b
  PROVE  WriteByte(Growing(buf, pos), b) = Growing(buf \o b, pos + Len(b))
<1> DEFINE new == buf \o b
           end == pos + Len(b)
<1>1. PICK st : st = Growing(buf, pos)
  OBVIOUS
<1>2. PICK t : t = TRUE
  OBVIOUS
<1>3. st.buf = buf /\ st.pos = pos /\ st.simple
  BY <1>1, StreamFields
<1>4. WriteByte(st, b) = [st EXCEPT !.buf = new, !.pos = end]
  BY <1>3, Zenon DEF WriteByte
<1>5. st = StreamOf(buf, pos, 0, t) /\ Growing(new, end) = StreamOf(new, end, 0, t)
  BY <1>1, <1>2, Zenon DEF Growing
<1> HIDE DEF new, end
<1>6. WithPos(WithBuf(st, new), end) = Growing(new, end)
  BY <1>5, BufReplaced, PosReplaced
<1>7. [st EXCEPT !.buf = new, !.pos = end] = WithPos(WithBuf(st, new), end)
  BY DEF WithPos, WithBuf
<1>8. WriteByte(st, b) = Growing(new, end)
  BY <1>4, <1>6, <1>7
<1> QED
  BY <1>1, <1>8, Zenon DEF new, end

LEMMA PutGrows ==
  ASSUME NEW buf, NEW pos, NEW v \in Int, NEW n \in {1, 2, 4}
  PROVE  Put(Growing(buf, pos), v, n) = Growing(buf \o ToBytes(v, n), pos + n)
<1>1. Len(ToBytes(v, n)) = n
  BY WidthsAre
<1>2. WriteByte(Growing(buf, pos), ToBytes(v, n)) = Growing(buf \o ToBytes(v, n), pos + Len(ToBytes(v, n)))
  BY WriteByteGrows
<1> QED
  BY <1>1, <1>2, Zenon DEF Put

LEMMA Joined ==
  ASSUME NEW S, NEW a \in Seq(S), NEW b \in Seq(S)
  PROVE  a \o b \in Seq(S) /\ Len(a \o b) = Len(a) + Len(b)
OBVIOUS

\* The fields of a PDU behind its header.
Payload(p) ==
  IF p.type = 3
    THEN ToBytes(p.from, 4) \o (ToBytes(p.to, 4) \o (ToBytes(p.kind, 1)
           \o (ToBytes(Len(p.data), 2) \o p.data)))
    ELSE ToBytes(p.user, 4)

Pdus == Requests \union Msgs

LEMMA PduShape ==
  ASSUME NEW p \in Pdus
  PROVE  \/ p \in Requests /\ p.type \in {1, 2} /\ p.user \in 0..(Power[4] - 1)
            /\ p = [type |-> p.type, user |-> p.user]
         \/ p \in Msgs /\ p.type = 3
            /\ p.from \in 0..(Power[4] - 1) /\ p.to \in 0..(Power[4] - 1)
            /\ p.kind \in 0..(Power[1] - 1) /\ p.data \in Seq(Byte)
            /\ Len(p.data) < Power[2] /\ Len(p.data) \in 0..(Power[2] - 1)
            /\ p = [type |-> 3, from |-> p.from, to |-> p.to, kind |-> p.kind, data |-> p.data]
<1>1. CASE p \in Requests
  <2>1. p.type \in {1, 2} /\ p.user \in Ids /\ p = [type |-> p.type, user |-> p.user]
    BY <1>1 DEF Requests
  <2> QED
    BY <1>1, <2>1, CodecAssumption
<1>2. CASE p \in Msgs
  <2>1. /\ p.type = 3 /\ p.from \in Ids /\ p.to \in Ids /\ p.kind \in Kinds /\ p.data \in Data
        /\ p = [type |-> 3, from |-> p.from, to |-> p.to, kind |-> p.kind, data |-> p.data]
    BY <1>2 DEF Msgs
  <2>2. p.data \in Seq(Byte) /\ Len(p.data) < Power[2]
    BY <2>1, CodecAssumption
  <2>3. Power[2] \in Nat /\ Len(p.data) \in Nat
    BY <2>2, Powers
  <2>4. p.from \in 0..(Power[4] - 1) /\ p.to \in 0..(Power[4] - 1) /\ p.kind \in 0..(Power[1] - 1)
    BY <2>1, CodecAssumption, Powers DEF Byte
  <2>5. Len(p.data) \in 0..(Power[2] - 1)
    BY <2>2, <2>3
  <2> QED
    BY <1>2, <2>1, <2>2, <2>4, <2>5
<1> QED
  BY <1>1, <1>2 DEF Pdus

\* A PDU is longer than its header, and no longer than the header can say.
LEMMA PayloadIs ==
  ASSUME NEW p \in Pdus
  PROVE  /\ Payload(p) \in Seq(Byte) /\ Len(Payload(p)) \in Nat
         /\ Len(Payload(p)) = IF p.type = 3 THEN 11 + Len(p.data) ELSE 4
         /\ HeaderLen + Len(Payload(p)) \in 0..(Power[4] - 1)
<1>1. Power[4] >= 16 * Power[2] /\ Power[2] >= 16 /\ Power[2] \in Nat /\ Power[4] \in Nat
  <2>1. Base \in Nat /\ Base >= 4
    BY BaseFacts, CodecAssumption
  <2>2. Power[2] >= 16 /\ Power[2] \in Nat
    <3>1. Base * Base >= 4 * Base
      BY <2>1
    <3> QED
      BY <2>1, <3>1, Powers
  <2>3. Power[3] >= 4 * Power[2] /\ Power[3] \in Nat
    <3>1. PICK a \in Nat : a = Power[2]
      BY <2>2
    <3>2. Base * a >= 4 * a /\ Base * a \in Nat
      BY <2>1
    <3> QED
      BY <3>1, <3>2, Powers
  <2>4. Power[4] >= 4 * Power[3] /\ Power[4] \in Nat
    <3>1. PICK a \in Nat : a = Power[3]
      BY <2>3
    <3>2. Base * a >= 4 * a /\ Base * a \in Nat
      BY <2>1
    <3> QED
      BY <3>1, <3>2, Powers
  <2> QED
    BY <2>2, <2>3, <2>4
<1>2. CASE p.type # 3
  <2>1. p.user \in Int
    BY <1>2, PduShape
  <2>2. Payload(p) = ToBytes(p.user, 4)
    BY <1>2 DEF Payload
  <2>3. Payload(p) \in Seq(Byte) /\ Len(Payload(p)) = 4
    BY <2>1, <2>2, WidthsAre
  <2> QED
    BY <1>1, <1>2, <2>3 DEF HeaderLen
<1>3. CASE p.type = 3
  <2>1. /\ p.from \in Int /\ p.to \in Int /\ p.kind \in Int /\ p.data \in Seq(Byte)
        /\ Len(p.data) \in Nat /\ Len(p.data) < Power[2]
    BY <1>3, PduShape
  <2>2. /\ ToBytes(p.from, 4) \in Seq(Byte) /\ Len(ToBytes(p.from, 4)) = 4
        /\ ToBytes(p.to, 4) \in Seq(Byte) /\ Len(ToBytes(p.to, 4)) = 4
        /\ ToBytes(p.kind, 1) \in Seq(Byte) /\ Len(ToBytes(p.kind, 1)) = 1
        /\ ToBytes(Len(p.data), 2) \in Seq(Byte) /\ Len(ToBytes(Len(p.data), 2)) = 2
    <3>1. Len(p.data) \in Int
      BY <2>1
    <3> QED
      BY <2>1, <3>1, WidthsAre, Zenon
  <2>3. Payload(p) \in Seq(Byte) /\ Len(Payload(p)) = 4 + (4 + (1 + (2 + Len(p.data))))
    <3> DEFINE r1 == ToBytes(Len(p.data), 2) \o p.data
               r2 == ToBytes(p.kind, 1) \o r1
               r3 == ToBytes(p.to, 4) \o r2
               r4 == ToBytes(p.from, 4) \o r3
    <3>1. r1 \in Seq(Byte) /\ Len(r1) = Len(ToBytes(Len(p.data), 2)) + Len(p.data)
      BY <2>1, <2>2, Joined, Zenon
    <3>2. r2 \in Seq(Byte) /\ Len(r2) = Len(ToBytes(p.kind, 1)) + Len(r1)
      BY <2>2, <3>1, Joined, Zenon
    <3>3. r3 \in Seq(Byte) /\ Len(r3) = Len(ToBytes(p.to, 4)) + Len(r2)
      BY <2>2, <3>2, Joined, Zenon
    <3>4. r4 \in Seq(Byte) /\ Len(r4) = Len(ToBytes(p.from, 4)) + Len(r3)
      BY <2>2, <3>3, Joined, Zenon
    <3> HIDE DEF r1, r2, r3, r4
    <3>5. Payload(p) = r4
      BY <1>3, Zenon DEF Payload, r1, r2, r3, r4
    <3>6. Len(r4) = 4 + (4 + (1 + (2 + Len(p.data))))
      BY <2>2, <3>1, <3>2, <3>3, <3>4, Zenon
    <3> QED
      BY <3>4, <3>5, <3>6
  <2>4. HeaderLen + Len(Payload(p)) \in 0..(Power[4] - 1)
    BY <1>1, <2>1, <2>3 DEF HeaderLen
  <2> QED
    BY <1>3, <2>1, <2>3, <2>4
<1> QED
  BY <1>2, <1>3

\* Concatenation and sequences of bytes by other names, for what follows from
\* associativity alone.
Cat(a, b) == a \o b
IsBytes(a) == a \in Seq(Byte)

LEMMA Associative ==
  ASSUME NEW a, NEW b, NEW c, IsBytes(a), IsBytes(b), IsBytes(c)
  PROVE  IsBytes(Cat(a, b)) /\ Cat(Cat(a, b), c) = Cat(a, Cat(b, c))
BY ConcatAssociative DEF IsBytes, Cat

LEMMA Regrouped ==
  ASSUME NEW a, NEW b, NEW c, NEW d, NEW e, NEW f,
         IsBytes(a), IsBytes(b), IsBytes(c), IsBytes(d), IsBytes(e), IsBytes(f)
  PROVE  Cat(Cat(Cat(Cat(Cat(a, b), c), d), e), f) = Cat(a, Cat(b, Cat(c, Cat(d, Cat(e, f)))))
BY Associative

\* What is behind the first of two sequences.
LEMMA Behind ==
  ASSUME NEW S, NEW a \in Seq(S), NEW b \in Seq(S)
  PROVE  SubSeq(a \o b, Len(a) + 1, Len(a \o b)) = b
<1> DEFINE c == a \o b
           s == SubSeq(c, Len(a) + 1, Len(c))
<1>1. /\ Len(a) \in Nat /\ Len(b) \in Nat /\ c \in Seq(S) /\ Len(c) = Len(a) + Len(b)
      /\ \A i \in 1..Len(b) : c[Len(a) + i] = b[i]
  <2>1. \A i \in 1..Len(b) : Len(a) + i \in (Len(a) + 1)..(Len(a) + Len(b)) /\ (Len(a) + i) - Len(a) = i
    OBVIOUS
  <2> QED
    BY <2>1
<1>2. s \in Seq(S) /\ Len(s) = Len(b) /\ \A i \in 1..Len(b) : s[i] = b[i]
  <2> HIDE DEF c
  <2>1. s \in Seq(S) /\ Len(s) = Len(b) /\ \A i \in 1..Len(b) : s[i] = c[Len(a) + i]
    BY <1>1
  <2> QED
    BY <1>1, <2>1
<1> QED
  BY <1>2, SeqEqual

\* The header of a PDU, and all of it.
Header(p) == <<p.type, 0>> \o ToBytes(HeaderLen + Len(Payload(p)), 4)

LEMMA HeaderIs ==
  ASSUME NEW p \in Pdus
  PROVE  /\ Header(p) \in Seq(Byte) /\ Len(Header(p)) = HeaderLen
         /\ <<p.type, 0>> \in Seq(Byte) /\ Len(<<p.type, 0>>) = 2
         /\ ToBytes(HeaderLen + Len(Payload(p)), 4) \in Seq(Byte)
         /\ Len(ToBytes(HeaderLen + Len(Payload(p)), 4)) = 4
<1>1. p.type \in Byte /\ 0 \in Byte
  <2>1. p.type = 1 \/ p.type = 2 \/ p.type = 3
    BY PduShape, Zenon
  <2>2. 0 \in Byte /\ 1 \in Byte /\ 2 \in Byte /\ 3 \in Byte
    BY CodecAssumption, BaseFacts DEF Byte
  <2> QED
    BY <2>1, <2>2, Zenon
<1>2. HeaderLen + Len(Payload(p)) \in Int
  BY PayloadIs DEF HeaderLen
<1>3. <<p.type, 0>> \in Seq(Byte) /\ Len(<<p.type, 0>>) = 2
  BY <1>1
<1>4. /\ ToBytes(HeaderLen + Len(Payload(p)), 4) \in Seq(Byte)
      /\ Len(ToBytes(HeaderLen + Len(Payload(p)), 4)) = 4
  BY <1>2, WidthsAre
<1>5. /\ Header(p) \in Seq(Byte)
      /\ Len(Header(p)) = Len(<<p.type, 0>>) + Len(ToBytes(HeaderLen + Len(Payload(p)), 4))
  BY <1>3, <1>4, Joined, Zenon DEF Header
<1>6. Len(Header(p)) = 6
  <2>1. 2 + 4 = 6
    OBVIOUS
  <2> QED
    BY <1>3, <1>4, <1>5, <2>1, Zenon
<1> QED
  BY <1>3, <1>4, <1>5, <1>6 DEF HeaderLen

\* What the encoding constructors make.
LEMMA EncodeIs ==
  ASSUME NEW p \in Pdus
  PROVE  /\ Encode(p) = Header(p) \o Payload(p)
         /\ Encode(p) \in Seq(Byte) /\ Len(Encode(p)) = HeaderLen + Len(Payload(p))
<1> DEFINE zeros == [i \in 1..HeaderLen |-> 0]
           os == OnSimple(zeros, HeaderLen)
           end == IF p.type = 3
                    THEN WriteData(Put(Put(Put(os, p.from, 4), p.to, 4), p.kind, 1), p.data, 2)
                    ELSE Put(os, p.user, 4)
           full == zeros \o Payload(p)
<1>1. zeros \in Seq(Byte) /\ Len(zeros) = HeaderLen
  BY BaseFacts DEF Byte, HeaderLen
<1>2. os = Growing(zeros, HeaderLen)
  BY Zenon DEF OnSimple, Growing, StreamOf
<1> HIDE DEF zeros, os
<1>3. end.buf = full
  <2>1. CASE p.type # 3
    <3>1. p.user \in Int
      BY <2>1, PduShape
    <3>2. end = Growing(zeros \o ToBytes(p.user, 4), HeaderLen + 4)
      BY <1>2, <2>1, <3>1, PutGrows
    <3>3. end.buf = zeros \o ToBytes(p.user, 4)
      <4> HIDE DEF end
      <4> QED
        BY <3>2, StreamFields, Zenon
    <3> QED
      BY <2>1, <3>3, Zenon DEF Payload
  <2>2. CASE p.type = 3
    <3>1. /\ p.from \in Int /\ p.to \in Int /\ p.kind \in Int /\ p.data \in Seq(Byte)
          /\ Len(p.data) \in Int
      BY <2>2, PduShape
    <3> DEFINE f == ToBytes(p.from, 4)
               t == ToBytes(p.to, 4)
               k == ToBytes(p.kind, 1)
               l == ToBytes(Len(p.data), 2)
               d == p.data
    <3>2. zeros \in Seq(Byte) /\ f \in Seq(Byte) /\ t \in Seq(Byte) /\ k \in Seq(Byte) /\ l \in Seq(Byte) /\ d \in Seq(Byte)
      BY <1>1, <3>1, WidthsAre
    <3>3. PICK n1 : n1 = HeaderLen + 4
      OBVIOUS
    <3>4. PICK n2 : n2 = n1 + 4
      OBVIOUS
    <3>5. PICK n3 : n3 = n2 + 1
      OBVIOUS
    <3>6. Put(os, p.from, 4) = Growing(zeros \o f, n1)
      BY <1>2, <3>1, <3>3, PutGrows
    <3>7. Put(Growing(zeros \o f, n1), p.to, 4) = Growing((zeros \o f) \o t, n2)
      BY <3>1, <3>4, PutGrows
    <3>8. Put(Growing((zeros \o f) \o t, n2), p.kind, 1) = Growing(((zeros \o f) \o t) \o k, n3)
      BY <3>1, <3>5, PutGrows
    <3>9. Put(Growing(((zeros \o f) \o t) \o k, n3), Len(d), 2)
            = Growing((((zeros \o f) \o t) \o k) \o l, n3 + 2)
      BY <3>1, PutGrows
    <3>10. WriteByte(Growing((((zeros \o f) \o t) \o k) \o l, n3 + 2), d)
             = Growing(((((zeros \o f) \o t) \o k) \o l) \o d, n3 + 2 + Len(d))
      BY WriteByteGrows
    <3>11. end = Growing(((((zeros \o f) \o t) \o k) \o l) \o d, n3 + 2 + Len(d))
      BY <2>2, <3>6, <3>7, <3>8, <3>9, <3>10, Zenon DEF WriteData
    <3>12. end.buf = ((((zeros \o f) \o t) \o k) \o l) \o d
      <4> DEFINE b == ((((zeros \o f) \o t) \o k) \o l) \o d
                 n == n3 + 2 + Len(d)
      <4>1. end = Growing(b, n)
        BY <3>11, Zenon
      <4> HIDE DEF end, b, n
      <4>2. end.buf = b
        BY <4>1, StreamFields, Zenon
      <4> QED
        BY <4>2, Zenon DEF b
    <3>13. Payload(p) = f \o (t \o (k \o (l \o d)))
      BY <2>2, Zenon DEF Payload
    <3> HIDE DEF f, t, k, l, d, end
    <3>14. IsBytes(zeros) /\ IsBytes(f) /\ IsBytes(t) /\ IsBytes(k) /\ IsBytes(l) /\ IsBytes(d)
      BY <3>2, Zenon DEF IsBytes
    <3>15. Cat(Cat(Cat(Cat(Cat(zeros, f), t), k), l), d) = Cat(zeros, Cat(f, Cat(t, Cat(k, Cat(l, d)))))
      BY <3>14, Regrouped
    <3>16. ((((zeros \o f) \o t) \o k) \o l) \o d = zeros \o (f \o (t \o (k \o (l \o d))))
      BY <3>15, Zenon DEF Cat
    <3> QED
      BY <3>12, <3>13, <3>16, Zenon
  <2> QED
    BY <2>1, <2>2
<1>4. Encode(p) = WriteHeader(p.type, full)
  <2>1. Encode(p) = WriteHeader(p.type, end.buf)
    BY DEF Encode, os, zeros
  <2> QED
    BY <1>3, <2>1, Zenon
<1> HIDE DEF end
<1>5. Payload(p) \in Seq(Byte) /\ Len(Payload(p)) \in Nat
  BY PayloadIs
<1>6. Len(full) = HeaderLen + Len(Payload(p)) /\ SubSeq(full, HeaderLen + 1, Len(full)) = Payload(p)
  <2>1. zeros \in Seq(Byte) /\ Payload(p) \in Seq(Byte)
    BY <1>1, <1>5, Zenon
  <2>2. Len(full) = Len(zeros) + Len(Payload(p))
    BY <2>1, Joined, Zenon
  <2>3. SubSeq(full, Len(zeros) + 1, Len(full)) = Payload(p)
    BY <2>1, Behind, Zenon
  <2> QED
    BY <1>1, <2>2, <2>3, Zenon
<1>7. Encode(p) = Header(p) \o Payload(p)
  <2>1. WriteHeader(p.type, full) = <<p.type, 0>> \o ToBytes(Len(full), 4) \o SubSeq(full, HeaderLen + 1, Len(full))
    BY Zenon DEF WriteHeader
  <2> QED
    BY <1>4, <1>6, <2>1, Zenon DEF Header
<1>8. Encode(p) \in Seq(Byte) /\ Len(Encode(p)) = Len(Header(p)) + Len(Payload(p))
  BY <1>5, <1>7, HeaderIs, Joined, Zenon
<1> QED
  BY <1>7, <1>8, HeaderIs, Zenon

\* The length is known as soon as the header is there.
LEMMA PduLenIs ==
  ASSUME NEW p \in Pdus, NEW buf \in Seq(Byte), BytesAt(buf, 0, Header(p))
  PROVE  PduLen(buf) = HeaderLen + Len(Payload(p))
<1> DEFINE l == ToBytes(HeaderLen + Len(Payload(p)), 4)
<1>1. /\ <<p.type, 0>> \in Seq(Byte) /\ Len(<<p.type, 0>>) = 2
      /\ l \in Seq(Byte) /\ Len(l) = 4
  BY HeaderIs
<1>2. BytesAt(buf, 0 + Len(<<p.type, 0>>), l)
  <2>1. BytesAt(buf, 0, <<p.type, 0>> \o l)
    BY DEF Header
  <2> HIDE DEF l
  <2> QED
    BY <1>1, <2>1, AtParts
<1> HIDE DEF l
<1>3. BytesAt(buf, 2, l)
  BY <1>1, <1>2
<1>4. SubSeq(buf, 2 + 1, 2 + Len(l)) = l
  BY <1>1, <1>3, TakenOut
<1>5. SubSeq(buf, 3, 6) = l
  BY <1>1, <1>4
<1>6. FromBytes(l) = HeaderLen + Len(Payload(p))
  BY PayloadIs, UnsignedBack DEF l
<1> QED
  BY <1>5, <1>6 DEF PduLen, HeaderLen

\* Bytes in two parts, one behind the other.
LEMMA Parts ==
  ASSUME NEW buf, NEW pos \in Nat, NEW a, NEW b, IsBytes(buf), IsBytes(a), IsBytes(b),
         BytesAt(buf, pos, Cat(a, b))
  PROVE  BytesAt(buf, pos, a) /\ BytesAt(buf, pos + Len(a), b)
<1>1. buf \in Seq(Byte) /\ a \in Seq(Byte) /\ b \in Seq(Byte) /\ BytesAt(buf, pos, a \o b)
  BY Zenon DEF IsBytes, Cat
<1> QED
  BY <1>1, AtParts

\* Decoding, when a PDU is at the start of the buffer.
LEMMA WholeAt ==
  ASSUME NEW b \in Seq(Byte)
  PROVE  BytesAt(b, 0, b)
BY DEF BytesAt

LEMMA DecodeRequestIs ==
  ASSUME NEW p \in Pdus, p.type # 3
  PROVE  DecodeRequest(p.type, Payload(p)) = [pdu |-> p, pos |-> Len(Payload(p))]
<1> DEFINE b == Payload(p)
<1>1. /\ p.user \in 0..(Power[4] - 1) /\ p = [type |-> p.type, user |-> p.user]
      /\ b = ToBytes(p.user, 4) /\ b \in Seq(Byte) /\ Len(b) = 4
  BY PduShape, PayloadIs DEF Payload
<1>2. BytesAt(b, 0, ToBytes(p.user, 4))
  BY <1>1, WholeAt
<1> HIDE DEF b
<1>3. Get(Stream(b, 0), 4) = [val |-> p.user, st |-> Stream(b, 0 + 4)]
  BY <1>1, <1>2, GetIs
<1>4. Stream(b, 0 + 4).pos = 4
  BY StreamFields
<1> DEFINE g == Get(Stream(b, 0), 4)
<1>5. g.val = p.user /\ g.st.pos = 4
  BY <1>3, <1>4
<1>6. OnBuffer(b) = Stream(b, 0)
  BY OnBufferIs
<1> HIDE DEF g
<1>7. DecodeRequest(p.type, b) = [pdu |-> [type |-> p.type, user |-> g.val], pos |-> g.st.pos]
  BY <1>6, Zenon DEF DecodeRequest, g
<1>8. DecodeRequest(p.type, b) = [pdu |-> p, pos |-> Len(b)]
  BY <1>1, <1>5, <1>7, Zenon
<1> QED
  BY <1>8 DEF b

LEMMA DecodeMsgIs ==
  ASSUME NEW p \in Pdus, p.type = 3
  PROVE  DecodeMsg(Payload(p)) = [pdu |-> p, pos |-> Len(Payload(p))]
<1> DEFINE b == Payload(p)
           f == ToBytes(p.from, 4)
           t == ToBytes(p.to, 4)
           k == ToBytes(p.kind, 1)
           l == ToBytes(Len(p.data), 2)
           d == p.data
<1>1. /\ p.from \in 0..(Power[4] - 1) /\ p.to \in 0..(Power[4] - 1)
      /\ p.kind \in 0..(Power[1] - 1) /\ d \in Seq(Byte)
      /\ Len(d) < Power[2] /\ Len(d) \in Int
      /\ p = [type |-> 3, from |-> p.from, to |-> p.to, kind |-> p.kind, data |-> p.data]
  BY PduShape
<1>2. b \in Seq(Byte) /\ Len(b) = 11 + Len(d)
  BY PayloadIs
<1>3. /\ f \in Seq(Byte) /\ t \in Seq(Byte) /\ k \in Seq(Byte) /\ l \in Seq(Byte)
      /\ Len(f) = 4 /\ Len(t) = 4 /\ Len(k) = 1 /\ Len(l) = 2
  <2>1. p.from \in Int /\ p.to \in Int /\ p.kind \in Int /\ Len(p.data) \in Int
    BY <1>1
  <2> QED
    BY <2>1, WidthsAre
<1>4. b = f \o (t \o (k \o (l \o d)))
  BY Zenon DEF Payload
<1>5. BytesAt(b, 0, b)
  BY <1>2, WholeAt
<1> HIDE DEF b, f, t, k, l
<1>6. IsBytes(b) /\ IsBytes(f) /\ IsBytes(t) /\ IsBytes(k) /\ IsBytes(l) /\ IsBytes(d)
  BY <1>1, <1>2, <1>3, Zenon DEF IsBytes
<1>7. PICK r1, r2, r3 : /\ r1 = Cat(l, d) /\ r2 = Cat(k, r1) /\ r3 = Cat(t, r2)
                        /\ b = Cat(f, r3)
  BY <1>4, Zenon DEF Cat
<1>8. IsBytes(r1) /\ IsBytes(r2) /\ IsBytes(r3)
  BY <1>6, <1>7, Associative
<1>9. 0 + 4 = 4 /\ 4 + 4 = 8 /\ 8 + 1 = 9 /\ 9 + 2 = 11
  OBVIOUS
<1>12. BytesAt(b, 0, f) /\ BytesAt(b, 0 + 4, r3)
  BY <1>3, <1>5, <1>6, <1>7, <1>8, Parts
<1>13. BytesAt(b, 4, t) /\ BytesAt(b, 4 + 4, r2)
  <2>1. BytesAt(b, 4, Cat(t, r2))
    BY <1>7, <1>9, <1>12, Zenon
  <2>2. BytesAt(b, 4, t) /\ BytesAt(b, 4 + Len(t), r2)
    BY <1>6, <1>8, <2>1, Parts
  <2> QED
    BY <1>3, <2>2, Zenon
<1>14. BytesAt(b, 8, k) /\ BytesAt(b, 8 + 1, r1)
  <2>1. BytesAt(b, 8, Cat(k, r1))
    BY <1>7, <1>9, <1>13, Zenon
  <2>2. BytesAt(b, 8, k) /\ BytesAt(b, 8 + Len(k), r1)
    BY <1>6, <1>8, <2>1, Parts
  <2> QED
    BY <1>3, <2>2, Zenon
<1>15. BytesAt(b, 9, l) /\ BytesAt(b, 9 + 2, d)
  <2>1. BytesAt(b, 9, Cat(l, d))
    BY <1>7, <1>9, <1>14, Zenon
  <2>2. BytesAt(b, 9, l) /\ BytesAt(b, 9 + Len(l), d)
    BY <1>6, <1>8, <2>1, Parts
  <2> QED
    BY <1>3, <2>2, Zenon
<1>16. Get(Stream(b, 0), 4) = [val |-> p.from, st |-> Stream(b, 4)]
  <2>1. Get(Stream(b, 0), 4) = [val |-> p.from, st |-> Stream(b, 0 + 4)]
    BY <1>1, <1>2, <1>12, GetIs DEF f
  <2> QED
    BY <1>9, <2>1, Zenon
<1>17. Get(Stream(b, 4), 4) = [val |-> p.to, st |-> Stream(b, 8)]
  BY <1>1, <1>2, <1>13, GetIs DEF t
<1>18. Get(Stream(b, 8), 1) = [val |-> p.kind, st |-> Stream(b, 9)]
  <2>1. Get(Stream(b, 8), 1) = [val |-> p.kind, st |-> Stream(b, 8 + 1)]
    BY <1>1, <1>2, <1>14, GetIs DEF k
  <2> QED
    BY <1>9, <2>1, Zenon
<1>19. ReadData(Stream(b, 9), 2) = [val |-> d, st |-> Stream(b, 9 + 2 + Len(d))]
  <2>1. BytesAt(b, 9 + 2, d)
    BY <1>15
  <2> QED
    BY <1>1, <1>2, <1>15, <2>1, ReadDataIs DEF l
<1>20. Stream(b, 9 + 2 + Len(d)).pos = Len(b)
  BY <1>1, <1>2, StreamFields
<1> DEFINE from == Get(OnBuffer(b), 4)
           to   == Get(from.st, 4)
           kind == Get(to.st, 1)
           data == ReadData(kind.st, 2)
<1>21. from.val = p.from /\ from.st = Stream(b, 4)
  BY <1>16, OnBufferIs
<1> HIDE DEF from
<1>22. to.val = p.to /\ to.st = Stream(b, 8)
  BY <1>17, <1>21
<1> HIDE DEF to
<1>23. kind.val = p.kind /\ kind.st = Stream(b, 9)
  BY <1>18, <1>22
<1> HIDE DEF kind
<1>24. data.val = p.data /\ data.st.pos = Len(b)
  BY <1>19, <1>20, <1>23
<1> HIDE DEF data
<1>25. DecodeMsg(b) = [pdu |-> [type |-> 3, from |-> from.val, to |-> to.val,
                                kind |-> kind.val, data |-> data.val],
                       pos |-> data.st.pos]
  BY Zenon DEF DecodeMsg, from, to, kind, data
<1>26. DecodeMsg(b) = [pdu |-> p, pos |-> Len(b)]
  BY <1>1, <1>21, <1>22, <1>23, <1>24, <1>25, Zenon
<1> QED
  BY <1>26 DEF b

LEMMA DecodeIs ==
  ASSUME NEW p \in Pdus, NEW buf \in Seq(Byte), BytesAt(buf, 0, Encode(p))
  PROVE  /\ IsPduAvailable(buf) /\ PduLen(buf) = Len(Encode(p))
         /\ ReadPdu(buf) = [pdu |-> p, pos |-> Len(Payload(p))]
<1>1. /\ Header(p) \in Seq(Byte) /\ Len(Header(p)) = 6
      /\ Payload(p) \in Seq(Byte) /\ Len(Payload(p)) \in Nat
      /\ Encode(p) = Header(p) \o Payload(p) /\ Len(Encode(p)) = 6 + Len(Payload(p))
  BY HeaderIs, PayloadIs, EncodeIs DEF HeaderLen
<1>2. BytesAt(buf, 0, Header(p)) /\ BytesAt(buf, 6, Payload(p))
  <2>1. BytesAt(buf, 0, Header(p) \o Payload(p))
    BY <1>1
  <2>2. BytesAt(buf, 0, Header(p)) /\ BytesAt(buf, 0 + Len(Header(p)), Payload(p))
    BY <1>1, <2>1, AtParts
  <2> QED
    BY <1>1, <2>2
<1>3. PduLen(buf) = 6 + Len(Payload(p))
  BY <1>2, PduLenIs DEF HeaderLen
<1>4. IsPduAvailable(buf)
  <2>1. 0 + Len(Encode(p)) <= Len(buf)
    BY Zenon DEF BytesAt
  <2> QED
    BY <1>1, <1>3, <2>1 DEF IsPduAvailable, HeaderLen
<1>5. buf[1] = p.type
  <2>1. Header(p)[1] = p.type
    <3>1. PICK w : w = ToBytes(HeaderLen + Len(Payload(p)), 4)
      OBVIOUS
    <3>2. w \in Seq(Byte) /\ <<p.type, 0>> \in Seq(Byte)
      BY <3>1, HeaderIs
    <3>3. (<<p.type, 0>> \o w)[1] = p.type
      BY <3>2
    <3> QED
      BY <3>1, <3>3 DEF Header
  <2>2. buf[0 + 1] = Header(p)[1]
    BY <1>1, <1>2 DEF BytesAt
  <2> QED
    BY <2>1, <2>2
<1>6. SubSeq(buf, HeaderLen + 1, PduLen(buf)) = Payload(p)
  <2>1. SubSeq(buf, 6 + 1, 6 + Len(Payload(p))) = Payload(p)
    BY <1>1, <1>2, TakenOut
  <2> QED
    BY <1>3, <2>1 DEF HeaderLen
<1>7. ReadPdu(buf) = IF p.type = 3 THEN DecodeMsg(Payload(p)) ELSE DecodeRequest(p.type, Payload(p))
  BY <1>5, <1>6, Zenon DEF ReadPdu
<1>8. ReadPdu(buf) = [pdu |-> p, pos |-> Len(Payload(p))]
  BY <1>7, DecodeMsgIs, DecodeRequestIs, Zenon
<1> QED
  BY <1>1, <1>3, <1>4, <1>8

\* What is at the start of two buffers in a row, when the first holds it all.
LEMMA AtStart ==
  ASSUME NEW a \in Seq(Byte), NEW b \in Seq(Byte), NEW c \in Seq(Byte), NEW d \in Seq(Byte),
         a \o b = c \o d, Len(c) <= Len(a)
  PROVE  BytesAt(a, 0, c) /\ SubSeq(a, Len(c) + 1, Len(a)) \o b = d
<1> DEFINE e == a \o b
           s == SubSeq(a, Len(c) + 1, Len(a))
           m == Len(c)
           r == s \o b
<1>1. /\ m \in Nat /\ Len(a) \in Nat /\ Len(b) \in Nat /\ Len(d) \in Nat /\ m <= Len(a)
      /\ Len(a) + Len(b) = m + Len(d)
      /\ \A i \in 1..Len(a) : e[i] = a[i]
      /\ \A i \in 1..Len(b) : e[Len(a) + i] = b[i]
  <2>1. \A i \in 1..Len(b) : Len(a) + i \in (Len(a) + 1)..(Len(a) + Len(b)) /\ (Len(a) + i) - Len(a) = i
    OBVIOUS
  <2>2. Len(a \o b) = Len(a) + Len(b) /\ Len(c \o d) = Len(c) + Len(d)
    BY Joined, Zenon
  <2>3. \A i \in 1..Len(a) : e[i] = a[i]
    OBVIOUS
  <2>4. \A i \in 1..Len(b) : e[Len(a) + i] = b[i]
    BY <2>1
  <2>5. Len(a) + Len(b) = m + Len(d)
    BY <2>2, Zenon
  <2> QED
    BY <2>3, <2>4, <2>5
<1>2. /\ \A i \in 1..m : e[i] = c[i]
      /\ \A i \in 1..Len(d) : e[m + i] = d[i]
  <2>1. \A i \in 1..Len(d) : m + i \in (m + 1)..(m + Len(d)) /\ (m + i) - m = i
    OBVIOUS
  <2>2. e = c \o d
    OBVIOUS
  <2> HIDE DEF e
  <2> QED
    BY <2>1, <2>2
<1>3. /\ s \in Seq(Byte) /\ Len(s) = Len(a) - m
      /\ \A i \in 1..Len(s) : s[i] = a[m + i]
  BY <1>1
<1> HIDE DEF s, e
<1>4. /\ r \in Seq(Byte) /\ Len(r) = Len(s) + Len(b)
      /\ \A i \in 1..Len(s) : r[i] = s[i]
      /\ \A i \in 1..Len(b) : r[Len(s) + i] = b[i]
  <2>1. s \in Seq(Byte) /\ Len(s) \in Nat
    BY <1>3
  <2>2. \A i \in 1..Len(b) : Len(s) + i \in (Len(s) + 1)..(Len(s) + Len(b)) /\ (Len(s) + i) - Len(s) = i
    BY <2>1
  <2>3. r \in Seq(Byte) /\ Len(r) = Len(s) + Len(b)
    BY <2>1, Joined, Zenon
  <2>4. \A i \in 1..Len(s) : r[i] = s[i]
    BY <2>1
  <2>5. \A i \in 1..Len(b) : r[Len(s) + i] = b[i]
    BY <2>1, <2>2
  <2> QED
    BY <2>3, <2>4, <2>5
<1> HIDE DEF r, m
<1>5. Len(r) = Len(d)
  BY <1>1, <1>3, <1>4
<1>6. ASSUME NEW i \in 1..Len(d) PROVE r[i] = d[i]
  <2>1. e[m + i] = d[i]
    BY <1>2
  <2>2. CASE i <= Len(s)
    <3>1. i \in 1..Len(s) /\ m + i \in 1..Len(a)
      BY <1>1, <1>3, <2>2
    <3> QED
      BY <1>1, <1>3, <1>4, <2>1, <3>1
  <2>3. CASE i > Len(s)
    <3>1. PICK j \in 1..Len(b) : i = Len(s) + j /\ m + i = Len(a) + j
      <4>1. i - Len(s) \in 1..Len(b) /\ i = Len(s) + (i - Len(s)) /\ m + i = Len(a) + (i - Len(s))
        BY <1>1, <1>3, <2>3
      <4> QED
        BY <4>1
    <3> QED
      BY <1>1, <1>4, <2>1, <3>1
  <2> QED
    BY <1>1, <1>3, <2>2, <2>3
<1>7. r = d
  BY <1>4, <1>5, <1>6, SeqEqual
<1>8. BytesAt(a, 0, c)
  <2>1. \A i \in 1..Len(c) : a[0 + i] = c[i]
    BY <1>1, <1>2 DEF m
  <2> QED
    BY <1>1, <2>1 DEF BytesAt, m
<1> QED
  BY <1>7, <1>8 DEF r, s, m

\* What is received and what is not yet.
LEMMA CutInTwo ==
  ASSUME NEW s \in Seq(Byte), NEW n \in 1..Len(s)
  PROVE  /\ SubSeq(s, 1, n) \in Seq(Byte) /\ SubSeq(s, n + 1, Len(s)) \in Seq(Byte)
         /\ SubSeq(s, 1, n) \o SubSeq(s, n + 1, Len(s)) = s
<1> DEFINE a == SubSeq(s, 1, n)
           b == SubSeq(s, n + 1, Len(s))
           c == a \o b
<1>1. /\ a \in Seq(Byte) /\ Len(a) = n /\ \A i \in 1..n : a[i] = s[i]
  OBVIOUS
<1>2. /\ b \in Seq(Byte) /\ Len(b) = Len(s) - n /\ \A i \in 1..(Len(s) - n) : b[i] = s[n + i]
  OBVIOUS
<1> HIDE DEF a, b
<1>3. c \in Seq(Byte) /\ Len(c) = Len(s)
      /\ \A i \in 1..Len(s) : c[i] = IF i <= n THEN a[i] ELSE b[i - n]
  BY <1>1, <1>2
<1> HIDE DEF c
<1>4. ASSUME NEW i \in 1..Len(s) PROVE c[i] = s[i]
  <2>1. CASE i <= n
    BY <1>1, <1>3, <2>1
  <2>2. CASE i > n
    <3>1. i - n \in 1..(Len(s) - n) /\ n + (i - n) = i
      BY <2>2
    <3> QED
      BY <1>2, <1>3, <2>2, <3>1
  <2> QED
    BY <2>1, <2>2
<1>5. c = s
  BY <1>3, <1>4, SeqEqual
<1> QED
  BY <1>1, <1>2, <1>5 DEF a, b, c

-----------------------------------------------------------------------------
(* The stream of PDUs.                                                     *)

\* rest[i] is what is left of the stream when i PDUs have been handled.
Rests(rest, sent, done, left) ==
  /\ rest \in [0..Len(sent) -> Seq(Byte)]
  /\ rest[Len(sent)] = <<>>
  /\ rest[done] = left
  /\ \A i \in 1..Len(sent) : i > done => rest[i - 1] = Encode(sent[i]) \o rest[i]

\* PDUs have been handled as they were sent, and the bytes that have arrived or
\* are on their way are those of the others.
CodecInv ==
  /\ encoded \in Seq(Pdus) /\ handled \in Seq(Pdus)
  /\ inBuf \in Seq(Byte) /\ onLine \in Seq(Byte)
  /\ ~aborted
  /\ Len(handled) <= Len(encoded)
  /\ \A i \in 1..Len(handled) : handled[i] = encoded[i]
  /\ \E rest : Rests(rest, encoded, Len(handled), inBuf \o onLine)

LEMMA CodecInitInv == CodecInit => CodecInv
<1> SUFFICES ASSUME CodecInit PROVE CodecInv
  OBVIOUS
<1>1. /\ encoded = <<>> /\ onLine = <<>> /\ inBuf = <<>> /\ handled = <<>> /\ ~aborted
  BY DEF CodecInit
<1>2. \A S : <<>> \in Seq(S)
  OBVIOUS
<1>3. Len(<<>>) = 0 /\ <<>> \o <<>> = <<>>
  <2>1. \A x \in Seq(Byte) : <<>> \o x = x
    BY ConcatEmptySeq
  <2> QED
    BY <1>2, <2>1
<1>4. Rests([i \in 0..0 |-> <<>>], <<>>, 0, <<>>)
  <2>1. [i \in 0..0 |-> <<>>] \in [0..0 -> Seq(Byte)]
    BY <1>2
  <2>2. [i \in 0..0 |-> <<>>][0] = <<>>
    OBVIOUS
  <2>3. \A i \in 1..0 : FALSE
    OBVIOUS
  <2> QED
    BY <1>3, <2>1, <2>2, <2>3, Zenon DEF Rests
<1>5. \E rest : Rests(rest, encoded, Len(handled), inBuf \o onLine)
  BY <1>1, <1>3, <1>4, Zenon
<1> HIDE DEF Rests
<1> QED
  BY <1>1, <1>2, <1>5 DEF CodecInv

LEMMA SendInv ==
  ASSUME CodecInv, NEW p \in Pdus, SendPdu(p)
  PROVE  CodecInv'
<1>1. PICK rest : Rests(rest, encoded, Len(handled), inBuf \o onLine)
  BY DEF CodecInv
<1> DEFINE e == Encode(p)
           n == Len(encoded)
           h == Len(handled)
           new == [i \in 0..(n + 1) |-> IF i <= n THEN rest[i] \o e ELSE <<>>]
<1>2. /\ encoded \in Seq(Pdus) /\ n \in Nat /\ h \in Nat /\ h <= n
      /\ inBuf \in Seq(Byte) /\ onLine \in Seq(Byte) /\ e \in Seq(Byte)
  BY EncodeIs DEF CodecInv
<1>3. /\ encoded' = Append(encoded, p) /\ onLine' = onLine \o e
      /\ inBuf' = inBuf /\ handled' = handled /\ aborted' = aborted
  BY DEF SendPdu
<1>4. /\ encoded' \in Seq(Pdus) /\ Len(encoded') = n + 1 /\ encoded'[n + 1] = p
      /\ \A i \in 1..n : encoded'[i] = encoded[i]
  BY <1>2, <1>3
<1> HIDE DEF e, n, h
<1>5. /\ \A i \in 0..n : rest[i] \in Seq(Byte)
      /\ rest[n] = <<>> /\ rest[h] = inBuf \o onLine
      /\ \A i \in 1..n : i > h => rest[i - 1] = Encode(encoded[i]) \o rest[i]
  BY <1>1 DEF Rests, n, h
<1>6. /\ \A i \in 0..n : new[i] = rest[i] \o e
      /\ new[n + 1] = <<>>
  BY <1>2
<1>7. new \in [0..(n + 1) -> Seq(Byte)]
  <2>1. ASSUME NEW i \in 0..(n + 1)
        PROVE  (IF i <= n THEN rest[i] \o e ELSE <<>>) \in Seq(Byte)
    <3>1. CASE i <= n
      <4>1. i \in 0..n
        BY <1>2, <3>1
      <4>2. rest[i] \in Seq(Byte)
        BY <1>5, <4>1
      <4>3. rest[i] \o e \in Seq(Byte)
        BY <1>2, <4>2, Joined, Zenon
      <4> QED
        BY <3>1, <4>3
    <3>2. CASE ~(i <= n)
      <4>1. <<>> \in Seq(Byte)
        OBVIOUS
      <4> QED
        BY <3>2, <4>1, Zenon
    <3> QED
      BY <3>1, <3>2
  <2> QED
    BY <2>1
<1> HIDE DEF new
<1>8. new[h] = inBuf \o (onLine \o e)
  <2>1. new[h] = Cat(Cat(inBuf, onLine), e)
    <3>1. h \in 0..n
      BY <1>2
    <3> QED
      BY <1>5, <1>6, <3>1, Zenon DEF Cat
  <2>2. IsBytes(inBuf) /\ IsBytes(onLine) /\ IsBytes(e)
    BY <1>2, Zenon DEF IsBytes
  <2>3. new[h] = Cat(inBuf, Cat(onLine, e))
    BY <2>1, <2>2, Associative
  <2> QED
    BY <2>3, Zenon DEF Cat
<1>9. ASSUME NEW i \in 1..(n + 1), i > h
      PROVE  new[i - 1] = Encode(encoded'[i]) \o new[i]
  <2>1. CASE i = n + 1
    <3>1. n \in 0..n /\ i - 1 = n
      BY <1>2, <2>1
    <3>2. new[n] = <<>> \o e
      BY <1>5, <1>6, <3>1
    <3>3. <<>> \o e = e /\ e \o <<>> = e
      BY <1>2, ConcatEmptySeq
    <3> QED
      BY <1>4, <1>6, <2>1, <3>1, <3>2, <3>3, Zenon DEF e
  <2>2. CASE i # n + 1
    <3>1. i \in 1..n /\ i \in 0..n /\ i - 1 \in 0..n
      BY <1>2, <2>2
    <3> DEFINE x == Encode(encoded[i])
    <3>2. x \in Seq(Byte)
      <4>1. encoded[i] \in Pdus
        BY <1>2, <3>1 DEF n
      <4> QED
        BY <4>1, EncodeIs
    <3>3. new[i - 1] = Cat(Cat(x, rest[i]), e)
      BY <1>5, <1>6, <1>9, <3>1, Zenon DEF Cat
    <3>4. IsBytes(x) /\ IsBytes(rest[i]) /\ IsBytes(e)
      BY <1>2, <1>5, <3>1, <3>2, Zenon DEF IsBytes
    <3> HIDE DEF x
    <3>5. new[i - 1] = Cat(x, Cat(rest[i], e))
      BY <3>3, <3>4, Associative
    <3>6. new[i - 1] = x \o (rest[i] \o e)
      BY <3>5, Zenon DEF Cat
    <3> QED
      BY <1>4, <1>6, <3>1, <3>6, Zenon DEF x
  <2> QED
    BY <2>1, <2>2
<1>10. Rests(new, encoded', Len(handled'), inBuf' \o onLine')
  <2>1. Len(encoded') = n + 1 /\ Len(handled') = h /\ inBuf' \o onLine' = inBuf \o (onLine \o e)
    BY <1>3, <1>4, Zenon DEF h
  <2> QED
    BY <1>6, <1>7, <1>8, <1>9, <2>1, Zenon DEF Rests
<1>11. /\ handled' \in Seq(Pdus) /\ inBuf' \in Seq(Byte) /\ ~aborted'
       /\ Len(handled') <= Len(encoded')
       /\ \A i \in 1..Len(handled') : handled'[i] = encoded'[i]
  <2>1. handled \in Seq(Pdus) /\ ~aborted /\ \A i \in 1..h : handled[i] = encoded[i]
    BY DEF CodecInv, h
  <2>2. \A i \in 1..h : i \in 1..n
    BY <1>2
  <2>3. h <= n + 1
    BY <1>2
  <2> QED
    BY <1>2, <1>3, <1>4, <2>1, <2>2, <2>3, Zenon DEF h
<1>12. onLine' \in Seq(Byte)
  BY <1>2, <1>3, Joined, Zenon
<1> QED
  BY <1>4, <1>10, <1>11, <1>12, Zenon DEF CodecInv

LEMMA ArriveInv ==
  ASSUME CodecInv, NEW k \in 1..Len(onLine), ArriveBytes(k)
  PROVE  CodecInv'
<1> DEFINE a == SubSeq(onLine, 1, k)
           b == SubSeq(onLine, k + 1, Len(onLine))
<1>1. inBuf \in Seq(Byte) /\ onLine \in Seq(Byte)
  BY DEF CodecInv
<1>2. a \in Seq(Byte) /\ b \in Seq(Byte) /\ a \o b = onLine
  BY <1>1, CutInTwo, Zenon
<1>3. /\ inBuf' = inBuf \o a /\ onLine' = b
      /\ encoded' = encoded /\ handled' = handled /\ aborted' = aborted
  BY DEF ArriveBytes
<1> HIDE DEF a, b
<1>4. inBuf' \in Seq(Byte) /\ onLine' \in Seq(Byte)
  BY <1>1, <1>2, <1>3, Joined, Zenon
<1>5. inBuf' \o onLine' = inBuf \o onLine
  <2>1. IsBytes(inBuf) /\ IsBytes(a) /\ IsBytes(b)
    BY <1>1, <1>2, Zenon DEF IsBytes
  <2>2. Cat(Cat(inBuf, a), b) = Cat(inBuf, Cat(a, b))
    BY <2>1, Associative
  <2> QED
    BY <1>2, <1>3, <2>2, Zenon DEF Cat
<1> QED
  BY <1>3, <1>4, <1>5, Zenon DEF CodecInv

\* The PDU that is handled next, when there are bytes left.
LEMMA NextPdu ==
  ASSUME CodecInv, inBuf \o onLine # <<>> \/ Len(handled) # Len(encoded)
  PROVE  \E rest : \E p \in Pdus :
           /\ Rests(rest, encoded, Len(handled), inBuf \o onLine)
           /\ Len(handled) + 1 \in 1..Len(encoded) /\ p = encoded[Len(handled) + 1]
           /\ rest[Len(handled) + 1] \in Seq(Byte)
           /\ inBuf \o onLine = Encode(p) \o rest[Len(handled) + 1]
<1>1. PICK rest : Rests(rest, encoded, Len(handled), inBuf \o onLine)
  BY DEF CodecInv
<1> DEFINE n == Len(encoded)
           h == Len(handled)
           s == inBuf \o onLine
<1>2. encoded \in Seq(Pdus) /\ n \in Nat /\ h \in Nat /\ h <= n
  BY DEF CodecInv
<1> HIDE DEF n, h, s
<1>3. /\ \A i \in 0..n : rest[i] \in Seq(Byte)
      /\ rest[n] = <<>> /\ rest[h] = s
      /\ \A i \in 1..n : i > h => rest[i - 1] = Encode(encoded[i]) \o rest[i]
  BY <1>1 DEF Rests, n, h, s
<1>4. h # n
  <2>1. s # <<>> \/ h # n
    BY DEF s, h, n
  <2> QED
    BY <1>3, <2>1
<1>5. h + 1 \in 1..n /\ h + 1 > h /\ (h + 1) - 1 = h /\ h + 1 \in 0..n
  BY <1>2, <1>4
<1>6. s = Encode(encoded[h + 1]) \o rest[h + 1] /\ rest[h + 1] \in Seq(Byte)
  BY <1>3, <1>5
<1>7. encoded[h + 1] \in Pdus
  BY <1>2, <1>5 DEF n
<1> QED
  BY <1>1, <1>5, <1>6, <1>7, Zenon DEF n, h, s

\* The bytes a and b begin with the PDU p, and r is behind it.
Begins(a, b, p, r) ==
  /\ a \in Seq(Byte) /\ b \in Seq(Byte) /\ r \in Seq(Byte) /\ p \in Pdus
  /\ a \o b = Encode(p) \o r

\* A PDU of which all bytes have arrived is the one that is handled next, and is
\* known to be there.
LEMMA Arrived ==
  ASSUME NEW a, NEW b, NEW p, NEW r, Begins(a, b, p, r)
  PROVE  /\ IsPduAvailable(a) <=> Len(Encode(p)) <= Len(a)
         /\ IsPduAvailable(a) =>
              /\ PduLen(a) = HeaderLen + Len(Payload(p))
              /\ ReadPdu(a) = [pdu |-> p, pos |-> Len(Payload(p))]
              /\ SubSeq(a, PduLen(a) + 1, Len(a)) \o b = r
<1> /\ a \in Seq(Byte) /\ b \in Seq(Byte) /\ r \in Seq(Byte) /\ p \in Pdus
    /\ a \o b = Encode(p) \o r
  BY DEF Begins
<1>1. /\ Header(p) \in Seq(Byte) /\ Len(Header(p)) = 6
      /\ Payload(p) \in Seq(Byte) /\ Len(Payload(p)) \in Nat
      /\ Encode(p) = Header(p) \o Payload(p) /\ Len(Encode(p)) = 6 + Len(Payload(p))
      /\ Encode(p) \in Seq(Byte)
  BY HeaderIs, PayloadIs, EncodeIs DEF HeaderLen
<1>2. ASSUME IsPduAvailable(a) PROVE Len(Encode(p)) <= Len(a)
  <2>1. Len(a) >= 6 /\ PduLen(a) <= Len(a)
    BY <1>2 DEF IsPduAvailable, HeaderLen
  <2>2. PICK q : q = Payload(p) \o r
    OBVIOUS
  <2>3. a \o b = Header(p) \o q /\ q \in Seq(Byte)
    <3>1. IsBytes(Header(p)) /\ IsBytes(Payload(p)) /\ IsBytes(r)
      BY <1>1, Zenon DEF IsBytes
    <3>2. PICK x, y : x = Header(p) /\ y = Payload(p)
      OBVIOUS
    <3>3. Cat(Cat(x, y), r) = Cat(x, Cat(y, r)) /\ IsBytes(Cat(y, r))
      BY <3>1, <3>2, Associative
    <3> QED
      BY <1>1, <2>2, <3>2, <3>3, Zenon DEF Cat, IsBytes
  <2>4. Len(Header(p)) <= Len(a)
    BY <1>1, <2>1
  <2>5. BytesAt(a, 0, Header(p))
    BY <1>1, <2>3, <2>4, AtStart
  <2>6. PduLen(a) = 6 + Len(Payload(p))
    BY <2>5, PduLenIs DEF HeaderLen
  <2> QED
    BY <1>1, <2>1, <2>6
<1>3. ASSUME Len(Encode(p)) <= Len(a)
      PROVE  /\ IsPduAvailable(a) /\ PduLen(a) = HeaderLen + Len(Payload(p))
             /\ ReadPdu(a) = [pdu |-> p, pos |-> Len(Payload(p))]
             /\ SubSeq(a, PduLen(a) + 1, Len(a)) \o b = r
  <2>1. BytesAt(a, 0, Encode(p)) /\ SubSeq(a, Len(Encode(p)) + 1, Len(a)) \o b = r
    <3>1. PICK c \in Seq(Byte) : c = Encode(p)
      BY <1>1
    <3>2. a \o b = c \o r /\ Len(c) <= Len(a)
      BY <1>3, <3>1
    <3>3. BytesAt(a, 0, c) /\ SubSeq(a, Len(c) + 1, Len(a)) \o b = r
      BY <3>2, AtStart
    <3> QED
      BY <3>1, <3>3
  <2>2. /\ IsPduAvailable(a) /\ PduLen(a) = Len(Encode(p))
        /\ ReadPdu(a) = [pdu |-> p, pos |-> Len(Payload(p))]
    BY <2>1, DecodeIs
  <2>3. PduLen(a) = HeaderLen + Len(Payload(p))
    BY <1>1, <2>2 DEF HeaderLen
  <2>4. SubSeq(a, PduLen(a) + 1, Len(a)) \o b = r
    BY <2>1, <2>2, Zenon
  <2> QED
    BY <2>2, <2>3, <2>4
<1> QED
  BY <1>2, <1>3, Zenon

LEMMA HandleInv ==
  ASSUME CodecInv, Handle
  PROVE  CodecInv'
<1> DEFINE h == Len(handled)
           l == PduLen(inBuf)
<1>1. /\ inBuf \in Seq(Byte) /\ onLine \in Seq(Byte) /\ encoded \in Seq(Pdus)
      /\ handled \in Seq(Pdus) /\ h \in Nat /\ ~aborted
      /\ \A i \in 1..h : handled[i] = encoded[i]
  BY DEF CodecInv
<1>2. /\ IsPduAvailable(inBuf)
      /\ handled' = Append(handled, ReadPdu(inBuf).pdu)
      /\ aborted' = (ReadPdu(inBuf).pos # l - HeaderLen)
      /\ inBuf' = SubSeq(inBuf, l + 1, Len(inBuf))
      /\ encoded' = encoded /\ onLine' = onLine
  BY DEF Handle
<1>3. inBuf \o onLine # <<>>
  <2>1. Len(inBuf) >= 6
    BY <1>2 DEF IsPduAvailable, HeaderLen
  <2>2. Len(inBuf \o onLine) = Len(inBuf) + Len(onLine)
    BY <1>1, Joined, Zenon
  <2>3. Len(inBuf \o onLine) # 0
    BY <1>1, <2>1, <2>2
  <2> QED
    BY <2>3
<1>4. PICK rest, p : /\ Rests(rest, encoded, h, inBuf \o onLine) /\ p \in Pdus
                     /\ h + 1 \in 1..Len(encoded) /\ p = encoded[h + 1]
                     /\ rest[h + 1] \in Seq(Byte)
                     /\ inBuf \o onLine = Encode(p) \o rest[h + 1]
  BY <1>3, NextPdu, Zenon
<1> HIDE DEF h
<1>5. /\ l = HeaderLen + Len(Payload(p))
      /\ ReadPdu(inBuf) = [pdu |-> p, pos |-> Len(Payload(p))]
      /\ SubSeq(inBuf, l + 1, Len(inBuf)) \o onLine = rest[h + 1]
  <2>1. Begins(inBuf, onLine, p, rest[h + 1])
    BY <1>1, <1>4, Zenon DEF Begins
  <2> QED
    BY <1>2, <2>1, Arrived, Zenon
<1>6. l \in Nat
  BY <1>5, PayloadIs DEF HeaderLen
<1> HIDE DEF l
<1>7. ~aborted'
  <2>1. Len(Payload(p)) \in Nat /\ ReadPdu(inBuf).pos = Len(Payload(p))
    BY <1>5, PayloadIs
  <2>2. l - HeaderLen = Len(Payload(p))
    BY <1>5, <2>1 DEF HeaderLen
  <2> QED
    BY <1>2, <2>1, <2>2
<1>8. handled' = Append(handled, p)
  BY <1>2, <1>5
<1>9. /\ handled' \in Seq(Pdus) /\ Len(handled') = h + 1
      /\ \A i \in 1..h : handled'[i] = handled[i]
      /\ handled'[h + 1] = p
  <2>1. p \in Pdus
    BY <1>4
  <2> QED
    BY <1>1, <1>8, <2>1 DEF h
<1>10. inBuf' \in Seq(Byte)
  BY <1>1, <1>2, <1>6
<1>11. Rests(rest, encoded', Len(handled'), inBuf' \o onLine')
  <2>1. \A i \in 1..Len(encoded) : i > h + 1 => i > h
    BY <1>1
  <2>2. inBuf' \o onLine' = rest[h + 1]
    BY <1>2, <1>5, Zenon
  <2>3. Rests(rest, encoded, h + 1, rest[h + 1])
    BY <1>4, <2>1, Zenon DEF Rests
  <2> QED
    BY <1>2, <1>9, <2>2, <2>3, Zenon
<1>12. \A i \in 1..Len(handled') : handled'[i] = encoded'[i]
  <2>1. \A i \in 1..(h + 1) : i \in 1..h \/ i = h + 1
    BY <1>1
  <2> QED
    BY <1>1, <1>2, <1>4, <1>9, <2>1, Zenon
<1>13. Len(handled') <= Len(encoded')
  BY <1>1, <1>2, <1>4, <1>9
<1> QED
  BY <1>1, <1>2, <1>7, <1>9, <1>10, <1>11, <1>12, <1>13, Zenon DEF CodecInv

LEMMA CodecStepInv == CodecInv /\ [CodecNext]_codecVars => CodecInv'
<1> SUFFICES ASSUME CodecInv, [CodecNext]_codecVars
             PROVE  CodecInv'
  OBVIOUS
<1>1. ASSUME NEW p \in Requests \union Msgs, SendPdu(p) PROVE CodecInv'
  BY <1>1, SendInv DEF Pdus
<1>2. ASSUME NEW k \in 1..Len(onLine), ArriveBytes(k) PROVE CodecInv'
  BY <1>2, ArriveInv
<1>3. CASE Handle
  BY <1>3, HandleInv
<1>4. CASE UNCHANGED codecVars
  BY <1>4, Zenon DEF codecVars, CodecInv
<1> QED
  BY <1>1, <1>2, <1>3, <1>4, Zenon DEF CodecNext

\* When all bytes have arrived and no PDU is known to be there, no PDU is left: all
\* its bytes would be there.
LEMMA CodecInvRoundTrip == CodecInv => RoundTrip
<1> SUFFICES ASSUME CodecInv PROVE RoundTrip
  OBVIOUS
<1>1. /\ inBuf \in Seq(Byte) /\ onLine \in Seq(Byte) /\ encoded \in Seq(Pdus)
      /\ handled \in Seq(Pdus) /\ ~aborted /\ Len(handled) <= Len(encoded)
      /\ \A i \in 1..Len(handled) : handled[i] = encoded[i]
  BY DEF CodecInv
<1>2. ASSUME onLine = <<>>, ~IsPduAvailable(inBuf)
      PROVE  handled = encoded /\ inBuf = <<>>
  <2>1. inBuf \o onLine = inBuf
    BY <1>1, <1>2, ConcatEmptySeq
  <2>2. inBuf \o onLine = <<>> /\ Len(handled) = Len(encoded)
    <3> SUFFICES ASSUME inBuf \o onLine # <<>> \/ Len(handled) # Len(encoded)
                 PROVE  FALSE
      OBVIOUS
    <3>1. PICK rest, p :
            /\ Rests(rest, encoded, Len(handled), inBuf \o onLine) /\ p \in Pdus
            /\ Len(handled) + 1 \in 1..Len(encoded) /\ p = encoded[Len(handled) + 1]
            /\ rest[Len(handled) + 1] \in Seq(Byte)
            /\ inBuf \o onLine = Encode(p) \o rest[Len(handled) + 1]
      BY NextPdu, Zenon
    <3> DEFINE r == rest[Len(handled) + 1]
    <3>2. ~(Len(Encode(p)) <= Len(inBuf))
      <4>1. Begins(inBuf, onLine, p, r)
        BY <1>1, <3>1, Zenon DEF Begins
      <4> QED
        BY <1>2, <4>1, Arrived, Zenon
    <3>3. inBuf = Encode(p) \o r /\ r \in Seq(Byte) /\ Encode(p) \in Seq(Byte)
      BY <2>1, <3>1, EncodeIs
    <3> HIDE DEF r
    <3>4. Len(inBuf) = Len(Encode(p)) + Len(r)
      BY <3>3, Joined, Zenon
    <3> QED
      BY <1>1, <3>2, <3>3, <3>4
  <2> QED
    BY <1>1, <2>1, <2>2, SeqEqual
<1> QED
  BY <1>1, <1>2 DEF RoundTrip

\* impdu.cpp:98,118,142 and imconn.cpp:279: whatever the user ids, types and data
\* of the PDUs, and wherever the stream is cut, those handled are those sent, with
\* every field as it was; the constructors consume the payload and no more; and
\* when all bytes have arrived and no PDU is there, all have been handled.
THEOREM RoundTripHolds == CodecSpec => []RoundTrip
<1>1. CodecSpec => []CodecInv
  BY CodecInitInv, CodecStepInv, PTL DEF CodecSpec
<1> QED
  BY <1>1, CodecInvRoundTrip, PTL

-----------------------------------------------------------------------------
(* Writing to a buffer of fixed length.                                    *)

\* What was in buf before pos is there still, and the position between the old
\* one and the end.
Grown(buf, pos, new, end) ==
  /\ new \in Seq(Byte) /\ Len(new) = Len(buf)
  /\ end \in Nat /\ pos <= end /\ end <= Len(buf)
  /\ \A i \in 1..pos : new[i] = buf[i]

LEMMA FirstPart ==
  ASSUME NEW S, NEW a \in Seq(S), NEW b \in Seq(S)
  PROVE  \A i \in 1..Len(a) : (a \o b)[i] = a[i]
OBVIOUS

LEMMA Overwritten ==
  ASSUME NEW buf \in Seq(Byte), NEW pos \in Nat, NEW b \in Seq(Byte), pos + Len(b) <= Len(buf),
         NEW new, new = SubSeq(buf, 1, pos) \o b \o SubSeq(buf, pos + Len(b) + 1, Len(buf))
  PROVE  Grown(buf, pos, new, pos + Len(b)) /\ BytesAt(new, pos, b)
<1> DEFINE n == Len(b)
           l == Len(buf)
           x == SubSeq(buf, 1, pos)
           z == SubSeq(buf, pos + n + 1, l)
           y == x \o b
<1>1. n \in Nat /\ l \in Nat /\ pos + n <= l
  OBVIOUS
<1>2. x \in Seq(Byte) /\ Len(x) = pos /\ \A i \in 1..pos : x[i] = buf[i]
  BY <1>1
<1>3. z \in Seq(Byte) /\ Len(z) = l - (pos + n)
  BY <1>1
<1>4. new = y \o z
  OBVIOUS
<1> HIDE DEF x, z
<1>5. y \in Seq(Byte) /\ Len(y) = pos + n
  <2>1. y \in Seq(Byte) /\ Len(y) = Len(x) + Len(b)
    BY <1>2, Joined, Zenon
  <2> QED
    BY <1>2, <2>1, Zenon
<1>6. (\A i \in 1..pos : y[i] = x[i]) /\ (\A i \in 1..n : y[pos + i] = b[i])
  <2>1. \A i \in 1..n : pos + i \in (pos + 1)..(pos + n) /\ (pos + i) - pos = i
    BY <1>1
  <2>2. \A i \in 1..pos : y[i] = x[i]
    BY <1>2
  <2>3. \A i \in 1..n : y[pos + i] = b[i]
    BY <1>2, <2>1
  <2> QED
    BY <2>2, <2>3
<1> HIDE DEF y, n, l
<1>7. new \in Seq(Byte) /\ Len(new) = l
  <2>1. new \in Seq(Byte) /\ Len(new) = Len(y) + Len(z)
    BY <1>3, <1>4, <1>5, Joined, Zenon
  <2>2. (pos + n) + (l - (pos + n)) = l
    BY <1>1
  <2> QED
    BY <1>3, <1>5, <2>1, <2>2, Zenon
<1>8. \A i \in 1..(pos + n) : new[i] = y[i]
  <2>1. \A i \in 1..Len(y) : (y \o z)[i] = y[i]
    BY <1>3, <1>5, FirstPart
  <2> QED
    BY <1>4, <1>5, <2>1, Zenon
<1>9. (\A i \in 1..pos : new[i] = buf[i]) /\ (\A i \in 1..n : new[pos + i] = b[i])
  <2>1. \A i \in 1..pos : i \in 1..(pos + n)
    BY <1>1
  <2>2. \A i \in 1..n : pos + i \in 1..(pos + n)
    BY <1>1
  <2> QED
    BY <1>2, <1>6, <1>8, <2>1, <2>2, Zenon
<1>10. pos + n \in Nat /\ pos <= pos + n
  BY <1>1
<1> QED
  BY <1>1, <1>7, <1>9, <1>10, Zenon DEF Grown, BytesAt, n, l

LEMMA WriteByteIs ==
  ASSUME NEW buf \in Seq(Byte), NEW pos \in Nat, pos <= Len(buf), NEW b \in Seq(Byte)
  PROVE  \E new, end :
           /\ WriteByte(Stream(buf, pos), b) = Stream(new, end)
           /\ Grown(buf, pos, new, end)
           /\ pos + Len(b) <= Len(buf) => end = pos + Len(b) /\ BytesAt(new, pos, b)
<1>1. PICK st : st = Stream(buf, pos)
  OBVIOUS
<1>2. st.buf = buf /\ st.pos = pos /\ st.len = Len(buf) /\ ~st.simple
  BY <1>1, StreamFields
<1>3. CASE pos + Len(b) > Len(buf)
  <2>1. WriteByte(st, b) = st
    BY <1>2, <1>3, Zenon DEF WriteByte
  <2>2. Grown(buf, pos, buf, pos)
    BY DEF Grown
  <2>3. ~(pos + Len(b) <= Len(buf))
    BY <1>3
  <2> QED
    BY <1>1, <2>1, <2>2, <2>3, Zenon
<1>4. CASE ~(pos + Len(b) > Len(buf))
  <2> DEFINE new == SubSeq(buf, 1, pos) \o b \o SubSeq(buf, pos + Len(b) + 1, Len(buf))
             end == pos + Len(b)
  <2>1. WriteByte(st, b) = [st EXCEPT !.buf = new, !.pos = end]
    BY <1>2, <1>4, Zenon DEF WriteByte
  <2>2. pos + Len(b) <= Len(buf)
    BY <1>4
  <2>3. Grown(buf, pos, new, end) /\ BytesAt(new, pos, b)
    BY <2>2, Overwritten
  <2> HIDE DEF new
  <2>4. WriteByte(st, b) = Stream(new, end)
    <3>1. PICK t : t = FALSE
      OBVIOUS
    <3>2. Len(new) = Len(buf)
      BY <2>3 DEF Grown
    <3>3. st = StreamOf(buf, pos, Len(buf), t) /\ Stream(new, end) = StreamOf(new, end, Len(buf), t)
      BY <1>1, <3>1, <3>2, Zenon DEF Stream
    <3> HIDE DEF end
    <3>4. WithPos(WithBuf(st, new), end) = Stream(new, end)
      BY <3>3, BufReplaced, PosReplaced
    <3>5. [st EXCEPT !.buf = new, !.pos = end] = WithPos(WithBuf(st, new), end)
      BY DEF WithPos, WithBuf
    <3> QED
      BY <2>1, <3>4, <3>5
  <2> QED
    BY <1>1, <2>3, <2>4, Zenon
<1> QED
  BY <1>3, <1>4

\* Writing goes on behind what is there.
LEMMA GrownTwice ==
  ASSUME NEW buf \in Seq(Byte), NEW pos \in Nat, NEW mid, NEW p2, NEW new, NEW end,
         Grown(buf, pos, mid, p2), Grown(mid, p2, new, end)
  PROVE  Grown(buf, pos, new, end)
<1>1. \A i \in 1..pos : i \in 1..p2
  BY DEF Grown
<1> QED
  BY <1>1 DEF Grown

LEMMA BytesStay ==
  ASSUME NEW buf \in Seq(Byte), NEW pos \in Nat, NEW new, NEW end, Grown(buf, pos, new, end),
         NEW b \in Seq(Byte), NEW at \in Nat, at + Len(b) <= pos, BytesAt(buf, at, b)
  PROVE  BytesAt(new, at, b)
<1>1. \A i \in 1..Len(b) : at + i \in 1..pos
  OBVIOUS
<1> QED
  BY <1>1 DEF Grown, BytesAt

-----------------------------------------------------------------------------
(* Items and their bytes.                                                  *)

\* The characters of a string that are written.
Text(chars) == SubSeq(Append(chars, 0), 1, StringSize(chars))

\* What is written of an item: a first part, a number of n bytes, and a second.
Number(it) == IF it.kind \in {"unsigned", "signed"} THEN it.val
              ELSE IF it.kind = "data" THEN Len(it.val) ELSE StringSize(it.val)
Digits(it) == IF it.kind \in {"string", "stdstring"} THEN 1 ELSE it.n
Trailing(it) == IF it.kind = "data" THEN it.val ELSE Text(it.val)
IsNumber(it) == it.kind \in {"unsigned", "signed"}

\* What a string reads as: with its 0, if the size byte counts that.  One of
\* Base - 1 characters is lost, and a longer one is cut: its length and the 0 are
\* counted modulo Base.
Kept(chars) ==
  IF Len(chars) < Base - 1 THEN Append(chars, 0)
  ELSE SubSeq(chars, 1, (Len(chars) + 1) % Base)

\* What reading an item gives.
Expected(it) == IF it.kind \in {"string", "stdstring"} THEN Kept(it.val) ELSE it.val

\* v is q times b, and r.
Divided(v, b, q, r) ==
  v \in Int /\ b \in Nat /\ b > 0 /\ q \in Int /\ r \in 0..(b - 1) /\ v = b * q + r

LEMMA RemainderIs == \A v, b, q, r : Divided(v, b, q, r) => v % b = r
BY Unique DEF Divided

LEMMA StringSizeIs ==
  ASSUME NEW chars \in Seq(Byte)
  PROVE  /\ StringSize(chars) \in 0..(Power[1] - 1)
         /\ Text(chars) \in Seq(Byte) /\ Len(Text(chars)) = StringSize(chars)
         /\ Text(chars) = Kept(chars)
<1> DEFINE n == Len(chars)
           m == n % Base
           s == (m + 1) % Base
           c == Append(chars, 0)
<1>1. n \in Nat /\ Base \in Nat /\ Base > 1 /\ Power[1] = Base
  BY BaseFacts, Powers
<1>2. m \in 0..(Base - 1) /\ n = Base * (n \div Base) + m /\ n \div Base \in Int
  BY <1>1, Quotient
<1>3. c \in Seq(Byte) /\ Len(c) = n + 1 /\ \A i \in 1..n : c[i] = chars[i]
  BY BaseFacts DEF Byte
<1>4. StringSize(chars) = s
  BY DEF StringSize
<1> HIDE DEF m, n, c
<1>5. s \in 0..(Base - 1)
  <2>1. m + 1 \in Int
    BY <1>2
  <2> QED
    BY <1>1, <2>1, Quotient
<1>6. s = (n + 1) % Base
  <2> DEFINE d == n \div Base
             r == IF m + 1 = Base THEN 0 ELSE m + 1
             e == IF m + 1 = Base THEN d + 1 ELSE d
             f == IF m + 1 = Base THEN 1 ELSE 0
  <2>1. d \in Int /\ m \in 0..(Base - 1) /\ n = Base * d + m
    BY <1>2
  <2> HIDE DEF d
  <2>2. Base * (d + 1) = Base * d + Base /\ Base * 1 = Base /\ Base * 0 = 0
    BY <1>1, <2>1
  <2>3. r \in 0..(Base - 1) /\ e \in Int /\ f \in Int /\ m + 1 \in Int /\ n + 1 \in Int
    BY <1>1, <2>1
  <2>4. n + 1 = Base * e + r
    <3>1. CASE m + 1 = Base
      <4>1. Base * d \in Int
        BY <1>1, <2>1
      <4> QED
        BY <1>1, <2>1, <2>2, <3>1, <4>1
    <3>2. CASE m + 1 # Base
      <4>1. Base * d \in Int
        BY <1>1, <2>1
      <4> QED
        BY <1>1, <2>1, <3>2, <4>1
    <3> QED
      BY <3>1, <3>2
  <2>5. m + 1 = Base * f + r
    BY <1>1, <2>1, <2>2
  <2> HIDE DEF r, e, f
  <2>6. (n + 1) % Base = r
    <3>1. Divided(n + 1, Base, e, r)
      BY <1>1, <2>3, <2>4 DEF Divided
    <3> QED
      BY <3>1, RemainderIs, Zenon
  <2>7. (m + 1) % Base = r
    <3>1. Divided(m + 1, Base, f, r)
      BY <1>1, <2>3, <2>5 DEF Divided
    <3> QED
      BY <3>1, RemainderIs, Zenon
  <2> QED
    BY <2>6, <2>7
<1> HIDE DEF s
<1>7. CASE n < Base - 1
  <2>1. n + 1 = Base * 0 + (n + 1) /\ n + 1 \in 0..(Base - 1)
    BY <1>1, <1>7
  <2>2. s = n + 1
    <3>1. PICK x \in Int : x = n + 1
      BY <1>1
    <3>2. x % Base = x
      BY <1>1, <2>1, <3>1, Unique
    <3> QED
      BY <1>6, <3>1, <3>2
  <2>3. SubSeq(c, 1, n + 1) = c
    <3>1. Len(SubSeq(c, 1, n + 1)) = n + 1 /\ SubSeq(c, 1, n + 1) \in Seq(Byte)
          /\ \A i \in 1..(n + 1) : SubSeq(c, 1, n + 1)[i] = c[i]
      BY <1>1, <1>3
    <3> QED
      BY <1>3, <3>1, SeqEqual
  <2>4. Text(chars) = c
    BY <1>4, <2>2, <2>3 DEF Text, c
  <2>5. Kept(chars) = c
    BY <1>7 DEF Kept, n, c
  <2> QED
    BY <1>1, <1>3, <1>4, <1>5, <2>2, <2>4, <2>5
<1>8. CASE ~(n < Base - 1)
  <2>1. s <= n
    BY <1>1, <1>5, <1>8
  <2>2. /\ SubSeq(c, 1, s) \in Seq(Byte) /\ Len(SubSeq(c, 1, s)) = s
        /\ \A i \in 1..s : SubSeq(c, 1, s)[i] = c[i]
    BY <1>1, <1>3, <1>5, <2>1
  <2>3. /\ SubSeq(chars, 1, s) \in Seq(Byte) /\ Len(SubSeq(chars, 1, s)) = s
        /\ \A i \in 1..s : SubSeq(chars, 1, s)[i] = chars[i]
    BY <1>1, <1>5, <2>1 DEF n
  <2>4. \A i \in 1..s : c[i] = chars[i]
    BY <1>1, <1>3, <1>5, <2>1
  <2>5. SubSeq(c, 1, s) = SubSeq(chars, 1, s)
    BY <2>2, <2>3, <2>4, SeqEqual
  <2>6. Text(chars) = SubSeq(c, 1, s)
    BY <1>4 DEF Text, c
  <2>7. Kept(chars) = SubSeq(chars, 1, s)
    BY <1>6, <1>8 DEF Kept, n
  <2> QED
    BY <1>1, <1>4, <1>5, <2>2, <2>5, <2>6, <2>7
<1> QED
  BY <1>7, <1>8

\* Items, by their kinds.
LEMMA ItemIs ==
  ASSUME NEW it \in Items
  PROVE  /\ Digits(it) \in {1, 2, 4} /\ Number(it) \in Int
         /\ \/ it.kind = "unsigned"
            \/ it.kind = "signed"
            \/ it.kind \in {"string", "stdstring"}
            \/ it.kind = "data"
         /\ it.kind # "signed" => Number(it) \in 0..(Power[Digits(it)] - 1)
         /\ it.kind = "signed" =>
              Number(it) \in -(Power[Digits(it)] \div 2)..(Power[Digits(it)] \div 2 - 1)
         /\ IsNumber(it) => Digits(it) = it.n /\ Number(it) = it.val
         /\ it.kind \in {"string", "stdstring"} =>
              /\ Digits(it) = 1 /\ Number(it) = StringSize(it.val)
              /\ Trailing(it) = Text(it.val) /\ Trailing(it) = Kept(it.val)
         /\ it.kind = "data" => Digits(it) = it.n /\ Number(it) = Len(it.val) /\ Trailing(it) = it.val
         /\ ~IsNumber(it) => Trailing(it) \in Seq(Byte) /\ Len(Trailing(it)) = Number(it)
         /\ Width(it) = IF IsNumber(it) THEN Digits(it) ELSE Digits(it) + Len(Trailing(it))
<1>1. \A k \in 0..4 : Power[k] \in Nat
  BY Powers
<1>2. CASE it.kind = "unsigned" /\ Integer(it, 0, Power[it.n])
  <2>1. it.n \in {1, 2, 4} /\ it.val \in 0..(Power[it.n] - 1)
    BY <1>2 DEF Integer
  <2>2. it.n \in 0..4
    BY <2>1
  <2> QED
    BY <1>1, <1>2, <2>1, <2>2 DEF Digits, Number, IsNumber, Width
<1>3. CASE it.kind = "signed" /\ Integer(it, -(Power[it.n] \div 2), Power[it.n] \div 2)
  <2>1. it.n \in {1, 2, 4} /\ it.val \in -(Power[it.n] \div 2)..(Power[it.n] \div 2 - 1)
    BY <1>3 DEF Integer
  <2>2. it.n \in 0..4
    BY <2>1
  <2>3. it.val \in Int
    BY <2>1
  <2> QED
    BY <1>3, <2>1, <2>3 DEF Digits, Number, IsNumber, Width
<1>4. CASE it.kind \in {"string", "stdstring"} /\ it.val \in Seq(Byte \ {0})
  <2>1. it.val \in Seq(Byte)
    <3>1. Byte \ {0} \subseteq Byte
      OBVIOUS
    <3> QED
      BY <1>4, <3>1, SeqMonotonic
  <2>2. /\ StringSize(it.val) \in 0..(Power[1] - 1)
        /\ Text(it.val) \in Seq(Byte) /\ Len(Text(it.val)) = StringSize(it.val)
        /\ Text(it.val) = Kept(it.val)
    BY <2>1, StringSizeIs
  <2>3. StringSize(it.val) \in Int
    BY <1>1, <2>2
  <2> QED
    BY <1>4, <2>2, <2>3 DEF Digits, Number, IsNumber, Width, Trailing
<1>5. CASE it.kind = "data" /\ it.n \in {2, 4} /\ it.val \in Seq(Byte) /\ Len(it.val) < Power[it.n]
  <2>1. it.n \in 0..4 /\ Len(it.val) \in Nat
    BY <1>5
  <2>2. Len(it.val) \in 0..(Power[it.n] - 1)
    BY <1>1, <1>5, <2>1
  <2> QED
    BY <1>5, <2>1, <2>2 DEF Digits, Number, IsNumber, Width, Trailing
<1> QED
  BY <1>2, <1>3, <1>4, <1>5, ItemAssumption

\* The item is in buf, from position at on.
ItemAt(buf, at, it) ==
  /\ BytesAt(buf, at, ToBytes(Number(it), Digits(it)))
  /\ ~IsNumber(it) => BytesAt(buf, at + Digits(it), Trailing(it))

LEMMA WrittenParts ==
  ASSUME NEW it \in Items, NEW st
  PROVE  Written(st, it) = IF IsNumber(it) THEN Put(st, Number(it), Digits(it))
                           ELSE WriteByte(Put(st, Number(it), Digits(it)), Trailing(it))
<1>1. CASE IsNumber(it)
  <2>1. it.kind \in {"unsigned", "signed"} /\ Digits(it) = it.n /\ Number(it) = it.val
    BY <1>1, ItemIs DEF IsNumber
  <2>2. Written(st, it) = Put(st, it.val, it.n)
    BY <2>1 DEF Written
  <2> QED
    BY <1>1, <2>1, <2>2, Zenon
<1>2. CASE it.kind \in {"string", "stdstring"}
  <2>1. /\ Digits(it) = 1 /\ Number(it) = StringSize(it.val) /\ Trailing(it) = Text(it.val)
    BY <1>2, ItemIs
  <2>2. Written(st, it) = WriteString(st, it.val) /\ ~IsNumber(it)
    BY <1>2 DEF Written, IsNumber
  <2>3. WriteString(st, it.val) = WriteByte(Put(st, StringSize(it.val), 1), Text(it.val))
    BY Zenon DEF WriteString, Text
  <2> QED
    BY <2>1, <2>2, <2>3, Zenon
<1>3. CASE it.kind = "data"
  <2>1. Digits(it) = it.n /\ Number(it) = Len(it.val) /\ Trailing(it) = it.val
    BY <1>3, ItemIs
  <2>2. Written(st, it) = WriteData(st, it.val, it.n) /\ ~IsNumber(it)
    BY <1>3 DEF Written, IsNumber
  <2>3. WriteData(st, it.val, it.n) = WriteByte(Put(st, Len(it.val), it.n), it.val)
    BY Zenon DEF WriteData
  <2> QED
    BY <2>1, <2>2, <2>3, Zenon
<1> QED
  BY <1>1, <1>2, <1>3, ItemIs DEF IsNumber

LEMMA PutIs ==
  ASSUME NEW buf \in Seq(Byte), NEW pos \in Nat, pos <= Len(buf), NEW v \in Int, NEW n \in {1, 2, 4}
  PROVE  \E new, end :
           /\ Put(Stream(buf, pos), v, n) = Stream(new, end)
           /\ Grown(buf, pos, new, end)
           /\ pos + n <= Len(buf) => end = pos + n /\ BytesAt(new, pos, ToBytes(v, n))
<1>1. PICK b \in Seq(Byte) : b = ToBytes(v, n) /\ Len(b) = n
  BY WidthsAre
<1>2. PICK new, end :
        /\ WriteByte(Stream(buf, pos), b) = Stream(new, end)
        /\ Grown(buf, pos, new, end)
        /\ pos + Len(b) <= Len(buf) => end = pos + Len(b) /\ BytesAt(new, pos, b)
  BY WriteByteIs
<1> QED
  BY <1>1, <1>2, Zenon DEF Put

\* An item that fits is in the buffer after it was written, and one that does not
\* changes nothing before it.
LEMMA WrittenIs ==
  ASSUME NEW it \in Items, NEW buf \in Seq(Byte), NEW pos \in Nat, pos <= Len(buf)
  PROVE  \E new, end :
           /\ Written(Stream(buf, pos), it) = Stream(new, end)
           /\ Grown(buf, pos, new, end)
           /\ pos + Width(it) <= Len(buf) => end = pos + Width(it) /\ ItemAt(new, pos, it)
<1> DEFINE v == Number(it)
           n == Digits(it)
           b == Trailing(it)
           w == Width(it)
           st == Stream(buf, pos)
<1>1. n \in {1, 2, 4} /\ v \in Int
  BY ItemIs
<1> HIDE DEF v, n, b, w
<1>2. PICK mid, p2 :
        /\ Put(st, v, n) = Stream(mid, p2)
        /\ Grown(buf, pos, mid, p2)
        /\ pos + n <= Len(buf) => p2 = pos + n /\ BytesAt(mid, pos, ToBytes(v, n))
  BY <1>1, PutIs
<1>3. CASE IsNumber(it)
  <2>1. w = n
    BY <1>3, ItemIs DEF w, n
  <2>2. Written(st, it) = Stream(mid, p2)
    BY <1>2, <1>3, WrittenParts, Zenon DEF v, n
  <2>3. pos + w <= Len(buf) => p2 = pos + w /\ ItemAt(mid, pos, it)
    BY <1>2, <1>3, <2>1, Zenon DEF ItemAt, v, n
  <2> QED
    BY <1>2, <2>2, <2>3, Zenon DEF w
<1>4. CASE ~IsNumber(it)
  <2>1. w = n + Len(b) /\ b \in Seq(Byte)
    BY <1>4, ItemIs DEF w, n, b
  <2>2. mid \in Seq(Byte) /\ p2 \in Nat /\ p2 <= Len(mid) /\ Len(mid) = Len(buf)
    BY <1>2 DEF Grown
  <2>3. PICK new, end :
          /\ WriteByte(Stream(mid, p2), b) = Stream(new, end)
          /\ Grown(mid, p2, new, end)
          /\ p2 + Len(b) <= Len(mid) => end = p2 + Len(b) /\ BytesAt(new, p2, b)
    BY <2>1, <2>2, WriteByteIs
  <2>4. Written(st, it) = Stream(new, end)
    BY <1>2, <1>4, <2>3, WrittenParts, Zenon DEF v, n, b
  <2>5. Grown(buf, pos, new, end)
    BY <1>2, <2>3, GrownTwice
  <2>6. ASSUME pos + w <= Len(buf)
        PROVE  end = pos + w /\ ItemAt(new, pos, it)
    <3>1. pos + n <= Len(buf) /\ pos + w = (pos + n) + Len(b)
      BY <1>1, <2>1, <2>6
    <3>2. p2 = pos + n /\ BytesAt(mid, pos, ToBytes(v, n))
      BY <1>2, <3>1
    <3>3. end = p2 + Len(b) /\ BytesAt(new, p2, b)
      BY <2>2, <2>3, <2>6, <3>1, <3>2
    <3>4. BytesAt(new, pos, ToBytes(v, n))
      <4>1. PICK c \in Seq(Byte) : c = ToBytes(v, n) /\ Len(c) = n
        BY <1>1, WidthsAre
      <4>2. pos + Len(c) <= p2
        BY <1>1, <3>2, <4>1
      <4> QED
        BY <2>2, <2>3, <3>2, <4>1, <4>2, BytesStay
    <3> QED
      BY <3>1, <3>2, <3>3, <3>4, Zenon DEF ItemAt, v, n, b
  <2> QED
    BY <2>4, <2>5, <2>6, Zenon DEF w
<1> QED
  BY <1>3, <1>4

\* An item that is in the buffer is read as it was written.
LEMMA ReadItemIs ==
  ASSUME NEW it \in Items, NEW buf \in Seq(Byte), NEW pos \in Nat, ItemAt(buf, pos, it)
  PROVE  ReadItem(Stream(buf, pos), it) = [val |-> Expected(it), st |-> Stream(buf, pos + Width(it))]
<1> DEFINE v == Number(it)
           n == Digits(it)
           b == Trailing(it)
           w == Width(it)
           c == ToBytes(v, n)
           st == Stream(buf, pos)
<1>1. n \in {1, 2, 4} /\ v \in Int
  BY ItemIs
<1>2. c \in Seq(Byte) /\ Len(c) = n /\ BytesAt(buf, pos, c)
  BY <1>1, WidthsAre DEF ItemAt
<1>3. ReadByte(st, n) = [val |-> c, st |-> Stream(buf, pos + n)]
  BY <1>2, ReadByteIs
<1>4. it.kind # "signed" => Get(st, n) = [val |-> v, st |-> Stream(buf, pos + n)]
  <2> HIDE DEF v, n
  <2>1. ASSUME it.kind # "signed" PROVE v \in 0..(Power[n] - 1)
    BY <2>1, ItemIs DEF v, n
  <2> QED
    BY <1>1, <1>2, <2>1, GetIs
<1>5. ~IsNumber(it) => BytesAt(buf, pos + n, b) /\ b \in Seq(Byte) /\ Len(b) = v /\ w = n + v
  BY ItemIs DEF ItemAt
<1>6. pos + n \in Nat
  BY <1>1
<1> HIDE DEF v, n, b, w, c
<1>7. CASE it.kind = "unsigned"
  <2>1. n = it.n /\ v = it.val /\ w = n /\ Expected(it) = it.val
    BY <1>7, ItemIs DEF IsNumber, Expected, n, v, w
  <2>2. ReadItem(st, it) = Get(st, it.n)
    BY <1>7 DEF ReadItem
  <2> QED
    BY <1>4, <1>7, <2>1, <2>2 DEF w
<1>8. CASE it.kind = "signed"
  <2>1. n = it.n /\ v = it.val /\ w = n /\ Expected(it) = it.val
    BY <1>8, ItemIs DEF IsNumber, Expected, n, v, w
  <2>2. ReadItem(st, it) = [val |-> FromBytesSigned(ReadByte(st, it.n).val), st |-> ReadByte(st, it.n).st]
    BY <1>8 DEF ReadItem
  <2>3. FromBytesSigned(c) = v
    <3>1. v \in -(Power[n] \div 2)..(Power[n] \div 2 - 1)
      BY <1>8, ItemIs DEF v, n
    <3> QED
      BY <1>1, <3>1, SignedBack DEF c
  <2> QED
    BY <1>3, <2>1, <2>2, <2>3 DEF w
<1>9. CASE it.kind = "string"
  <2>1. n = 1 /\ Expected(it) = b /\ ~IsNumber(it)
    BY <1>9, ItemIs DEF IsNumber, Expected, n, b
  <2>2. ReadItem(st, it) = ReadByte(Get(st, 1).st, Get(st, 1).val)
    BY <1>9 DEF ReadItem, ReadString
  <2>3. Get(st, 1).st = Stream(buf, pos + n) /\ Get(st, 1).val = v
    BY <1>4, <1>9, <2>1
  <2>4. ReadByte(Stream(buf, pos + n), Len(b)) = [val |-> b, st |-> Stream(buf, (pos + n) + Len(b))]
    BY <1>5, <1>6, <2>1, ReadByteIs
  <2>5. (pos + n) + Len(b) = pos + w
    BY <1>1, <1>5, <2>1
  <2> QED
    BY <1>5, <2>1, <2>2, <2>3, <2>4, <2>5, Zenon DEF w
<1>10. CASE it.kind = "data"
  <2>1. n = it.n /\ Expected(it) = b /\ ~IsNumber(it)
    BY <1>10, ItemIs DEF IsNumber, Expected, n, b
  <2>2. ReadItem(st, it) = ReadByte(Get(st, it.n).st, Get(st, it.n).val)
    BY <1>10 DEF ReadItem, ReadData
  <2>3. Get(st, n).st = Stream(buf, pos + n) /\ Get(st, n).val = v
    BY <1>4, <1>10
  <2>4. ReadByte(Stream(buf, pos + n), Len(b)) = [val |-> b, st |-> Stream(buf, (pos + n) + Len(b))]
    BY <1>5, <1>6, <2>1, ReadByteIs
  <2>5. (pos + n) + Len(b) = pos + w
    BY <1>1, <1>5, <2>1
  <2> QED
    BY <1>5, <2>1, <2>2, <2>3, <2>4, <2>5, Zenon DEF w
<1>11. CASE it.kind = "stdstring"
  <2>1. n = 1 /\ Expected(it) = b /\ ~IsNumber(it)
    BY <1>11, ItemIs DEF IsNumber, Expected, n, b
  <2> DEFINE s == Get(st, 1)
  <2>2. ReadItem(st, it) = [val |-> SubSeq(s.st.buf, s.st.pos + 1, s.st.pos + s.val),
                            st |-> [s.st EXCEPT !.pos = @ + s.val]]
    <3>1. ReadItem(st, it) = ReadStdString(st)
      BY <1>11 DEF ReadItem
    <3> QED
      BY <3>1, Zenon DEF ReadStdString
  <2>3. s.st = Stream(buf, pos + n) /\ s.val = v
    BY <1>4, <1>11, <2>1
  <2> HIDE DEF s
  <2>4. s.st.buf = buf /\ s.st.pos = pos + n
    BY <2>3, StreamFields
  <2>5. SubSeq(buf, (pos + n) + 1, (pos + n) + Len(b)) = b
    BY <1>5, <1>6, <2>1, TakenOut
  <2>6. [s.st EXCEPT !.pos = (pos + n) + v] = Stream(buf, (pos + n) + v)
    <3>1. WithPos(Stream(buf, pos + n), (pos + n) + v) = Stream(buf, (pos + n) + v)
      BY MovedOn
    <3>2. WithPos(s.st, (pos + n) + v) = Stream(buf, (pos + n) + v)
      BY <2>3, <3>1, Zenon
    <3> QED
      BY <3>2, Zenon DEF WithPos
  <2>7. (pos + n) + v = pos + w
    BY <1>1, <1>5, <2>1
  <2>8. [s.st EXCEPT !.pos = @ + s.val] = Stream(buf, pos + w)
    BY <2>3, <2>4, <2>6, <2>7, Zenon
  <2>9. SubSeq(s.st.buf, s.st.pos + 1, s.st.pos + s.val) = b
    BY <1>5, <2>1, <2>3, <2>4, <2>5, Zenon
  <2> QED
    BY <2>1, <2>2, <2>8, <2>9, Zenon DEF w
<1> QED
  BY <1>7, <1>8, <1>9, <1>10, <1>11, ItemIs

-----------------------------------------------------------------------------
(* A program over a fixed buffer.                                          *)

\* The position behind the first n items.
EndOf(its, n) == IF n = 0 THEN 0 ELSE its[n].at + Width(its[n].it)

Entries == [it : Items, at : Nat]

\* The items that fit are in the buffer buf, one behind the other, and the last
\* ends at pos when all items fit; the items that were read end at next.
FixedAt(buf, pos, next) ==
  /\ out = Stream(buf, pos) /\ in = Stream(buf, next)
  /\ buf \in Seq(Byte) /\ Len(buf) = Room
  /\ pos \in Nat /\ pos <= Room
  /\ next = EndOf(items, Len(itemsRead)) /\ next \in 0..Room
  /\ fits = Len(items) => pos = EndOf(items, fits)
  /\ \A i \in 1..fits :
       /\ items[i].at = EndOf(items, i - 1)
       /\ items[i].at + Width(items[i].it) <= pos
       /\ ItemAt(buf, items[i].at, items[i].it)

\* What was read is what was written.
FixedInv ==
  /\ items \in Seq(Entries) /\ fits \in 0..Len(items)
  /\ itemsRead \in Seq({Expected(it) : it \in Items}) /\ Len(itemsRead) <= fits
  /\ \A i \in 1..Len(itemsRead) : itemsRead[i] = Expected(items[i].it)
  /\ \E buf, pos, next : FixedAt(buf, pos, next)

LEMMA FixedInitInv == FixedInit => FixedInv
<1> SUFFICES ASSUME FixedInit PROVE FixedInv
  OBVIOUS
<1> DEFINE zeros == [i \in 1..Room |-> 0]
<1>1. items = <<>> /\ itemsRead = <<>> /\ fits = 0 /\ out = OnBuffer(zeros) /\ in = OnBuffer(zeros)
  BY DEF FixedInit
<1>2. Room \in Nat /\ zeros \in Seq(Byte) /\ Len(zeros) = Room
  BY ItemAssumption, BaseFacts DEF Byte
<1> HIDE DEF zeros
<1>3. out = Stream(zeros, 0) /\ in = Stream(zeros, 0)
  BY <1>1, OnBufferIs
<1>4. Len(items) = 0 /\ Len(itemsRead) = 0
  BY <1>1
<1>5. FixedAt(zeros, 0, 0)
  <2>1. EndOf(items, 0) = 0 /\ 0 \in 0..Room /\ 0 <= Room /\ 0 \in Nat /\ \A i \in 1..0 : FALSE
    BY <1>2 DEF EndOf
  <2> QED
    BY <1>1, <1>2, <1>3, <1>4, <2>1, Zenon DEF FixedAt
<1>6. items \in Seq(Entries) /\ itemsRead \in Seq({Expected(it) : it \in Items})
  BY <1>1
<1>7. fits \in 0..Len(items) /\ Len(itemsRead) <= fits /\ \A i \in 1..Len(itemsRead) : FALSE
  BY <1>1, <1>4
<1> QED
  BY <1>5, <1>6, <1>7, Zenon DEF FixedInv

LEMMA WidthIs ==
  ASSUME NEW it \in Items
  PROVE  Width(it) \in Nat
<1>1. Digits(it) \in Nat
  <2>1. Digits(it) \in {1, 2, 4}
    BY ItemIs
  <2> QED
    BY <2>1
<1>2. ~IsNumber(it) => Len(Trailing(it)) \in Nat
  <2>1. ~IsNumber(it) => Trailing(it) \in Seq(Byte)
    BY ItemIs
  <2> QED
    BY <2>1
<1>3. Width(it) = IF IsNumber(it) THEN Digits(it) ELSE Digits(it) + Len(Trailing(it))
  BY ItemIs
<1> QED
  BY <1>1, <1>2, <1>3

\* An item stays where it is when writing goes on behind it.
LEMMA ItemStays ==
  ASSUME NEW buf \in Seq(Byte), NEW pos \in Nat, NEW new, NEW end, Grown(buf, pos, new, end),
         NEW it \in Items, NEW at \in Nat, at + Width(it) <= pos, ItemAt(buf, at, it)
  PROVE  ItemAt(new, at, it)
<1> DEFINE n == Digits(it)
           b == Trailing(it)
<1>1. PICK c \in Seq(Byte) : c = ToBytes(Number(it), n) /\ Len(c) = n
  BY ItemIs, WidthsAre
<1>2. n \in Nat
  <2>1. n \in {1, 2, 4}
    BY ItemIs
  <2> QED
    BY <2>1
<1>3. BytesAt(buf, at, c)
  BY <1>1 DEF ItemAt
<1>4. ~IsNumber(it) => b \in Seq(Byte) /\ BytesAt(buf, at + n, b)
  BY ItemIs DEF ItemAt
<1>5. Width(it) = IF IsNumber(it) THEN n ELSE n + Len(b)
  BY ItemIs
<1> HIDE DEF n, b
<1>6. CASE IsNumber(it)
  <2>1. at + Len(c) <= pos
    BY <1>1, <1>5, <1>6
  <2>2. BytesAt(new, at, c)
    BY <1>3, <2>1, BytesStay
  <2> QED
    BY <1>1, <1>6, <2>2, Zenon DEF ItemAt, n
<1>7. CASE ~IsNumber(it)
  <2>1. b \in Seq(Byte) /\ Len(b) \in Nat /\ at + n \in Nat
    BY <1>2, <1>4, <1>7
  <2>2. at + Len(c) <= pos /\ (at + n) + Len(b) <= pos
    BY <1>1, <1>2, <1>5, <1>7, <2>1
  <2>3. BytesAt(new, at, c)
    BY <1>3, <2>2, BytesStay
  <2>4. BytesAt(new, at + n, b)
    BY <1>4, <1>7, <2>1, <2>2, BytesStay
  <2> QED
    BY <1>1, <1>7, <2>3, <2>4, Zenon DEF ItemAt, n, b
<1> QED
  BY <1>6, <1>7

LEMMA PutItemInv ==
  ASSUME FixedInv, NEW it \in Items, PutItem(it)
  PROVE  FixedInv'
<1>1. PICK buf, pos, next : FixedAt(buf, pos, next)
  BY DEF FixedInv
<1> DEFINE n == Len(items)
           w == Width(it)
<1>2. /\ buf \in Seq(Byte) /\ Len(buf) = Room /\ pos \in Nat /\ pos <= Room /\ Room \in Nat
      /\ out = Stream(buf, pos) /\ items \in Seq(Entries) /\ n \in Nat /\ fits \in 0..n
      /\ w \in Nat
  BY <1>1, ItemAssumption, WidthIs DEF FixedAt, FixedInv
<1>3. out.pos = pos
  BY <1>2, StreamFields
<1>4. /\ itemsRead = <<>> /\ itemsRead' = <<>>
      /\ out' = Written(out, it) /\ items' = Append(items, [it |-> it, at |-> pos])
      /\ fits' = IF fits = n /\ pos + w <= Room THEN fits + 1 ELSE fits
      /\ in' = OnBuffer(out'.buf)
  BY <1>3, Zenon DEF PutItem
<1> HIDE DEF n, w
<1>5. PICK new, end :
        /\ out' = Stream(new, end)
        /\ Grown(buf, pos, new, end)
        /\ pos + w <= Room => end = pos + w /\ ItemAt(new, pos, it)
  <2>1. pos <= Len(buf)
    BY <1>2
  <2>2. PICK new, end :
          /\ Written(Stream(buf, pos), it) = Stream(new, end)
          /\ Grown(buf, pos, new, end)
          /\ pos + Width(it) <= Len(buf) => end = pos + Width(it) /\ ItemAt(new, pos, it)
    BY <1>2, <2>1, WrittenIs
  <2> QED
    BY <1>2, <1>4, <2>2, Zenon DEF w
<1>6. new \in Seq(Byte) /\ Len(new) = Room /\ end \in Nat /\ end <= Room /\ pos <= end
  BY <1>2, <1>5 DEF Grown
<1>7. in' = Stream(new, 0)
  <2>1. out'.buf = new
    BY <1>5, StreamFields
  <2> QED
    BY <1>4, <2>1, OnBufferIs
<1>8. /\ items' \in Seq(Entries) /\ Len(items') = n + 1
      /\ items'[n + 1] = [it |-> it, at |-> pos]
      /\ \A i \in 1..n : items'[i] = items[i]
  <2>1. PICK e : e = [it |-> it, at |-> pos]
    OBVIOUS
  <2>2. e \in Entries
    BY <1>2, <2>1 DEF Entries
  <2>3. items' = Append(items, e)
    BY <1>4, <2>1, Zenon
  <2> QED
    BY <1>2, <2>1, <2>2, <2>3 DEF n
<1>9. Len(itemsRead') = 0 /\ itemsRead' \in Seq({Expected(x) : x \in Items})
  BY <1>4
<1>10. fits' \in 0..Len(items') /\ Len(itemsRead') <= fits'
  BY <1>2, <1>4, <1>8, <1>9
<1>11. \A i \in 0..fits : EndOf(items', i) = EndOf(items, i)
  <2>1. \A i \in 0..fits : i # 0 => i \in 1..n
    BY <1>2
  <2> QED
    BY <1>8, <2>1, Zenon DEF EndOf
<1>12. ASSUME NEW i \in 1..fits
       PROVE  /\ items'[i].at = EndOf(items', i - 1)
              /\ items'[i].at + Width(items'[i].it) <= end
              /\ ItemAt(new, items'[i].at, items'[i].it)
  <2>1. i \in 1..n /\ i - 1 \in 0..fits
    BY <1>2
  <2>2. /\ items[i].at = EndOf(items, i - 1)
        /\ items[i].at + Width(items[i].it) <= pos
        /\ ItemAt(buf, items[i].at, items[i].it)
    BY <1>1 DEF FixedAt
  <2>3. PICK x \in Items, at \in Nat : x = items[i].it /\ at = items[i].at
    <3>1. items[i] \in Entries
      BY <1>2, <2>1 DEF n
    <3>2. items[i].it \in Items /\ items[i].at \in Nat
      BY <3>1 DEF Entries
    <3> QED
      BY <3>2
  <2>4. ItemAt(new, at, x)
    BY <1>2, <1>5, <2>2, <2>3, ItemStays
  <2>5. at + Width(x) <= end
    <3>1. Width(x) \in Nat
      BY WidthIs
    <3> QED
      BY <1>2, <1>6, <2>2, <2>3, <3>1
  <2> QED
    BY <1>8, <1>11, <2>1, <2>2, <2>3, <2>4, <2>5, Zenon
<1>13. FixedAt(new, end, 0)'
  <2>1. EndOf(items', 0) = 0 /\ 0 \in 0..Room
    BY <1>2 DEF EndOf
  <2>2. CASE fits = n /\ pos + w <= Room
    <3>1. fits' = n + 1 /\ n + 1 \in Nat /\ n + 1 # 0 /\ (n + 1) - 1 = n /\ n \in 0..fits
      BY <1>2, <1>4, <2>2
    <3>2. end = pos + w /\ ItemAt(new, pos, it)
      BY <1>5, <2>2
    <3>3. items'[n + 1].at = pos /\ items'[n + 1].it = it
      BY <1>8
    <3>4. pos = EndOf(items, n)
      BY <1>1, <2>2 DEF FixedAt, n
    <3>5. EndOf(items', n + 1) = end
      BY <3>1, <3>2, <3>3, Zenon DEF EndOf, w
    <3>6. \A i \in 1..(n + 1) : i \in 1..n \/ i = n + 1
      BY <1>2
    <3>7. end <= end
      BY <1>6
    <3>8. \A i \in 1..fits' :
            /\ items'[i].at = EndOf(items', i - 1)
            /\ items'[i].at + Width(items'[i].it) <= end
            /\ ItemAt(new, items'[i].at, items'[i].it)
      BY <1>11, <1>12, <2>2, <3>1, <3>2, <3>3, <3>4, <3>6, <3>7, Zenon DEF w
    <3> QED
      BY <1>5, <1>6, <1>7, <1>9, <2>1, <3>1, <3>5, <3>8, Zenon DEF FixedAt
  <2>3. CASE ~(fits = n /\ pos + w <= Room)
    <3>1. fits' = fits
      BY <1>4, <2>3
    <3>2. fits' # Len(items')
      BY <1>2, <1>8, <3>1
    <3> QED
      BY <1>5, <1>6, <1>7, <1>9, <1>12, <2>1, <3>1, <3>2, Zenon DEF FixedAt
  <2> QED
    BY <2>2, <2>3
<1>14. \A i \in 1..Len(itemsRead') : FALSE
  BY <1>9
<1>15. \E b, p, x : FixedAt(b, p, x)'
  BY <1>13, Zenon
<1> QED
  BY <1>8, <1>9, <1>10, <1>14, <1>15, Zenon DEF FixedInv

LEMMA GetItemInv ==
  ASSUME FixedInv, GetItem
  PROVE  FixedInv'
<1>1. PICK buf, pos, next : FixedAt(buf, pos, next)
  BY DEF FixedInv
<1> DEFINE k == Len(itemsRead)
           x == items[k + 1].it
           Values == {Expected(it) : it \in Items}
<1>2. /\ buf \in Seq(Byte) /\ Len(buf) = Room /\ pos \in Nat /\ pos <= Room /\ Room \in Nat
      /\ in = Stream(buf, next) /\ items \in Seq(Entries) /\ fits \in 0..Len(items)
      /\ itemsRead \in Seq(Values) /\ k \in Nat /\ next \in Nat
      /\ next = EndOf(items, k)
  BY <1>1, ItemAssumption DEF FixedAt, FixedInv
<1> HIDE DEF k
<1>3. /\ k < fits /\ UNCHANGED <<out, items, fits>>
      /\ itemsRead' = Append(itemsRead, ReadItem(in, x).val)
      /\ in' = ReadItem(in, x).st
  BY Zenon DEF GetItem, k
<1>4. k + 1 \in 1..fits /\ (k + 1) - 1 = k /\ k + 1 \in 1..Len(items) /\ k + 1 # 0
  BY <1>2, <1>3
<1>5. /\ items[k + 1].at = EndOf(items, (k + 1) - 1)
      /\ items[k + 1].at + Width(x) <= pos
      /\ ItemAt(buf, items[k + 1].at, x)
  BY <1>1, <1>4, Zenon DEF FixedAt
<1>6. items[k + 1].at = next
  BY <1>2, <1>4, <1>5
<1>7. x \in Items
  <2>1. items[k + 1] \in Entries
    BY <1>2, <1>4
  <2> QED
    BY <2>1 DEF Entries
<1>18. PICK end : end = next + Width(x)
  OBVIOUS
<1> DEFINE v == Expected(x)
<1>8. v \in Values
  BY <1>7
<1> HIDE DEF x, Values
<1>9. ReadItem(in, x) = [val |-> v, st |-> Stream(buf, end)]
  BY <1>2, <1>5, <1>6, <1>7, <1>18, ReadItemIs
<1>10. end = EndOf(items, k + 1)
  BY <1>4, <1>6, <1>18, Zenon DEF EndOf, x
<1>11. end \in 0..Room
  <2>1. Width(x) \in Nat /\ next + Width(x) <= pos
    BY <1>5, <1>6, <1>7, WidthIs
  <2> QED
    BY <1>2, <1>18, <2>1
<1> HIDE DEF v
<1>12. itemsRead' = Append(itemsRead, v) /\ in' = Stream(buf, end)
  BY <1>3, <1>9
<1>13. /\ itemsRead' \in Seq(Values) /\ Len(itemsRead') = k + 1
       /\ \A i \in 1..k : itemsRead'[i] = itemsRead[i]
       /\ itemsRead'[k + 1] = v
  BY <1>2, <1>8, <1>12 DEF k
<1>14. \A i \in 1..Len(itemsRead') : itemsRead'[i] = Expected(items'[i].it)
  <2>1. \A i \in 1..(k + 1) : i \in 1..k \/ i = k + 1
    BY <1>2
  <2>2. \A i \in 1..k : itemsRead[i] = Expected(items[i].it)
    BY DEF FixedInv, k
  <2> QED
    BY <1>3, <1>13, <2>1, <2>2, Zenon DEF v, x
<1>15. FixedAt(buf, pos, end)'
  <2>1. /\ out = Stream(buf, pos)
        /\ fits = Len(items) => pos = EndOf(items, fits)
        /\ \A i \in 1..fits :
             /\ items[i].at = EndOf(items, i - 1)
             /\ items[i].at + Width(items[i].it) <= pos
             /\ ItemAt(buf, items[i].at, items[i].it)
    BY <1>1 DEF FixedAt
  <2>2. out' = out /\ items' = items /\ fits' = fits
    BY <1>3, Zenon
  <2>3. end = EndOf(items', Len(itemsRead'))
    BY <1>10, <1>13, <2>2, Zenon
  <2> QED
    BY <1>2, <1>11, <1>12, <2>1, <2>2, <2>3, Zenon DEF FixedAt
<1>16. Len(itemsRead') <= fits'
  BY <1>3, <1>4, <1>13
<1>17. \E b, p, y : FixedAt(b, p, y)'
  BY <1>15, Zenon
<1> QED
  BY <1>2, <1>3, <1>13, <1>14, <1>16, <1>17, Zenon DEF FixedInv, Values

LEMMA FixedStepInv == FixedInv /\ [FixedNext]_fixedVars => FixedInv'
<1> SUFFICES ASSUME FixedInv, [FixedNext]_fixedVars
             PROVE  FixedInv'
  OBVIOUS
<1>1. ASSUME NEW it \in Items, PutItem(it) PROVE FixedInv'
  BY <1>1, PutItemInv
<1>2. CASE GetItem
  BY <1>2, GetItemInv
<1>3. CASE UNCHANGED fixedVars
  BY <1>3, Zenon DEF fixedVars, FixedInv, FixedAt
<1> QED
  BY <1>1, <1>2, <1>3, Zenon DEF FixedNext

LEMMA FixedInvReadBack == FixedInv => ReadBack
<1> SUFFICES ASSUME FixedInv PROVE ReadBack
  OBVIOUS
<1>1. PICK buf, pos, next : FixedAt(buf, pos, next)
  BY DEF FixedInv
<1>2. /\ out = Stream(buf, pos) /\ in = Stream(buf, next)
      /\ Len(buf) = Room /\ pos <= Room /\ next \in 0..Room
  BY <1>1 DEF FixedAt
<1>3. out.buf = buf /\ out.pos = pos /\ in.pos = next
  BY <1>2, StreamFields
<1>4. next <= Room
  BY <1>2
<1>5. \A i \in 1..Len(itemsRead) : itemsRead[i] = Expected(items[i].it)
  BY DEF FixedInv
<1>6. ASSUME NEW i \in 1..Len(itemsRead)
      PROVE  /\ ~IsString(items[i].it) => itemsRead[i] = items[i].it.val
             /\ IsString(items[i].it) /\ Len(items[i].it.val) < Base - 1
                  => itemsRead[i] = Append(items[i].it.val, 0)
  <2>1. PICK it : it = items[i].it
    OBVIOUS
  <2>2. itemsRead[i] = Expected(it)
    BY <1>5, <2>1
  <2>3. ~IsString(it) => itemsRead[i] = it.val
    BY <2>2, Zenon DEF Expected, IsString
  <2>4. IsString(it) /\ Len(it.val) < Base - 1 => itemsRead[i] = Append(it.val, 0)
    BY <2>2, Zenon DEF Expected, IsString, Kept
  <2> QED
    BY <2>1, <2>3, <2>4
<1>7. Len(out.buf) = Room /\ out.pos <= Room /\ in.pos <= Room
  BY <1>2, <1>3, <1>4
<1> QED
  BY <1>6, <1>7, Zenon DEF ReadBack

\* util.cpp:375: whatever a program writes to a buffer of fixed length, the items
\* before the first that did not fit are read as they were written, those behind
\* a string too long for its size byte too, although writing went on behind them;
\* and no position is past the end of the buffer.
THEOREM ReadBackHolds == FixedSpec => []ReadBack
<1>1. FixedSpec => []FixedInv
  BY FixedInitInv, FixedStepInv, PTL DEF FixedSpec
<1> QED
  BY <1>1, FixedInvReadBack, PTL
=============================================================================
