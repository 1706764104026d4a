---------------------------- MODULE TunNatProofs ----------------------------
(***************************************************************************)
(* The packets of the TUN: their sums, of whatever words and bytes, with   *)
(* all the carries; and what the address translation keeps.                *)
(***************************************************************************)
EXTENDS TunNat, Checksum, LRUProofs, WellFoundedInduction

(* What the carries are made of.                                           *)
LEMMA Parts ==
  ASSUME NEW n \in Nat
  PROVE  /\ n \div Word \in Nat /\ n % Word \in Nat
         /\ n % Word < Word
         /\ n = Word * (n \div Word) + (n % Word)
BY SMT DEF Word

(* A carry takes a multiple of 65535 away, and leaves no zero.             *)
LEMMA CarryValue ==
  ASSUME NEW n \in Nat
  PROVE  /\ Carry(n) \in Nat
         /\ n = Carry(n) + (Word - 1) * (n \div Word)
         /\ n > 0 => Carry(n) > 0
<1> DEFINE q == n \div Word
           r == n % Word
<1>1. q \in Nat /\ r \in Nat /\ n = Word * q + r
  BY Parts
<1>2. Carry(n) = q + r
  BY DEF Carry
<1> HIDE DEF q, r
<1>3. n = (q + r) + (Word - 1) * q /\ (n > 0 => q + r > 0) /\ q + r \in Nat
  BY SMT, <1>1 DEF Word
<1> QED
  BY <1>2, <1>3 DEF q

(* checksum's loop goes round twice at the most: what the second carry     *)
(* leaves is a word.                                                       *)
LEMMA TwoRounds ==
  ASSUME NEW n \in Nat, n < Word * Word
  PROVE  Carry(n) \in Nat /\ Carry(Carry(n)) \in Nat /\ Carry(Carry(n)) < Word
<1>1. Carry(n) \in Nat /\ Carry(Carry(n)) \in Nat
  BY CarryValue
<1>2. n \div Word \in Nat /\ n \div Word < Word /\ n % Word \in Nat /\ n % Word < Word
  <2>1. n \div Word < Word
    BY SMT DEF Word
  <2> QED
    BY <2>1, Parts
<1>3. Carry(n) <= 131070
  BY SMT, <1>2 DEF Carry, Word
<1> DEFINE c == Carry(n)
<1> HIDE DEF c
<1>4. c \in Nat /\ c <= 131070
  BY <1>1, <1>3 DEF c
<1>5. Carry(c) < Word
  <2>1. CASE c < 65536
    BY SMT, <1>4, <2>1 DEF Carry, Word
  <2>2. CASE c >= 65536
    <3>1. c \div 65536 = 1 /\ c % 65536 = c - 65536
      BY SMT, <1>4, <2>2
    <3> QED
      BY SMT, <1>4, <3>1 DEF Carry, Word
  <2> QED
    BY SMT, <1>4, <2>1, <2>2
<1> QED
  BY <1>1, <1>5 DEF c

(* What is folded is a word that differs from the sum by a multiple of     *)
(* 65535, and is zero only if the sum is.                                  *)
LEMMA FoldedValue ==
  ASSUME NEW n \in Nat, n < Word * Word
  PROVE  /\ Folded(n) \in Nat /\ Folded(n) < Word
         /\ \E k \in Nat : n = Folded(n) + (Word - 1) * k
         /\ n > 0 => Folded(n) > 0
<1> DEFINE c == Carry(n)
           i == n \div Word
           j == c \div Word
<1>1. /\ c \in Nat /\ i \in Nat
      /\ n = c + (Word - 1) * i
      /\ n > 0 => c > 0
  BY CarryValue, Parts
<1>2. /\ Carry(c) \in Nat /\ j \in Nat
      /\ c = Carry(c) + (Word - 1) * j
      /\ c > 0 => Carry(c) > 0
  BY <1>1, CarryValue, Parts
<1>3. Carry(c) < Word
  BY TwoRounds
<1> HIDE DEF c, i, j
<1>4. CASE n < Word
  <2>1. Folded(n) = n
    BY <1>4 DEF Folded
  <2>2. 0 \in Nat /\ n = n + (Word - 1) * 0
    BY SMT DEF Word
  <2> QED
    BY <1>4, <2>1, <2>2
<1>5. CASE ~(n < Word) /\ c < Word
  <2>1. Folded(n) = c
    BY <1>5 DEF Folded, c
  <2> QED
    BY <1>1, <1>5, <2>1
<1>6. CASE ~(n < Word) /\ ~(c < Word)
  <2>1. Folded(n) = Carry(c)
    BY <1>6 DEF Folded, c
  <2>2. j + i \in Nat /\ n = Carry(c) + (Word - 1) * (j + i)
    BY SMT, <1>1, <1>2 DEF Word
  <2> QED
    BY <1>1, <1>2, <1>3, <2>1, <2>2
<1> QED
  BY <1>4, <1>5, <1>6

(* The checksum that checksum() gives makes the sum of any words, its own  *)
(* word among them, one that a receiver takes: whatever the words add up   *)
(* to in 32 bits, and however many carries there are.                      *)
THEOREM ChecksumVerifies ==
  ASSUME NEW n \in Nat, n < Word * Word
  PROVE  Complement(n) \in Nat /\ Complement(n) < Word /\ Verifies(n + Complement(n))
<1> DEFINE f == Folded(n)
           e == Word - 1 - f
<1>1. f \in Nat /\ f < Word
  BY FoldedValue
<1>2. PICK k \in Nat : n = f + (Word - 1) * k
  BY FoldedValue
<1>3. Complement(n) = e % Word
  BY Zenon DEF Complement
<1> HIDE DEF f
<1>4. e \in Nat /\ e < Word /\ n + e = (Word - 1) * (k + 1)
  BY SMT, <1>1, <1>2 DEF Word
<1> HIDE DEF e
<1>5. e % Word = e
  BY SMT, <1>4 DEF Word
<1>6. n + e > 0
  BY SMT, <1>4 DEF Word
<1>7. (n + e) % (Word - 1) = 0
  <2> DEFINE j == k + 1
  <2>1. j \in Nat
    BY SMT
  <2>2. n + e = (Word - 1) * j
    BY <1>4
  <2> HIDE DEF j
  <2>3. ((Word - 1) * j) % (Word - 1) = 0
    BY SMT, <2>1 DEF Word
  <2> QED
    BY Zenon, <2>2, <2>3
<1>8. Verifies(n + e)
  BY Zenon, <1>6, <1>7 DEF Verifies
<1>9. Complement(n) = e
  BY Zenon, <1>3, <1>5
<1> QED
  BY Zenon, <1>4, <1>8, <1>9

(* The header that updateChecksum leaves has a sum that is right, whatever *)
(* addresses and other words it has.                                       *)
THEOREM HeadSumRight ==
  ASSUME NEW h, h = [src |-> h.src, dst |-> h.dst, rest |-> h.rest, sum |-> h.sum],
         HeadSum(h) \in Nat, HeadSum(h) < Word * Word
  PROVE  HeadGood(UpdateHead(h))
<1> DEFINE g == UpdateHead(h)
<1>1. /\ g.sum = Complement(HeadSum(h))
      /\ g.src = h.src /\ g.dst = h.dst /\ g.rest = h.rest
  BY DEF UpdateHead
<1>2. HeadSum(g) = HeadSum(h)
  BY <1>1 DEF HeadSum
<1>3. Verifies(HeadSum(h) + Complement(HeadSum(h)))
  BY ChecksumVerifies
<1> QED
  BY Zenon, <1>1, <1>2, <1>3 DEF HeadGood

-----------------------------------------------------------------------------
Less == {p \in Nat \X Nat : p[1] < p[2]}

(* A set of numbers has a least one; whatever all numbers up to n have, if *)
(* they have it one after the other.                                       *)
LEMMA Least == ASSUME NEW T \in SUBSET Nat, T # {} PROVE \E x \in T : \A y \in T : x <= y
<1>1. IsWellFoundedOn(Less, Nat)
  BY NatLessThanWellFounded DEF OpToRel, Less
<1>2. PICK x \in T : \A y \in T : ~ (<<y, x>> \in Less)
  BY <1>1, WFMin
<1>3. \A y \in Nat : y < x => <<y, x>> \in Less
  BY DEF Less
<1>4. ASSUME NEW y \in T PROVE x <= y
  <2>1. y \in Nat /\ x \in Nat
    OBVIOUS
  <2>2. ~ (y < x)
    BY <1>2, <1>3, <2>1, Zenon
  <2> QED BY <2>1, <2>2
<1> QED BY <1>4

(* What 0 has, and each number up to n if the one before it has it, all of *)
(* them have: the sum of bytes is followed with this.                      *)
LEMMA Stepwise ==
  ASSUME NEW n \in Nat, NEW S, 0 \in S, \A i \in 1 .. n : i - 1 \in S => i \in S
  PROVE  \A i \in 0 .. n : i \in S
<1> DEFINE T == {i \in 0 .. n : i \notin S}
<1> SUFFICES ASSUME T # {} PROVE FALSE
  OBVIOUS
<1>0. T \in SUBSET Nat
  OBVIOUS
<1>1. PICK x \in T : \A y \in T : x <= y
  <2> HIDE DEF T
  <2> QED BY <1>0, Least
<1>2. x \in 1 .. n /\ x - 1 \notin T /\ x - 1 \in 0 .. n
  BY <1>1
<1> QED BY <1>1, <1>2

-----------------------------------------------------------------------------
(* The sum of bytes, one after the other.                                  *)
Weight(b, i) == IF i % 2 = 1 THEN b[i] * 256 ELSE b[i]

Adds(f, b) ==
  f = [i \in 0 .. Len(b) |-> IF i = 0 THEN 0 ELSE f[i - 1] + Weight(b, i)]

LEMMA SumSteps == ASSUME NEW b, Len(b) \in Nat PROVE \E f : Adds(f, b) /\ Sum(b) = f[Len(b)]
<1> DEFINE n == Len(b)
           Up(f, k) == f = [i \in 0 .. k |-> IF i = 0 THEN 0 ELSE f[i - 1] + Weight(b, i)]
           S == {k \in 0 .. n : \E f : Up(f, k)}
<1>1. 0 \in S
  <2>1. Up([i \in 0 .. 0 |-> 0], 0)
    OBVIOUS
  <2>2. 0 \in 0 .. n
    OBVIOUS
  <2> HIDE DEF Up
  <2> QED BY <2>1, <2>2
<1>2. ASSUME NEW k \in 1 .. n, k - 1 \in S PROVE k \in S
  <2>1. PICK f : Up(f, k - 1)
    BY <1>2
  <2> DEFINE g == [i \in 0 .. k |-> IF i = k THEN f[k - 1] + Weight(b, k) ELSE f[i]]
  <2>2. \A i \in 0 .. k - 1 : g[i] = f[i]
    OBVIOUS
  <2>3. ASSUME NEW i \in 0 .. k
        PROVE  g[i] = IF i = 0 THEN 0 ELSE g[i - 1] + Weight(b, i)
    <3>1. CASE i = k
      BY <2>2, <3>1
    <3>2. CASE i # k /\ i # 0
      <4>1. i \in 0 .. k - 1 /\ i - 1 \in 0 .. k - 1
        BY <3>2
      <4>2. f[i] = f[i - 1] + Weight(b, i)
        BY <2>1, <3>2, <4>1
      <4> QED BY <2>2, <3>2, <4>1, <4>2
    <3>3. CASE i = 0
      BY <2>1, <2>2, <3>3
    <3> QED BY <3>1, <3>2, <3>3
  <2> HIDE DEF g
  <2>4. g = [i \in 0 .. k |-> g[i]]
    BY DEF g
  <2>5. Up(g, k)
    BY <2>3, <2>4
  <2> HIDE DEF Up
  <2> QED BY <2>5
<1>3. n \in S
  <2>1. n \in Nat /\ n \in 0 .. n
    OBVIOUS
  <2> HIDE DEF S, n
  <2>2. \A i \in 0 .. n : i \in S
    BY <1>1, <1>2, <2>1, Stepwise
  <2> QED BY <2>1, <2>2
<1>4. \E f : Up(f, n)
  BY <1>3
<1>5. Sum(b) = (CHOOSE f : Up(f, n))[n]
  BY DEF Sum, Weight
<1>6. \A f : Up(f, n) <=> Adds(f, b)
  BY DEF Adds
<1> HIDE DEF Up, n
<1> QED BY <1>4, <1>5, <1>6 DEF n

(* A byte adds 255 * 256 at the most.                                      *)
LEMMA WeightOf ==
  ASSUME NEW b \in Seq(Byte), NEW i \in 1 .. Len(b)
  PROVE  Weight(b, i) \in Nat /\ Weight(b, i) <= 65280
<1> DEFINE x == b[i]
<1>0. x \in Byte
  OBVIOUS
<1> HIDE DEF x
<1>1. x \in 0 .. 255
  BY <1>0 DEF Byte
<1>2. x * 256 \in Nat /\ x * 256 <= 65280 /\ x \in Nat /\ x <= 65280
  BY <1>1
<1> QED BY <1>2 DEF Weight, x

(* A sum of bytes stays below 65280 for each, which with the words added   *)
(* to it are 32 bits for any packet.                                       *)
LEMMA SumBound ==
  ASSUME NEW b \in Seq(Byte) PROVE Sum(b) \in Nat /\ Sum(b) <= Len(b) * 65280
<1> DEFINE n == Len(b)
<1>1. n \in Nat
  OBVIOUS
<1>2. PICK f : Adds(f, b) /\ Sum(b) = f[n]
  BY SumSteps
<1>3. \A i \in 0 .. n : f[i] = IF i = 0 THEN 0 ELSE f[i - 1] + Weight(b, i)
  BY <1>2 DEF Adds
<1>4. \A i \in 1 .. n : Weight(b, i) \in Nat /\ Weight(b, i) <= 65280
  BY WeightOf
<1> DEFINE S == {i \in 0 .. n : f[i] \in Nat /\ f[i] <= i * 65280}
<1> HIDE DEF n
<1>5. 0 \in S
  BY <1>1, <1>3
<1>6. ASSUME NEW i \in 1 .. n, i - 1 \in S PROVE i \in S
  <2> DEFINE v == Weight(b, i)
             u == f[i - 1]
  <2>1. u \in Nat /\ u <= (i - 1) * 65280 /\ v \in Nat /\ v <= 65280
    BY <1>4, <1>6
  <2>2. f[i] = u + v
    BY <1>1, <1>3
  <2> HIDE DEF u, v
  <2>3. f[i] \in Nat /\ f[i] <= i * 65280
    BY <2>1, <2>2
  <2> QED BY <1>1, <2>3
<1>7. \A i \in 0 .. n : i \in S
  <2> HIDE DEF S
  <2> QED BY <1>1, <1>5, <1>6, Stepwise
<1> QED BY <1>1, <1>2, <1>7 DEF n

(* The two bytes of a word, and what putting them changes.                 *)
LEMMA WordParts ==
  ASSUME NEW w \in 0 .. Word - 1
  PROVE  w \div 256 \in 0 .. 255 /\ w % 256 \in 0 .. 255 /\ ((w \div 256) * 256) + (w % 256) = w
BY SMT DEF Word

LEMMA PutWordIs ==
  ASSUME NEW b \in Seq(Byte), NEW i \in 1 .. Len(b) - 1, NEW w \in 0 .. Word - 1
  PROVE  /\ PutWord(b, i, w) \in Seq(Byte) /\ Len(PutWord(b, i, w)) = Len(b)
         /\ \A j \in 1 .. Len(b) :
              PutWord(b, i, w)[j] = IF j = i THEN w \div 256
                                    ELSE IF j = i + 1 THEN w % 256 ELSE b[j]
<1> DEFINE x == w \div 256
           y == w % 256
<1>1. x \in Byte /\ y \in Byte
  BY WordParts DEF Byte
<1>2. PutWord(b, i, w) = [b EXCEPT ![i] = x, ![i + 1] = y]
  BY DEF PutWord
<1> HIDE DEF x, y
<1> DEFINE c == [b EXCEPT ![i] = x, ![i + 1] = y]
<1>3. c \in Seq(Byte) /\ Len(c) = Len(b)
      /\ \A j \in 1 .. Len(b) : c[j] = IF j = i THEN x ELSE IF j = i + 1 THEN y ELSE b[j]
  BY <1>1
<1> HIDE DEF c
<1> QED BY <1>2, <1>3 DEF c, x, y

(* A word that is put where a word of the sum begins adds itself.          *)
LEMMA SumPut ==
  ASSUME NEW b \in Seq(Byte), NEW i \in 1 .. Len(b) - 1, i % 2 = 1, NEW w \in 0 .. Word - 1
  PROVE  Sum(PutWord(b, i, w)) = Sum(PutWord(b, i, 0)) + w
<1> DEFINE n == Len(b)
           c == PutWord(b, i, w)
           d == PutWord(b, i, 0)
           x == w \div 256
           y == w % 256
<1>1. n \in Nat /\ i \in 1 .. n - 1 /\ (i + 1) % 2 # 1 /\ i % 2 = 1
  OBVIOUS
<1>2. 0 \in 0 .. Word - 1 /\ 0 \div 256 = 0 /\ 0 % 256 = 0
  BY SMT DEF Word
<1>3. c \in Seq(Byte) /\ Len(c) = n /\ d \in Seq(Byte) /\ Len(d) = n
  BY <1>2, PutWordIs
<1>4. \A j \in 1 .. n : /\ c[j] = IF j = i THEN x ELSE IF j = i + 1 THEN y ELSE b[j]
                        /\ d[j] = IF j = i THEN 0 ELSE IF j = i + 1 THEN 0 ELSE b[j]
  BY <1>2, PutWordIs
<1>5. x \in 0 .. 255 /\ y \in 0 .. 255 /\ x * 256 + y = w
  BY WordParts
<1>6. PICK f : Adds(f, c) /\ Sum(c) = f[n]
  BY <1>1, <1>3, SumSteps
<1>7. PICK g : Adds(g, d) /\ Sum(d) = g[n]
  BY <1>1, <1>3, SumSteps
<1>8. \A j \in 0 .. n : /\ f[j] = IF j = 0 THEN 0 ELSE f[j - 1] + Weight(c, j)
                        /\ g[j] = IF j = 0 THEN 0 ELSE g[j - 1] + Weight(d, j)
  BY <1>3, <1>6, <1>7 DEF Adds
<1>9. \A j \in 1 .. n : Weight(c, j) \in Nat /\ Weight(d, j) \in Nat
  BY <1>3, WeightOf
<1> DEFINE Off(j) == IF j < i THEN 0 ELSE IF j = i THEN x * 256 ELSE x * 256 + y
           S == {j \in 0 .. n : g[j] \in Nat /\ f[j] = g[j] + Off(j)}
<1> HIDE DEF n, c, d, x, y
<1>10. ASSUME NEW j \in 1 .. n
       PROVE  Weight(c, j) = Weight(d, j) + (IF j = i THEN x * 256 ELSE IF j = i + 1 THEN y ELSE 0)
  <2>1. CASE j = i
    BY <1>1, <1>4, <1>5, <2>1 DEF Weight
  <2>2. CASE j = i + 1
    BY <1>1, <1>4, <1>5, <2>2 DEF Weight
  <2>3. CASE j # i /\ j # i + 1
    <3>1. Weight(c, j) = Weight(d, j)
      BY <1>4, <2>3 DEF Weight
    <3> QED BY <1>9, <2>3, <3>1
  <2> QED BY <2>1, <2>2, <2>3
<1>11. 0 \in S
  BY <1>1, <1>8
<1>12. ASSUME NEW j \in 1 .. n, j - 1 \in S PROVE j \in S
  <2>1. j \in 0 .. n /\ j # 0 /\ g[j - 1] \in Nat /\ f[j - 1] = g[j - 1] + Off(j - 1)
    BY <1>1, <1>12
  <2>2. f[j] = f[j - 1] + Weight(c, j) /\ g[j] = g[j - 1] + Weight(d, j)
    BY <1>8, <2>1
  <2>3. Weight(d, j) \in Nat
    BY <1>9
  <2>4. g[j] \in Nat
    BY <2>1, <2>2, <2>3
  <2>5. f[j] = g[j] + Off(j)
    <3>1. Off(j) = Off(j - 1) + (IF j = i THEN x * 256 ELSE IF j = i + 1 THEN y ELSE 0)
      BY <1>1, <1>5, <2>1
    <3>2. f[j] = g[j - 1] + Off(j - 1) + (Weight(d, j) + (IF j = i THEN x * 256 ELSE IF j = i + 1 THEN y ELSE 0))
      BY <1>10, <2>1, <2>2
    <3>3. Off(j - 1) \in Nat /\ (IF j = i THEN x * 256 ELSE IF j = i + 1 THEN y ELSE 0) \in Nat
      BY <1>5
    <3> DEFINE e == IF j = i THEN x * 256 ELSE IF j = i + 1 THEN y ELSE 0
               o == Off(j - 1)
               u == Weight(d, j)
               v == g[j - 1]
    <3>4. /\ f[j] = v + o + (u + e) /\ g[j] = v + u /\ Off(j) = o + e
          /\ e \in Nat /\ o \in Nat /\ u \in Nat /\ v \in Nat
      BY <2>1, <2>2, <2>3, <3>1, <3>2, <3>3
    <3> HIDE DEF e, o, u, v, Off
    <3>5. v + o + (u + e) = (v + u) + (o + e)
      BY <3>4
    <3> QED BY <3>4, <3>5, Zenon
  <2> QED BY <2>1, <2>4, <2>5
<1>13. n \in S
  <2> HIDE DEF S
  <2>1. \A j \in 0 .. n : j \in S
    BY <1>1, <1>11, <1>12, Stepwise
  <2>2. n \in 0 .. n
    BY <1>1
  <2> QED BY <2>1, <2>2
<1>14. Off(n) = w
  BY <1>1, <1>5
<1>15. Sum(c) = Sum(d) + w
  <2> HIDE DEF Off
  <2> QED BY <1>6, <1>7, <1>13, <1>14
<1> QED BY <1>15 DEF c, d

-----------------------------------------------------------------------------
(* How large a sum can get.                                                *)
LEMMA IpSum == ASSUME NEW a \in Ip PROVE Sum(a) \in Nat /\ Sum(a) <= 261120
<1>1. a \in Seq(Byte)
  BY ChecksumAssumption
<1>2. Len(a) = 4
  BY ChecksumAssumption
<1>3. Sum(a) \in Nat /\ Sum(a) <= Len(a) * 65280
  BY <1>1, SumBound
<1> QED BY <1>2, <1>3

LEMMA WordIs == ASSUME NEW w \in Nat, w < Word PROVE w \in 0 .. Word - 1
<1>1. Word \in Nat
  BY DEF Word
<1> QED BY <1>1

LEMMA HeadSumBound ==
  ASSUME NEW h, h.src \in Ip, h.dst \in Ip, h.rest \in Rest
  PROVE  HeadSum(h) \in Nat /\ HeadSum(h) < Word * Word
<1> DEFINE a == Sum(h.src)
           b == Sum(h.dst)
           c == h.rest
           m == 25 * (Word - 1)
<1>1. a \in Nat /\ a <= 261120 /\ b \in Nat /\ b <= 261120
  BY IpSum
<1>2. c \in 0 .. m
  BY ChecksumAssumption
<1>3. HeadSum(h) = a + b + c
  BY DEF HeadSum
<1>4. m \in Nat /\ m <= 2000000
  BY SMT DEF Word
<1> HIDE DEF a, b, c, m
<1>5. c \in Nat /\ c <= 2000000
  BY <1>2, <1>4
<1>6. a + b + c \in Nat /\ a + b + c <= 3000000
  BY <1>1, <1>5
<1> DEFINE s == a + b + c
<1> HIDE DEF s
<1>7. s < Word * Word
  <2>1. s \in Nat /\ s <= 3000000
    BY <1>6 DEF s
  <2> QED BY <2>1, SMT DEF Word
<1> QED BY <1>3, <1>6, <1>7 DEF s

LEMMA PutOne ==
  ASSUME NEW L, NEW b \in Seq(L), NEW x \in L
  PROVE  [b EXCEPT ![1] = x] \in Seq(L) /\ Len([b EXCEPT ![1] = x]) = Len(b)
<1> DEFINE n == Len(b)
<1>1. n \in Nat /\ b \in [1 .. n -> L]
  OBVIOUS
<1>2. [b EXCEPT ![1] = x] \in [1 .. n -> L]
  BY <1>1
<1> QED BY <1>1, <1>2

(* The sum of TCP, UDP or ICMP that updateChecksum leaves is right, of any *)
(* packet between any addresses, and of an odd length, too.                *)
THEOREM BodySumRight ==
  ASSUME NEW p \in {"tcp", "udp", "icmp"}, NEW h, h.src \in Ip, h.dst \in Ip,
         NEW b \in Seq(Byte), SumAt[p] < Len(b), Len(b) < Word
  PROVE  /\ UpdateBody(p, h, b) \in Seq(Byte) /\ Len(UpdateBody(p, h, b)) = Len(b)
         /\ BodyGood(p, h, UpdateBody(p, h, b))
<1> DEFINE i == SumAt[p]
           z == PutWord(b, i, 0)
           n == PseudoSum(p, h, b) + Sum(z)
           w == Complement(n)
           c == PutWord(b, i, w)
<1>1. i \in 1 .. Len(b) - 1 /\ i % 2 = 1
  <2>1. i \in {17, 7, 3}
    BY DEF SumAt
  <2>2. i \in Nat \ {0} /\ i % 2 = 1
    BY <2>1
  <2>3. i < Len(b) /\ Len(b) \in Nat
    OBVIOUS
  <2> HIDE DEF i
  <2> QED BY <2>2, <2>3
<1>2. 0 \in 0 .. Word - 1
  BY SMT DEF Word
<1> HIDE DEF i
<1>3. z \in Seq(Byte) /\ Len(z) = Len(b)
  BY <1>1, <1>2, PutWordIs
<1>4. n \in Nat /\ n < Word * Word
  <2> DEFINE s == Sum(z)
             q == PseudoSum(p, h, b)
             l == Len(b)
  <2>1. s \in Nat /\ s <= l * 65280
    BY <1>3, SumBound
  <2>2. l \in Nat /\ l < Word
    OBVIOUS
  <2>3. q \in Nat /\ q <= 522240 + 17 + l
    <3> DEFINE e == Sum(h.src)
               f == Sum(h.dst)
    <3>1. e \in Nat /\ e <= 261120 /\ f \in Nat /\ f <= 261120
      BY IpSum
    <3>2. q = IF p = "icmp" THEN 0 ELSE e + f + Number[p] + l
      BY DEF PseudoSum
    <3>3. p # "icmp" => Number[p] \in {6, 17}
      BY DEF Number
    <3> HIDE DEF e, f, l, q
    <3>4. CASE p = "icmp"
      BY <2>2, <3>2, <3>4
    <3>5. CASE p # "icmp"
      BY <2>2, <3>1, <3>2, <3>3, <3>5
    <3> QED BY <3>4, <3>5
  <2> HIDE DEF s, q, l
  <2>4. q + s \in Nat /\ q + s < Word * Word
    BY <2>1, <2>2, <2>3, SMT DEF Word
  <2> QED BY <2>4 DEF q, s
<1> HIDE DEF z, n
<1>5. w \in Nat /\ w < Word /\ Verifies(n + w)
  BY <1>4, ChecksumVerifies
<1> HIDE DEF w
<1>6. w \in 0 .. Word - 1
  BY <1>5, WordIs
<1>7. c \in Seq(Byte) /\ Len(c) = Len(b)
  BY <1>1, <1>6, PutWordIs
<1>8. Sum(c) = Sum(z) + w
  BY <1>1, <1>6, SumPut DEF z
<1> HIDE DEF c
<1>9. PseudoSum(p, h, c) = PseudoSum(p, h, b)
  BY <1>7 DEF PseudoSum
<1>10. PseudoSum(p, h, c) + Sum(c) = n + w
  <2>1. Sum(z) \in Nat
    BY <1>3, SumBound
  <2>2. PseudoSum(p, h, b) \in Nat
    <3>1. Sum(h.src) \in Nat /\ Sum(h.dst) \in Nat /\ Len(b) \in Nat
      BY IpSum
    <3>2. p # "icmp" => Number[p] \in {6, 17}
      BY DEF Number
    <3> QED BY <3>1, <3>2 DEF PseudoSum
  <2> DEFINE q == PseudoSum(p, h, b)
             s == Sum(z)
  <2>3. n = q + s /\ PseudoSum(p, h, c) = q /\ Sum(c) = s + w
    BY <1>8, <1>9 DEF n
  <2>4. q \in Nat /\ s \in Nat
    BY <2>1, <2>2
  <2> HIDE DEF q, s
  <2>5. q + (s + w) = (q + s) + w
    BY <1>5, <2>4
  <2> QED BY <2>3, <2>5
<1>11. BodyGood(p, h, c)
  BY <1>5, <1>10 DEF BodyGood
<1>12. UpdateBody(p, h, b) = c
  BY DEF UpdateBody, c, w, n, z, i
<1> QED BY <1>7, <1>11, <1>12

(* The packet that was read has bytes enough for its protocol and a sum    *)
(* in its header that is right.                                            *)
Header == [src : Ip, dst : Ip, rest : Rest, sum : Nat]

Fitting(p, b) == b \in Seq(Byte) /\ SumAt[p] < Len(b) /\ Len(b) < Word

(* The inductive invariant: beside what was written, the packet that was   *)
(* read has the bytes its protocol needs, and a header with a right sum,   *)
(* which an echo keeps.                                                    *)
SumsInv ==
  /\ proto \in {"tcp", "udp", "icmp"}
  /\ head \in Header /\ HeadGood(head)
  /\ Fitting(proto, body)
  /\ SumsVerify

LEMMA UpdatedHead ==
  ASSUME NEW h \in Header PROVE UpdateHead(h) \in Header /\ HeadGood(UpdateHead(h))
<1>1. h = [src |-> h.src, dst |-> h.dst, rest |-> h.rest, sum |-> h.sum]
      /\ h.src \in Ip /\ h.dst \in Ip /\ h.rest \in Rest
  BY DEF Header
<1>2. HeadSum(h) \in Nat /\ HeadSum(h) < Word * Word
  BY <1>1, HeadSumBound
<1>3. Complement(HeadSum(h)) \in Nat
  BY <1>2, ChecksumVerifies
<1>4. UpdateHead(h) \in Header
  BY <1>3 DEF UpdateHead, Header
<1>5. HeadGood(UpdateHead(h))
  BY <1>1, <1>2, HeadSumRight
<1> QED BY <1>4, <1>5

LEMMA PutFits ==
  ASSUME NEW p, NEW b, Fitting(p, b), NEW i \in 1 .. Len(b) - 1, NEW w \in 0 .. Word - 1
  PROVE  Fitting(p, PutWord(b, i, w))
<1>1. b \in Seq(Byte)
  BY DEF Fitting
<1>2. PutWord(b, i, w) \in Seq(Byte) /\ Len(PutWord(b, i, w)) = Len(b)
  BY <1>1, PutWordIs
<1> QED BY <1>2 DEF Fitting

(* What is written after the addresses, or an echo's, are exchanged.       *)
LEMMA TranslateRight ==
  ASSUME SumsInv, NEW s \in Ip, NEW d \in Ip, NEW b, Fitting(proto, b), Translate(s, d, b)
  PROVE  SumsInv'
<1> DEFINE h == [head EXCEPT !.src = s, !.dst = d]
<1>1. /\ written' = [head |-> UpdateHead(h), body |-> UpdateBody(proto, h, b)]
      /\ UNCHANGED <<proto, head, body>>
  BY DEF Translate
<1>2. h \in Header /\ h.src \in Ip /\ h.dst \in Ip /\ h.rest = head.rest
  BY DEF SumsInv, Header
<1> HIDE DEF h
<1> DEFINE g == UpdateHead(h)
           c == UpdateBody(proto, h, b)
<1>3. HeadGood(g) /\ g.src = h.src /\ g.dst = h.dst
  <2>1. HeadGood(g)
    BY <1>2, UpdatedHead
  <2> QED BY <1>2, <2>1 DEF UpdateHead, Header
<1>4. BodyGood(proto, h, c)
  BY <1>2, BodySumRight DEF SumsInv, Fitting
<1> HIDE DEF g, c
<1>5. BodyGood(proto, g, c)
  BY <1>3, <1>4 DEF BodyGood, PseudoSum
<1>6. written'.head = g /\ written'.body = c
  BY <1>1 DEF g, c
<1>7. SumsVerify'
  BY <1>1, <1>3, <1>5, <1>6 DEF SumsVerify, HeadGood, BodyGood, HeadSum, PseudoSum
<1> QED BY <1>1, <1>7 DEF SumsInv, HeadGood, HeadSum, Fitting

LEMMA EchoRight == ASSUME SumsInv, Echo PROVE SumsInv'
<1> DEFINE h == [head EXCEPT !.src = head.dst, !.dst = head.src]
           b == [body EXCEPT ![1] = 0]
           c == UpdateBody(proto, h, b)
<1>1. /\ written' = [head |-> h, body |-> c]
      /\ UNCHANGED <<proto, head, body>>
  BY DEF Echo
<1>2. h \in Header /\ h.src = head.dst /\ h.dst = head.src /\ h.rest = head.rest /\ h.sum = head.sum
      /\ head.src \in Ip /\ head.dst \in Ip
  BY DEF SumsInv, Header
<1>3. Fitting(proto, b)
  <2>1. 0 \in Byte /\ body \in Seq(Byte) /\ SumAt[proto] < Len(body) /\ Len(body) < Word
    BY DEF SumsInv, Fitting, Byte
  <2>2. b \in Seq(Byte) /\ Len(b) = Len(body)
    BY <2>1, PutOne
  <2> QED BY <2>1, <2>2 DEF Fitting
<1>4. HeadGood(h)
  <2>1. Sum(head.src) \in Nat /\ Sum(head.dst) \in Nat
    BY <1>2, IpSum
  <2>2. Sum(head.src) + Sum(head.dst) = Sum(head.dst) + Sum(head.src)
    BY <2>1
  <2>3. HeadSum(h) = HeadSum(head)
    BY <1>2, <2>2 DEF HeadSum
  <2> QED BY <1>2, <2>3 DEF SumsInv, HeadGood
<1> HIDE DEF h, b
<1>5. BodyGood(proto, h, c)
  BY <1>2, <1>3, BodySumRight DEF SumsInv, Fitting
<1> HIDE DEF c
<1>6. written'.head = h /\ written'.body = c
  BY <1>1
<1>7. SumsVerify'
  BY <1>1, <1>4, <1>5, <1>6 DEF SumsVerify, HeadGood, BodyGood, HeadSum, PseudoSum
<1> QED BY <1>1, <1>7 DEF SumsInv, HeadGood, HeadSum, Fitting

LEMMA SumsInitInv == SumsInit => SumsInv
<1> SUFFICES ASSUME SumsInit PROVE SumsInv
  OBVIOUS
<1>1. proto \in {"tcp", "udp", "icmp"} /\ proto \in DOMAIN SumAt
  BY DEF SumsInit, SumAt
<1>2. PICK s \in Ip, d \in Ip, r \in Rest :
        head = UpdateHead([src |-> s, dst |-> d, rest |-> r, sum |-> 0])
  BY DEF SumsInit
<1>3. head \in Header /\ HeadGood(head)
  <2> DEFINE h == [src |-> s, dst |-> d, rest |-> r, sum |-> 0]
  <2>1. h \in Header
    BY DEF Header
  <2> HIDE DEF h
  <2>2. UpdateHead(h) \in Header /\ HeadGood(UpdateHead(h))
    BY <2>1, UpdatedHead
  <2> QED BY <1>2, <2>2 DEF h
<1>4. PICK b \in Body[proto], o \in Old : body = PutWord(b, SumAt[proto], o)
  BY DEF SumsInit
<1>5. Fitting(proto, b) /\ o \in 0 .. Word - 1
  BY <1>1, ChecksumAssumption DEF Fitting
<1>6. SumAt[proto] \in 1 .. Len(b) - 1
  <2>1. SumAt[proto] \in {17, 7, 3}
    BY <1>1 DEF SumAt
  <2>2. SumAt[proto] < Len(b) /\ Len(b) \in Nat
    BY <1>5 DEF Fitting
  <2> QED BY <2>1, <2>2
<1>7. Fitting(proto, body)
  BY <1>4, <1>5, <1>6, PutFits
<1>8. SumsVerify
  BY DEF SumsInit, SumsVerify
<1> QED BY <1>1, <1>3, <1>7, <1>8 DEF SumsInv

LEMMA SumsInductive == SumsInv /\ [SumsNext]_checksumVars => SumsInv'
<1> SUFFICES ASSUME SumsInv, [SumsNext]_checksumVars PROVE SumsInv'
  OBVIOUS
<1>1. ASSUME proto # "icmp"
      PROVE  \A i \in {1, 3} : i \in 1 .. Len(body) - 1
  <2>1. SumAt[proto] >= 7 /\ SumAt[proto] \in Nat
    BY <1>1 DEF SumsInv, SumAt
  <2>2. SumAt[proto] < Len(body) /\ Len(body) \in Nat
    BY DEF SumsInv, Fitting
  <2> QED BY <2>1, <2>2
<1>2. \A q \in Ports : q \in 0 .. Word - 1
  BY ChecksumAssumption
<1>3. Fitting(proto, body)
  BY DEF SumsInv
<1>4. ASSUME NEW s \in Ip, NEW d \in Ip, NEW port \in Ports, ToRelay(s, d, port) PROVE SumsInv'
  <2> DEFINE b == PutWord(body, 3, port)
  <2>1. Translate(s, d, b)
    BY <1>4 DEF ToRelay
  <2>2. proto # "icmp"
    BY <2>1 DEF Translate
  <2>3. Fitting(proto, b)
    BY <1>1, <1>2, <1>3, <2>2, PutFits
  <2> HIDE DEF b
  <2> QED BY <2>1, <2>3, TranslateRight
<1>5. ASSUME NEW s \in Ip, NEW d \in Ip, NEW from \in Ports, NEW to \in Ports, ToApp(s, d, from, to)
      PROVE  SumsInv'
  <2> DEFINE a == PutWord(body, 1, from)
             b == PutWord(a, 3, to)
  <2>1. Translate(s, d, b)
    BY <1>5 DEF ToApp
  <2>2. proto # "icmp"
    BY <2>1 DEF Translate
  <2>3. Fitting(proto, a)
    BY <1>1, <1>2, <1>3, <2>2, PutFits
  <2>4. Len(a) = Len(body)
    <3>1. body \in Seq(Byte) /\ 1 \in 1 .. Len(body) - 1
      BY <1>1, <1>3, <2>2 DEF Fitting
    <3> QED BY <1>2, <3>1, PutWordIs
  <2> HIDE DEF a
  <2>5. Fitting(proto, b)
    <3>1. 3 \in 1 .. Len(a) - 1
      BY <1>1, <2>2, <2>4
    <3> QED BY <1>2, <2>3, <3>1, PutFits
  <2> HIDE DEF b
  <2> QED BY <2>1, <2>5, TranslateRight
<1>6. ASSUME Again PROVE SumsInv'
  <2>1. written' = Blank /\ UNCHANGED <<proto, head, body>>
    BY <1>6 DEF Again
  <2>2. SumsVerify'
    BY <2>1 DEF SumsVerify
  <2> QED BY <2>1, <2>2 DEF SumsInv, HeadGood, HeadSum, Fitting
<1>7. ASSUME UNCHANGED checksumVars PROVE SumsInv'
  BY <1>7 DEF checksumVars, SumsInv, HeadGood, HeadSum, Fitting, SumsVerify, BodyGood, PseudoSum
<1> QED BY <1>4, <1>5, <1>6, <1>7, EchoRight DEF SumsNext

(* Every packet that is written back to the device, translated from an     *)
(* application or from the relay or answered as an echo, has a sum in its  *)
(* header and one behind it that a receiver finds right, whatever sums the *)
(* packet was read with and whatever addresses and ports it is given.      *)
THEOREM WrittenVerifies == SumsSpec => []SumsVerify
<1>1. SumsInv => SumsVerify
  BY DEF SumsInv
<1> QED BY <1>1, SumsInitInv, SumsInductive, PTL DEF SumsSpec

-----------------------------------------------------------------------------
(***************************************************************************)
(* The translation, for any pool, any destinations and any ports of one    *)
(* machine.  IInv is inductive.  Beside what is to be shown it has that an *)
(* address of the pool leads nowhere for a port that is not translated yet *)
(* (Unused), so that what is stored for a new flow overwrites nothing, and *)
(* that what is on its way finds in the tables what the loop stored for it *)
(* (BothWays, OnTheWay).  Of two machines that send from one port one gets *)
(* the other's replies, once the pool gives an address a second time:      *)
(* hence OneMachine.                                                       *)
(***************************************************************************)
OneMachine == \A s, t \in Source : s[1] = t[1]

Stages == {"idle", "lock", "full", "probe", "store", "answer"}

PoolTypes ==
  /\ LRUInv
  /\ nextIP \in Value
  /\ pc \in [Caller -> Stages]
  /\ asked \in [Caller -> Key \cup {Nil}]
  /\ ip \in [Caller -> Value \cup {Nil}]

(* The pool gives no address but those it may: never the TUN's own, which  *)
(* the machine's own applications send from.                               *)
Allotted == \A k \in Key : val[k] # Nil => val[k] \in Usable

NatTypes ==
  /\ nat \in [Proto -> [Addr -> Entry \cup {Nil}]]
  /\ wire \subseteq Packet
  /\ links \subseteq [proto : Proto, src : Source, at : Addr, dst : Dest]

(* What the loop has in hand: a source that is not translated yet, and an  *)
(* address for it as soon as there is one.                                 *)
InHand ==
  /\ pc[Loop] # "idle" =>
       /\ cur \in [proto : Proto, src : Source, wide : BOOLEAN]
       /\ asked[Loop] \in Key /\ ~Mapped(cur.proto, cur.src)
  /\ pc[Loop] \in {"store", "answer"} => ip[Loop] \in Usable

Unused ==
  \A p \in Proto, s \in Source, v \in Usable :
    ~Mapped(p, s) => nat[p][<<v, s[2]>>] = Nil

Leads(p, a, s, d) == nat[p][a] # Nil /\ nat[p][a].to = s /\ nat[p][a].from = d

BothWays ==
  \A p \in Proto, s \in Source :
    Mapped(p, s) => /\ nat[p][s].to \in Usable \X {s[2]}
                    /\ Leads(p, nat[p][s].to, s, nat[p][s].from)

OnTheWay ==
  /\ \A q \in wire : nat[q.proto][q.at] # Nil /\ nat[q.proto][q.at].to = q.src
  /\ \A l \in links : Leads(l.proto, l.at, l.src, l.dst)

IInv == /\ OneMachine /\ PoolTypes /\ Allotted /\ NatTypes /\ InHand
        /\ Unused /\ BothWays /\ OnTheWay /\ NoMissingEntry /\ RepliesReachAsker

LEMMA SourceIsAddr ==
  ASSUME NEW s \in Source
  PROVE  /\ s = <<s[1], s[2]>> /\ s[1] \in Host /\ s[2] \in Port
         /\ s \in Addr /\ s[1] \notin Usable
BY TunNatAssumption DEF Addr

LEMMA UsableIsValue == Usable \subseteq Value
BY FakeIPAssumption DEF Usable

LEMMA InitIInv == OneMachine /\ Init => IInv
<1> SUFFICES ASSUME OneMachine, Init PROVE IInv
  OBVIOUS
<1>1. PoolTypes /\ Allotted
  BY InitLRU, FakeIPAssumption
  DEF Init, PoolInit, LRUInit, PoolTypes, Allotted, Stages, Network
<1>2. /\ nat = [p \in Proto |-> [a \in Addr |-> Nil]]
      /\ pc = [c \in Caller |-> "idle"]
      /\ wire = {} /\ links = {} /\ delivered = {} /\ crashed = "no"
  BY DEF Init, PoolInit
<1>3. NatTypes
  BY <1>2 DEF NatTypes
<1>4. InHand
  BY <1>2, TunNatAssumption DEF InHand
<1>5. \A p \in Proto, s \in Source : ~Mapped(p, s)
  BY <1>2, SourceIsAddr DEF Mapped
<1>6. Unused
  BY <1>2, SourceIsAddr, UsableIsValue DEF Unused, Addr
<1>7. BothWays /\ OnTheWay /\ NoMissingEntry /\ RepliesReachAsker
  BY <1>2, <1>5 DEF BothWays, OnTheWay, NoMissingEntry, RepliesReachAsker
<1> QED BY <1>1, <1>3, <1>4, <1>6, <1>7 DEF IInv

(* The steps of Put keep the pool in order and give the loop an address.   *)
LEMMA PutStepTypes ==
  ASSUME PoolTypes, Allotted, asked[Loop] \in Key,
         pc[Loop] = "store" => ip[Loop] \in Usable, PutStep(Loop)
  PROVE  /\ PoolTypes' /\ Allotted' /\ asked' = asked /\ pc[Loop] # "idle"
         /\ pc'[Loop] \in {"store", "answer"} => ip'[Loop] \in Usable
<1>1. Loop \in Caller
  BY TunNatAssumption
<1>2. CASE PutRecycle(Loop)
  <2>1. GetLastValue \in Value /\ GetLastValue \in Usable
    BY <1>2, LastValue, FakeIPAssumption, LRUAssumption
    DEF PoolTypes, Allotted, PutRecycle
  <2>2. LRUInv' /\ Allotted'
    BY <1>2 DEF PoolTypes, PutRecycle, lruVars, LRUInv, LRUTypeOK, Coherent, Distinct,
       Valued, InList, Allotted
  <2> QED BY <1>1, <1>2, <2>1, <2>2 DEF PutRecycle, Pick, Goto, PoolTypes, Stages
<1>3. CASE PutSearch(Loop) \/ ProbeWrap(Loop) \/ ProbeSkip(Loop) \/ ProbeFree(Loop)
  <2>1. UNCHANGED lruVars
    BY <1>3 DEF PutSearch, ProbeWrap, ProbeSkip, ProbeFree
  <2>2. LRUInv' /\ Allotted'
    BY <2>1 DEF PoolTypes, lruVars, LRUInv, LRUTypeOK, Coherent, Distinct, Valued, InList,
       Allotted
  <2>3. nextIP' \in Value
    BY <1>3, FakeIPAssumption
    DEF PoolTypes, PutSearch, ProbeWrap, ProbeSkip, ProbeFree, Network, Broadcast, Usable
  <2>4. pc' \in [Caller -> Stages] /\ ip' \in [Caller -> Value \cup {Nil}]
    BY <1>3, FakeIPAssumption
    DEF PoolTypes, PutSearch, ProbeWrap, ProbeSkip, ProbeFree, Pick, Goto, Stages, Usable
  <2>5. /\ asked' = asked /\ pc[Loop] # "idle"
        /\ pc'[Loop] \in {"store", "answer"} => ip'[Loop] \in Usable
    BY <1>1, <1>3
    DEF PoolTypes, PutSearch, ProbeWrap, ProbeSkip, ProbeFree, Pick, Goto
  <2> QED BY <2>2, <2>3, <2>4, <2>5 DEF PoolTypes
<1>4. CASE ProbeTaken(Loop)
  <2>1. LRUInv' /\ Allotted'
    BY <1>4, MoveKeeps DEF ProbeTaken, GetKeyFromValue, PoolTypes, Allotted
  <2> QED BY <1>4, <2>1, FakeIPAssumption DEF ProbeTaken, PoolTypes, Usable
<1>5. CASE PutStore(Loop)
  <2>1. ip[Loop] \in Value /\ ip[Loop] \in Usable
    BY <1>5, UsableIsValue DEF PutStore
  <2>2. LRUInv'
    BY <1>5, <2>1, ReplaceKeeps, InsertKeeps, EvictKeeps DEF PutStore, Put, PoolTypes
  <2>3. Allotted'
    <3>1. \A k \in Key : val'[k] \in {val[k], ip[Loop], Nil}
      BY <1>5 DEF PutStore, Put, PutReplace, PutInsert, PutEvict, PoolTypes, LRUInv,
         LRUTypeOK
    <3> QED BY <2>1, <3>1 DEF Allotted
  <2> QED BY <1>1, <1>5, <2>1, <2>2, <2>3 DEF PutStore, Goto, PoolTypes, Stages
<1> QED BY <1>2, <1>3, <1>4, <1>5 DEF PutStep

(* A step that leaves the tables as they are, and what is on its way.      *)
LEMMA TablesStay ==
  ASSUME IInv, UNCHANGED <<nat, wire, links, delivered, crashed>>
  PROVE  /\ NatTypes' /\ Unused' /\ BothWays' /\ OnTheWay'
         /\ NoMissingEntry' /\ RepliesReachAsker'
BY DEF IInv, NatTypes, Unused, Mapped, BothWays, Leads, OnTheWay, NoMissingEntry,
       RepliesReachAsker

LEMMA PoolStays ==
  ASSUME IInv, UNCHANGED <<poolVars, nat, cur>>
  PROVE  PoolTypes' /\ Allotted' /\ InHand'
BY DEF IInv, PoolTypes, Allotted, InHand, Mapped, poolVars, lruVars, LRUInv, LRUTypeOK,
       Coherent, Distinct, Valued, InList

LEMMA FromKnownKeeps ==
  ASSUME IInv, NEW p \in Proto, NEW s \in Source, NEW d \in Dest, FromKnown(p, s, d)
  PROVE  IInv'
<1> DEFINE q == [proto |-> p, src |-> s, dst |-> d, at |-> nat[p][s].to]
<1>1. PoolTypes' /\ Allotted' /\ InHand'
  BY PoolStays DEF FromKnown
<1>2. /\ nat' = nat /\ links' = links /\ wire' \subseteq wire \cup {q}
      /\ delivered' = delivered /\ crashed' = crashed
  BY DEF FromKnown, Forward
<1>3. /\ q \in Packet
      /\ nat[p][nat[p][s].to] # Nil /\ nat[p][nat[p][s].to].to = s
  <2>1. /\ nat[p][s].to \in Usable \X {s[2]}
        /\ nat[p][nat[p][s].to] # Nil /\ nat[p][nat[p][s].to].to = s
    BY DEF FromKnown, IInv, BothWays, Leads
  <2>2. nat[p][s].to \in Addr
    BY <2>1, SourceIsAddr, UsableIsValue DEF Addr
  <2> QED BY <2>1, <2>2 DEF Packet
<1>4. NatTypes' /\ OnTheWay'
  BY <1>2, <1>3 DEF IInv, NatTypes, OnTheWay, Leads
<1>5. Unused' /\ BothWays' /\ NoMissingEntry' /\ RepliesReachAsker'
  BY <1>2 DEF IInv, Unused, Mapped, BothWays, Leads, NoMissingEntry, RepliesReachAsker
<1> QED BY <1>1, <1>4, <1>5 DEF IInv, OneMachine

LEMMA FromNewKeeps ==
  ASSUME IInv, NEW p \in Proto, NEW s \in Source, NEW d \in Dest, FromNew(p, s, d)
  PROVE  IInv'
<1>1. Loop \in Caller
  BY TunNatAssumption
<1>2. PoolTypes' /\ Allotted'
  BY <1>1 DEF IInv, PoolTypes, Allotted, Stages, FromNew, Goto, Dest, lruVars, LRUInv,
     LRUTypeOK, Coherent, Distinct, Valued, InList
<1>3. InHand'
  BY <1>1 DEF IInv, PoolTypes, FromNew, Goto, Dest, InHand, Mapped, natVars
<1>4. /\ NatTypes' /\ Unused' /\ BothWays' /\ OnTheWay'
      /\ NoMissingEntry' /\ RepliesReachAsker'
  BY TablesStay DEF FromNew, natVars
<1> QED BY <1>2, <1>3, <1>4 DEF IInv, OneMachine

LEMMA PoolLockKeeps == ASSUME IInv, PoolLock PROVE IInv'
<1>1. Loop \in Caller
  BY TunNatAssumption
<1>2. PoolTypes' /\ Allotted'
  BY <1>1 DEF IInv, PoolTypes, Allotted, Stages, PoolLock, PutLock, Goto, lruVars, LRUInv,
     LRUTypeOK, Coherent, Distinct, Valued, InList
<1>3. InHand'
  BY <1>1 DEF IInv, PoolTypes, PoolLock, PutLock, Goto, InHand, Mapped, natVars
<1>4. /\ NatTypes' /\ Unused' /\ BothWays' /\ OnTheWay'
      /\ NoMissingEntry' /\ RepliesReachAsker'
  BY TablesStay DEF PoolLock, natVars
<1> QED BY <1>2, <1>3, <1>4 DEF IInv, OneMachine

LEMMA PoolPutKeeps == ASSUME IInv, PoolPut PROVE IInv'
<1>1. PutStep(Loop) /\ PoolTypes /\ Allotted
  BY DEF PoolPut, IInv
<1>2. pc[Loop] # "idle"
  BY <1>1 DEF PutStep, PutRecycle, PutSearch, ProbeWrap, ProbeSkip, ProbeTaken,
     ProbeFree, PutStore
<1>3. /\ cur \in [proto : Proto, src : Source, wide : BOOLEAN]
      /\ asked[Loop] \in Key /\ ~Mapped(cur.proto, cur.src)
      /\ pc[Loop] = "store" => ip[Loop] \in Usable
  BY <1>2 DEF IInv, InHand
<1>4. /\ PoolTypes' /\ Allotted' /\ asked' = asked
      /\ pc'[Loop] \in {"store", "answer"} => ip'[Loop] \in Usable
  BY <1>1, <1>3, PutStepTypes
<1>5. cur' \in [proto : Proto, src : Source, wide : BOOLEAN]
      /\ cur'.proto = cur.proto /\ cur'.src = cur.src
  BY <1>3 DEF PoolPut
<1>6. InHand'
  BY <1>3, <1>4, <1>5 DEF InHand, PoolPut, Mapped, natVars
<1>7. /\ NatTypes' /\ Unused' /\ BothWays' /\ OnTheWay'
      /\ NoMissingEntry' /\ RepliesReachAsker'
  BY TablesStay DEF PoolPut, natVars
<1> QED BY <1>4, <1>6, <1>7 DEF IInv, OneMachine

(* The loop's source and the address it has for it: neither leads anywhere *)
(* yet, and of the sources that are not translated no other uses the port. *)
LEMMA NewFlow ==
  ASSUME IInv, MapSource
  PROVE  LET s == cur.src
             m == <<ip[Loop], s[2]>>
             e == [from |-> asked[Loop], to |-> m, wide |-> cur.wide]
             b == [from |-> asked[Loop], to |-> s, wide |-> FALSE]
         IN  /\ cur.proto \in Proto /\ s \in Source /\ asked[Loop] \in Dest
             /\ cur.wide \in BOOLEAN
             /\ m \in Addr /\ m \in Usable \X {s[2]} /\ s # m
             /\ e \in Entry /\ b \in Entry
             /\ nat[cur.proto][s] = Nil /\ nat[cur.proto][m] = Nil
             /\ nat'[cur.proto][s] = e /\ nat'[cur.proto][m] = b
             /\ \A p \in Proto, a \in Addr :
                  p # cur.proto \/ (a # s /\ a # m) => nat'[p][a] = nat[p][a]
             /\ nat' \in [Proto -> [Addr -> Entry \cup {Nil}]]
<1> DEFINE s == cur.src
           m == <<ip[Loop], s[2]>>
           e == [from |-> asked[Loop], to |-> m, wide |-> cur.wide]
           b == [from |-> asked[Loop], to |-> s, wide |-> FALSE]
<1>1. /\ cur.proto \in Proto /\ s \in Source /\ cur.wide \in BOOLEAN
      /\ asked[Loop] \in Dest /\ ip[Loop] \in Usable /\ nat[cur.proto][s] = Nil
  BY DEF MapSource, IInv, InHand, Mapped, Dest
<1>2. /\ s[1] \in Host /\ s[2] \in Port /\ s \in Addr /\ s[1] \notin Usable
  BY <1>1, SourceIsAddr
<1>3. m \in Addr /\ m \in Usable \X {s[2]} /\ s # m
  BY <1>1, <1>2, UsableIsValue DEF Addr
<1>4. nat[cur.proto][m] = Nil
  BY <1>1 DEF IInv, Unused, Mapped
<1>5. e \in Entry /\ b \in Entry
  BY <1>1, <1>2, <1>3 DEF Entry
<1>6. nat' = [nat EXCEPT ![cur.proto] = [nat[cur.proto] EXCEPT ![s] = e, ![m] = b]]
  BY DEF MapSource, Bind
<1>7. nat \in [Proto -> [Addr -> Entry \cup {Nil}]]
  BY DEF IInv, NatTypes
<1> HIDE DEF s, m, e, b
<1>8. /\ nat'[cur.proto] = [nat[cur.proto] EXCEPT ![s] = e, ![m] = b]
      /\ \A p \in Proto : p # cur.proto => nat'[p] = nat[p]
      /\ nat[cur.proto] \in [Addr -> Entry \cup {Nil}]
  BY <1>1, <1>6, <1>7
<1>9. /\ nat'[cur.proto][s] = e /\ nat'[cur.proto][m] = b
      /\ \A p \in Proto, a \in Addr :
           p # cur.proto \/ (a # s /\ a # m) => nat'[p][a] = nat[p][a]
  BY <1>2, <1>3, <1>8
<1>10. nat' \in [Proto -> [Addr -> Entry \cup {Nil}]]
  <2>1. [nat[cur.proto] EXCEPT ![s] = e, ![m] = b] \in [Addr -> Entry \cup {Nil}]
    BY <1>5, <1>8
  <2> QED BY <1>6, <1>7, <2>1
<1> QED BY <1>1, <1>3, <1>4, <1>5, <1>9, <1>10 DEF s, m, e, b

(* What the tables hold is not overwritten.                                *)
LEMMA StepKeepsEntries ==
  ASSUME IInv, [Next]_vars, NEW p \in Proto, NEW a \in Addr, nat[p][a] # Nil
  PROVE  nat'[p][a] = nat[p][a]
<1>1. CASE MapSource
  BY <1>1, NewFlow
<1>2. CASE ~MapSource
  <2>1. nat' = nat
    BY <1>2 DEF Next, FromKnown, FromNew, PoolLock, PoolPut, RelayTakes, FromRelay,
       StrangerComes, natVars, vars
  <2> QED BY <2>1
<1> QED BY <1>1, <1>2

LEMMA MapSourceKeeps == ASSUME IInv, MapSource PROVE IInv'
<1> DEFINE o == cur.proto
           s == cur.src
           m == <<ip[Loop], s[2]>>
           d == asked[Loop]
           q == [proto |-> o, src |-> s, dst |-> d, at |-> m]
<1>1. /\ o \in Proto /\ s \in Source /\ d \in Dest
      /\ m \in Addr /\ m \in Usable \X {s[2]} /\ s # m
  BY NewFlow
<1>2. /\ nat'[o][s] = [from |-> d, to |-> m, wide |-> cur.wide]
      /\ nat'[o][m] = [from |-> d, to |-> s, wide |-> FALSE]
      /\ nat'[o][s] \in Entry /\ nat'[o][m] \in Entry
      /\ nat' \in [Proto -> [Addr -> Entry \cup {Nil}]]
  BY NewFlow
<1>3. \A p \in Proto, a \in Addr : nat[p][a] # Nil => nat'[p][a] = nat[p][a]
  BY StepKeepsEntries DEF Next
<1>4. \A p \in Proto, a \in Addr :
        p # o \/ (a # s /\ a # m) => nat'[p][a] = nat[p][a]
  BY NewFlow
<1>5. nat'[o][s] # Nil /\ nat'[o][m] # Nil
  BY <1>2, TunNatAssumption
<1>6. PoolTypes' /\ Allotted'
  BY TunNatAssumption
  DEF MapSource, IInv, PoolTypes, Allotted, Stages, Goto, Pick, lruVars, LRUInv,
      LRUTypeOK, Coherent, Distinct, Valued, InList
<1>7. InHand'
  <2>1. pc'[Loop] = "idle"
    BY TunNatAssumption DEF MapSource, IInv, PoolTypes, Goto
  <2> QED BY <2>1 DEF InHand
<1>8. wire' \subseteq wire \cup {q} /\ links' = links /\ delivered' = delivered
  BY DEF MapSource, Forward
<1> HIDE DEF o, s, m, d
<1>9. NatTypes'
  BY <1>1, <1>2, <1>8 DEF IInv, NatTypes, Packet
<1>10. Unused'
  <2> SUFFICES ASSUME NEW p \in Proto, NEW t \in Source, NEW v \in Usable,
                      nat'[p][t] = Nil
               PROVE  nat'[p][<<v, t[2]>>] = Nil
    BY DEF Unused, Mapped
  <2>1. t \in Addr /\ <<v, t[2]>> \in Addr /\ t = <<t[1], t[2]>> /\ s = <<s[1], s[2]>>
    BY <1>1, SourceIsAddr, UsableIsValue DEF Addr
  <2>2. nat[p][t] = Nil
    BY <1>3, <2>1
  <2>3. nat[p][<<v, t[2]>>] = Nil
    BY <2>2 DEF IInv, Unused, Mapped
  <2>4. CASE p # o
    BY <1>4, <2>1, <2>3, <2>4
  <2>5. CASE p = o
    <3>1. t # s
      BY <1>5, <2>5
    <3>2. t[2] # s[2]
      BY <1>1, <2>1, <3>1 DEF IInv, OneMachine
    <3>3. <<v, t[2]>> # m
      BY <1>1, <3>2
    <3>4. <<v, t[2]>> # s
      BY <1>1, SourceIsAddr
    <3> QED BY <1>4, <2>1, <2>3, <3>3, <3>4
  <2> QED BY <2>4, <2>5
<1>11. BothWays'
  <2> SUFFICES ASSUME NEW p \in Proto, NEW t \in Source, nat'[p][t] # Nil
               PROVE  /\ nat'[p][t].to \in Usable \X {t[2]}
                      /\ nat'[p][nat'[p][t].to] # Nil
                      /\ nat'[p][nat'[p][t].to].to = t
                      /\ nat'[p][nat'[p][t].to].from = nat'[p][t].from
    BY DEF BothWays, Leads, Mapped
  <2>1. CASE p = o /\ t = s
    BY <1>1, <1>2, <1>5, <2>1
  <2>2. CASE ~(p = o /\ t = s)
    <3>1. t \in Addr /\ t # m
      BY <1>1, SourceIsAddr
    <3>2. nat'[p][t] = nat[p][t] /\ nat[p][t] # Nil
      BY <1>4, <2>2, <3>1
    <3>3. /\ nat[p][t].to \in Usable \X {t[2]}
          /\ nat[p][nat[p][t].to] # Nil
          /\ nat[p][nat[p][t].to].to = t
          /\ nat[p][nat[p][t].to].from = nat[p][t].from
      BY <3>2 DEF IInv, BothWays, Leads, Mapped
    <3>4. nat[p][t].to \in Addr
      BY <3>3, SourceIsAddr, UsableIsValue DEF Addr
    <3>5. nat'[p][nat[p][t].to] = nat[p][nat[p][t].to]
      BY <1>3, <3>3, <3>4
    <3> QED BY <3>2, <3>3, <3>5
  <2> QED BY <2>1, <2>2
<1>12. OnTheWay'
  <2>1. ASSUME NEW w \in wire'
        PROVE  nat'[w.proto][w.at] # Nil /\ nat'[w.proto][w.at].to = w.src
    <3>1. CASE w = q
      BY <1>2, <1>5, <3>1
    <3>2. CASE w # q
      <4>1. w \in wire /\ w.proto \in Proto /\ w.at \in Addr
        BY <1>8, <3>2 DEF IInv, NatTypes, Packet
      <4> QED BY <1>3, <4>1 DEF IInv, OnTheWay
    <3> QED BY <3>1, <3>2
  <2>2. ASSUME NEW l \in links'
        PROVE  Leads(l.proto, l.at, l.src, l.dst)'
    <3>1. l \in links /\ l.proto \in Proto /\ l.at \in Addr
      BY <1>8 DEF IInv, NatTypes
    <3>2. Leads(l.proto, l.at, l.src, l.dst)
      BY <3>1 DEF IInv, OnTheWay
    <3> QED BY <1>3, <3>1, <3>2 DEF Leads
  <2> QED BY <2>1, <2>2 DEF OnTheWay
<1>13. NoMissingEntry' /\ RepliesReachAsker'
  BY <1>8 DEF MapSource, IInv, NoMissingEntry, RepliesReachAsker
<1> QED BY <1>6, <1>7, <1>9, <1>10, <1>11, <1>12, <1>13 DEF IInv, OneMachine

LEMMA RelayTakesKeeps == ASSUME IInv, NEW q \in wire, RelayTakes(q) PROVE IInv'
<1> DEFINE e == nat[q.proto][q.at]
           l == [proto |-> q.proto, src |-> q.src, at |-> q.at, dst |-> e.from]
<1>1. /\ q.proto \in Proto /\ q.src \in Source /\ q.at \in Addr
      /\ e # Nil /\ e.to = q.src
  BY DEF IInv, NatTypes, Packet, OnTheWay
<1>2. /\ crashed' = crashed /\ wire' = wire \ {q} /\ links' = links \cup {l}
      /\ UNCHANGED <<poolVars, nat, cur, delivered>>
  BY <1>1 DEF RelayTakes
<1>3. e.from \in Dest
  <2>1. e \in Entry
    BY <1>1 DEF IInv, NatTypes
  <2> QED BY <2>1 DEF Entry
<1>4. PoolTypes' /\ Allotted' /\ InHand'
  BY <1>2, PoolStays
<1>5. NatTypes'
  BY <1>1, <1>2, <1>3 DEF IInv, NatTypes
<1>6. OnTheWay'
  BY <1>1, <1>2 DEF IInv, OnTheWay, Leads
<1>7. Unused' /\ BothWays' /\ NoMissingEntry' /\ RepliesReachAsker'
  BY <1>2 DEF IInv, Unused, Mapped, BothWays, Leads, NoMissingEntry, RepliesReachAsker
<1> QED BY <1>4, <1>5, <1>6, <1>7 DEF IInv, OneMachine

LEMMA FromRelayKeeps == ASSUME IInv, NEW l \in links, FromRelay(l) PROVE IInv'
<1> DEFINE e == nat[l.proto][l.at]
<1>1. e # Nil /\ e.to = l.src /\ e.from = l.dst
  BY DEF IInv, OnTheWay, Leads
<1>2. /\ delivered' = delivered \cup
           {[src |-> l.src, dst |-> l.dst, to |-> e.to, from |-> e.from]}
      /\ UNCHANGED <<poolVars, nat, cur, wire, links, crashed>>
  BY <1>1 DEF FromRelay
<1>3. PoolTypes' /\ Allotted' /\ InHand'
  BY <1>2, PoolStays
<1>4. RepliesReachAsker'
  BY <1>1, <1>2 DEF IInv, RepliesReachAsker
<1>5. NatTypes' /\ Unused' /\ BothWays' /\ OnTheWay' /\ NoMissingEntry'
  BY <1>2 DEF IInv, NatTypes, Unused, Mapped, BothWays, Leads, OnTheWay, NoMissingEntry
<1> QED BY <1>3, <1>4, <1>5 DEF IInv, OneMachine

LEMMA StrangerComesKeeps ==
  ASSUME IInv, NEW p \in Proto, NEW a \in Host \X Port, StrangerComes(p, a)
  PROVE  IInv'
<1>1. PoolTypes' /\ Allotted' /\ InHand'
  BY PoolStays DEF StrangerComes
<1>2. /\ NatTypes' /\ Unused' /\ BothWays' /\ OnTheWay'
      /\ NoMissingEntry' /\ RepliesReachAsker'
  BY DEF StrangerComes, IInv, NatTypes, Unused, Mapped, BothWays, Leads, OnTheWay,
     NoMissingEntry, RepliesReachAsker
<1> QED BY <1>1, <1>2 DEF IInv, OneMachine

LEMMA NextKeeps == IInv /\ [Next]_vars => IInv'
<1> SUFFICES ASSUME IInv, [Next]_vars PROVE IInv'
  OBVIOUS
<1>1. CASE UNCHANGED vars
  <2>1. PoolTypes' /\ Allotted' /\ InHand'
    BY <1>1, PoolStays DEF vars, natVars
  <2>2. /\ NatTypes' /\ Unused' /\ BothWays' /\ OnTheWay'
        /\ NoMissingEntry' /\ RepliesReachAsker'
    BY <1>1, TablesStay DEF vars, natVars
  <2> QED BY <2>1, <2>2 DEF IInv, OneMachine
<1>2. CASE Next
  BY <1>2, FromKnownKeeps, FromNewKeeps, PoolLockKeeps, PoolPutKeeps, MapSourceKeeps,
     RelayTakesKeeps, FromRelayKeeps, StrangerComesKeeps
  DEF Next
<1> QED BY <1>1, <1>2

LEMMA NatInvariance == OneMachine /\ Spec => []IInv
BY InitIInv, NextKeeps, PTL DEF Spec

(* No lookup of the NAT tables fails for a packet of a flow or for a reply *)
(* to it, however many flows there are, also when the applications send    *)
(* from the TUN's own address and others reach the relay without the loop. *)
THEOREM LookupsSucceed == OneMachine /\ Spec => []NoMissingEntry
<1>1. IInv => NoMissingEntry
  BY DEF IInv
<1> QED BY <1>1, NatInvariance, PTL

(* What the relay sends for a flow reaches the application that started    *)
(* it, from where the relay went for it, also when the pool is full and    *)
(* gives addresses a second time.                                          *)
THEOREM RepliesComeBack == OneMachine /\ Spec => []RepliesReachAsker
<1>1. IInv => RepliesReachAsker
  BY DEF IInv
<1> QED BY <1>1, NatInvariance, PTL

(* The translation of a flow is never changed.                             *)
THEOREM FlowsStick == OneMachine /\ Spec => StickyFlow
<1>1. IInv /\ [Next]_vars =>
        [\A p \in Proto, a \in Addr :
           nat[p][a] # Nil => nat'[p][a] = nat[p][a]]_vars
  BY StepKeepsEntries
<1> QED BY <1>1, NatInvariance, PTL DEF Spec, StickyFlow

=============================================================================
