---------------------------- MODULE UploadsProofs ----------------------------
(***************************************************************************)
(* Proofs about Uploads, for any number of workers, uploads, blocks and    *)
(* garbled packets, and for every size of a byte; and what they need of    *)
(* Checksum: that the sum of a packet is a multiple of WordSize - 1, and   *)
(* that no one changed byte makes it another such multiple.                *)
(*                                                                         *)
(* The invariant is about uploads that are clean: not overlapped and not   *)
(* spoilt.  Two at once both know of each other, so a clean upload has its *)
(* path, its inode and its blocks to itself until it is over, and what it  *)
(* has left there afterwards is changed by nobody who is let in.           *)
(* Inductions on a number are arguments from a least counterexample.       *)
(***************************************************************************)
EXTENDS Uploads, TLAPS, SequenceTheorems, WellFoundedInduction

-----------------------------------------------------------------------------
(* Arithmetic of the sum. *)

(* A set of numbers that is not empty has a least one. *)
LEMMA LeastNumber ==
  ASSUME NEW T \in SUBSET Nat, T # {}
  PROVE  \E n \in T : \A m \in T : n <= m
<1>1. PICK n \in T : \A m \in T : ~(<<m, n>> \in OpToRel(<, Nat))
  BY NatLessThanWellFounded, WFMin, Zenon
<1>2. \A m \in T : ~(m < n)  BY <1>1 DEF OpToRel
<1> QED  BY <1>2

(* A word is larger than a byte by as much as a byte has values. *)
LEMMA BaseFacts ==
  /\ Base \in Nat /\ Base > 3
  /\ WordSize \in Nat /\ WordSize >= Base + Base + Base + Base
  /\ (Base - 1) * Base = WordSize - Base
<1>1. Base \in Nat /\ Base > 3
  BY BaseAssumption, OpcodeAssumption
<1> USE <1>1
<1>2. Base * Base \in Nat
  BY SMTT(10)
<1>3. Base * Base >= 4 * Base
  BY SMTT(10)
<1>4. (Base - 1) * Base = Base * Base - Base
  BY SMTT(10)
<1> QED
  BY <1>2, <1>3, <1>4 DEF WordSize

(* Quotient and remainder. *)
LEMMA DivMod ==
  ASSUME NEW n \in Nat, NEW d \in Nat \ {0}
  PROVE  n % d \in 0..d-1 /\ n \div d \in Nat /\ n = (d * (n \div d)) + (n % d)
<1>1. n % d \in 0..d-1
  BY SMTT(10)
<1>2. n = (d * (n \div d)) + (n % d)
  BY SMTT(10)
<1>3. n \div d \in Nat
  BY SMTT(10)
<1> QED
  BY <1>1, <1>2, <1>3

(* A multiple of d closer to 0 than d is 0. *)
LEMMA SmallMultiple ==
  ASSUME NEW q \in Int, NEW d \in Nat \ {0}, d * q < d, -d < d * q
  PROVE  q = 0
<1>1. CASE q > 0
  <2>1. d * q >= d
    BY <1>1, SMTT(10)
  <2> QED
    BY <2>1
<1>2. CASE q < 0
  <2>1. d * (-q) >= d
    BY <1>2, SMTT(10)
  <2>2. d * (-q) = -(d * q)
    BY SMTT(10)
  <2> QED
    BY <2>1, <2>2
<1> QED
  BY <1>1, <1>2

(* A number has one remainder. *)
LEMMA ModUnique ==
  ASSUME NEW q \in Int, NEW d \in Nat \ {0}, NEW x \in 0..d-1, NEW n \in Nat, n = (d * q) + x
  PROVE  n % d = x
<1> DEFINE p == n \div d
           r == n % d
<1>1. n = (d * p) + r /\ p \in Int /\ r \in 0..d-1
  BY DivMod
<1> HIDE DEF p, r
<1>2. d * q \in Int /\ d * p \in Int /\ d * (q - p) = d * q - d * p
  BY <1>1, SMTT(10)
<1>3. r - x = d * (q - p)
  BY <1>1, <1>2
<1>4. q - p = 0
  BY <1>1, <1>3, SmallMultiple
<1>5. r = x
  BY <1>1, <1>3, <1>4
<1> QED
  BY <1>5 DEF r

(* What d goes into does not change the remainder. *)
LEMMA ModShift ==
  ASSUME NEW q \in Nat, NEW d \in Nat \ {0}, NEW n \in Nat, NEW m \in Nat, n = (d * q) + m
  PROVE  n % d = m % d
<1> DEFINE p == m \div d
           r == m % d
<1>1. m = (d * p) + r /\ p \in Int /\ r \in 0..d-1
  BY DivMod
<1> HIDE DEF p, r
<1>2. d * q \in Int /\ d * p \in Int /\ d * (q + p) = d * q + d * p
  BY <1>1, SMTT(10)
<1>3. n = (d * (q + p)) + r
  BY <1>1, <1>2
<1>4. n % d = r
  BY <1>1, <1>3, ModUnique
<1> QED
  BY <1>4 DEF r

(* Adding the carries once, and what stays of the number. *)
LEMMA CarryFacts ==
  ASSUME NEW n \in Nat, n >= WordSize
  PROVE  /\ (n % WordSize) + (n \div WordSize) \in 1..n - 1
         /\ \E q \in Nat : n = ((WordSize - 1) * q) + ((n % WordSize) + (n \div WordSize))
<1> DEFINE q == n \div WordSize
           r == n % WordSize
<1>1. WordSize \in Nat \ {0} /\ WordSize > 2
  BY BaseFacts
<1>2. n = (WordSize * q) + r /\ q \in Nat /\ r \in 0..WordSize-1
  BY <1>1, DivMod
<1> HIDE DEF q, r
<1>3. (WordSize - 1) * q = WordSize * q - q /\ WordSize * q \in Int
  BY <1>1, <1>2, SMTT(10)
<1>4. n = ((WordSize - 1) * q) + (r + q)
  BY <1>2, <1>3
<1>5. q # 0
  <2>1. q = 0 => WordSize * q = 0
    BY <1>1, SMTT(10)
  <2> QED
    BY <1>1, <1>2, <2>1
<1>6. (WordSize - 1) * q > 0
  BY <1>1, <1>2, <1>5, SMTT(10)
<1>7. r + q \in 1..n - 1
  BY <1>1, <1>2, <1>3, <1>4, <1>5, <1>6
<1> QED
  BY <1>2, <1>4, <1>7 DEF q, r

(* The definition of FoldCarries has a solution: what is left of a number  *)
(* that is not 0 lies between 1 and WordSize - 1.                          *)
LEMMA FoldCarriesDef ==
  ASSUME NEW n \in Nat
  PROVE  FoldCarries[n] = IF n < WordSize THEN n
                          ELSE FoldCarries[(n % WordSize) + (n \div WordSize)]
<1> DEFINE left[k \in Nat] == IF k = 0 THEN 0 ELSE ((k - 1) % (WordSize - 1)) + 1
           Solves(f) == f = [k \in Nat |-> IF k < WordSize THEN k
                                           ELSE f[(k % WordSize) + (k \div WordSize)]]
<1>1. ASSUME NEW k \in Nat
      PROVE  left[k] = IF k < WordSize THEN k ELSE left[(k % WordSize) + (k \div WordSize)]
  <2>1. WordSize \in Nat /\ WordSize > 2 /\ WordSize - 1 \in Nat \ {0}
    BY BaseFacts
  <2>2. left[0] = 0
    OBVIOUS
  <2>3. \A i \in Nat \ {0} : left[i] = ((i - 1) % (WordSize - 1)) + 1
    OBVIOUS
  <2> HIDE DEF left
  <2>4. CASE k = 0
    BY <2>1, <2>2, <2>4
  <2>5. CASE k # 0 /\ k < WordSize
    <3>1. (WordSize - 1) * 0 = 0
      BY <2>1, SMTT(10)
    <3>2. k - 1 = ((WordSize - 1) * 0) + (k - 1) /\ k - 1 \in 0..WordSize - 1 - 1
      BY <2>1, <2>5, <3>1
    <3>3. k - 1 \in Nat
      BY <2>5
    <3>4. (k - 1) % (WordSize - 1) = k - 1
      BY <2>1, <3>2, <3>3, ModUnique
    <3> QED
      BY <2>3, <2>5, <3>4
  <2>6. CASE k >= WordSize
    <3> DEFINE m == (k % WordSize) + (k \div WordSize)
    <3>1. m \in 1..k - 1 /\ \E q \in Nat : k = ((WordSize - 1) * q) + m
      BY <2>6, CarryFacts
    <3> HIDE DEF m
    <3>2. PICK q \in Nat : k = ((WordSize - 1) * q) + m
      BY <3>1
    <3>3. (WordSize - 1) * q \in Int
      BY <2>1, SMTT(10)
    <3>4. k - 1 = ((WordSize - 1) * q) + (m - 1) /\ k - 1 \in Nat /\ m - 1 \in Nat
      BY <3>1, <3>2, <3>3
    <3>5. (k - 1) % (WordSize - 1) = (m - 1) % (WordSize - 1)
      <4>1. PICK d \in Nat \ {0} : d = WordSize - 1
        BY <2>1
      <4>2. \A a, b \in Nat : a = (d * q) + b => a % d = b % d
        BY ModShift, Zenon
      <4>3. PICK a \in Nat : a = k - 1
        BY <3>4
      <4>4. PICK b \in Nat : b = m - 1
        BY <3>4
      <4>5. a = (d * q) + b
        BY <3>4, <4>1, <4>3, <4>4
      <4>6. a % d = b % d
        BY <4>2, <4>5, Zenon
      <4> QED
        BY <4>1, <4>3, <4>4, <4>6, Zenon
    <3>6. left[k] = left[m]
      <4>1. k \in Nat \ {0} /\ m \in Nat \ {0}
        BY <3>1
      <4>2. left[k] = ((k - 1) % (WordSize - 1)) + 1 /\ left[m] = ((m - 1) % (WordSize - 1)) + 1
        BY <2>3, <4>1
      <4> QED
        BY <3>5, <4>2
    <3>7. ~(k < WordSize)
      BY <2>1, <2>6
    <3> QED
      BY <3>6, <3>7 DEF m
  <2> QED
    BY <2>1, <2>4, <2>5, <2>6
<1>2. left = [k \in Nat |-> left[k]]
  OBVIOUS
<1>3. Solves(left)
  <2> HIDE DEF left
  <2> QED
    BY <1>1, <1>2
<1>4. FoldCarries = CHOOSE f : Solves(f)
  BY DEF FoldCarries
<1>5. Solves(FoldCarries)
  <2> HIDE DEF Solves
  <2> QED
    BY <1>3, <1>4
<1> QED
  BY <1>5

(* Folding keeps a number up to multiples of WordSize - 1, and 0 apart.    *)
LEMMA FoldKeeps ==
  ASSUME NEW n \in Nat
  PROVE  /\ FoldCarries[n] \in 0..WordSize - 1
         /\ FoldCarries[n] = 0 <=> n = 0
         /\ \E q \in Nat : n = ((WordSize - 1) * q) + FoldCarries[n]
<1> DEFINE Kept(k) == /\ FoldCarries[k] \in 0..WordSize - 1
                      /\ FoldCarries[k] = 0 <=> k = 0
                      /\ \E q \in Nat : k = ((WordSize - 1) * q) + FoldCarries[k]
           T == {k \in Nat : ~Kept(k)}
<1>0. WordSize \in Nat /\ WordSize > 2
  BY BaseFacts
<1>1. ASSUME NEW k \in Nat, \A i \in 0..k - 1 : Kept(i)
      PROVE  Kept(k)
  <2>1. CASE k < WordSize
    <3>1. FoldCarries[k] = k
      BY <2>1, FoldCarriesDef
    <3>2. (WordSize - 1) * 0 = 0
      BY <1>0, SMTT(10)
    <3>3. k = ((WordSize - 1) * 0) + FoldCarries[k]
      BY <3>1, <3>2
    <3> QED
      BY <1>0, <2>1, <3>1, <3>3
  <2>2. CASE k >= WordSize
    <3> DEFINE m == (k % WordSize) + (k \div WordSize)
    <3>1. m \in 1..k - 1 /\ \E q \in Nat : k = ((WordSize - 1) * q) + m
      BY <2>2, CarryFacts
    <3>2. ~(k < WordSize)
      BY <1>0, <2>2
    <3>3. FoldCarries[k] = FoldCarries[m]
      BY <3>2, FoldCarriesDef
    <3> HIDE DEF m
    <3>4. Kept(m)
      BY <1>1, <3>1
    <3>5. PICK q \in Nat : k = ((WordSize - 1) * q) + m
      BY <3>1
    <3>6. PICK p \in Nat : m = ((WordSize - 1) * p) + FoldCarries[m]
      BY <3>4
    <3>7. /\ (WordSize - 1) * (q + p) = (WordSize - 1) * q + (WordSize - 1) * p
          /\ (WordSize - 1) * q \in Int /\ (WordSize - 1) * p \in Int
      BY <1>0, SMTT(10)
    <3>8. k = ((WordSize - 1) * (q + p)) + FoldCarries[k] /\ q + p \in Nat
      BY <3>3, <3>4, <3>5, <3>6, <3>7
    <3> QED
      BY <3>1, <3>3, <3>4, <3>8
  <2> QED
    BY <1>0, <2>1, <2>2
<1> HIDE DEF Kept
<1>2. ASSUME T # {}
      PROVE  FALSE
  <2>1. PICK k \in T : \A i \in T : k <= i
    BY <1>2, LeastNumber
  <2>2. \A i \in 0..k - 1 : Kept(i)
    BY <2>1
  <2> QED
    BY <1>1, <2>1, <2>2
<1>3. Kept(n)
  BY <1>2
<1> QED
  BY <1>3 DEF Kept

(* Everything is set exactly in the positive multiples of WordSize - 1.    *)
LEMMA FoldFull ==
  ASSUME NEW n \in Nat
  PROVE  FoldCarries[n] = WordSize - 1 <=> \E q \in Nat \ {0} : n = (WordSize - 1) * q
<1> DEFINE d == WordSize - 1
           f == FoldCarries[n]
<1>0. d \in Nat \ {0}
  BY BaseFacts
<1>1. f \in 0..d /\ (f = 0 <=> n = 0) /\ \E q \in Nat : n = (d * q) + f
  BY FoldKeeps
<1> HIDE DEF d, f
<1>2. PICK q \in Nat : n = (d * q) + f
  BY <1>1
<1>3. ASSUME f = d
      PROVE  \E p \in Nat \ {0} : n = d * p
  <2>1. d * (q + 1) = (d * q) + d
    BY <1>0, SMTT(10)
  <2>2. n = d * (q + 1) /\ q + 1 \in Nat \ {0}
    BY <1>2, <1>3, <2>1
  <2> QED
    BY <2>2
<1>4. ASSUME NEW p \in Nat \ {0}, n = d * p
      PROVE  f = d
  <2>1. d * p > 0 /\ d * p \in Int /\ d * q \in Int /\ d * (p - q) = d * p - d * q
    BY <1>0, SMTT(10)
  <2>2. f = d * (p - q) /\ f > 0
    BY <1>1, <1>2, <1>4, <2>1
  <2>3. SUFFICES ASSUME f < d PROVE FALSE
    BY <1>0, <1>1
  <2>4. p - q = 0
    BY <1>0, <1>1, <2>2, <2>3, SmallMultiple
  <2>5. d * 0 = 0
    BY <1>0, SMTT(10)
  <2> QED
    BY <2>2, <2>4, <2>5
<1> QED
  BY <1>3, <1>4 DEF d, f

-----------------------------------------------------------------------------
(* The sums of the packets that Uploads sends: two or three words. *)

(* The loop over the words has the value it builds up. *)
LEMMA RunningSumDef ==
  ASSUME NEW buffer, NEW words \in Nat, NEW n \in 0..words
  PROVE  RunningSum(buffer, words)[n] =
           IF n = 0 THEN 0
           ELSE RunningSum(buffer, words)[n - 1] + (buffer[2 * n - 1] * Base + buffer[2 * n])
<1> DEFINE Word(k) == buffer[2 * k - 1] * Base + buffer[2 * k]
           Solves(f, k) == f = [i \in 0..k |-> IF i = 0 THEN 0 ELSE f[i - 1] + Word(i)]
           T == {k \in Nat : ~ \E f : Solves(f, k)}
<1>1. ASSUME NEW k \in Nat, \A j \in 0..k - 1 : \E f : Solves(f, j)
      PROVE  \E f : Solves(f, k)
  <2> HIDE DEF Word
  <2>1. CASE k = 0
    <3> DEFINE f == [i \in 0..0 |-> 0]
    <3>1. Solves(f, k)
      BY <2>1
    <3> QED
      BY <3>1
  <2>2. CASE k # 0
    <3>1. PICK f : Solves(f, k - 1)
      BY <1>1, <2>2
    <3> DEFINE g == [i \in 0..k |-> IF i = k THEN f[k - 1] + Word(k) ELSE f[i]]
    <3>2. \A i \in 0..k - 1 : f[i] = IF i = 0 THEN 0 ELSE f[i - 1] + Word(i)
      BY <3>1, Zenon
    <3>3. ASSUME NEW i \in 0..k
          PROVE  g[i] = IF i = 0 THEN 0 ELSE g[i - 1] + Word(i)
      <4>1. CASE i = k
        BY <2>2, <4>1
      <4>2. CASE i # k
        BY <3>2, <4>2
      <4> QED
        BY <4>1, <4>2
    <3>4. g = [i \in 0..k |-> g[i]]
      OBVIOUS
    <3>5. Solves(g, k)
      <4> HIDE DEF g
      <4> QED
        BY <3>3, <3>4
    <3> QED
      BY <3>5, Zenon
  <2> QED
    BY <2>1, <2>2
<1> HIDE DEF Solves
<1>2. ASSUME T # {}
      PROVE  FALSE
  <2>1. PICK k \in T : \A i \in T : k <= i
    BY <1>2, LeastNumber
  <2>2. \A j \in 0..k - 1 : \E f : Solves(f, j)
    BY <2>1
  <2> QED
    BY <1>1, <2>1, <2>2
<1>3. \E f : Solves(f, words)
  BY <1>2
<1> USE DEF Solves
<1>4. RunningSum(buffer, words) = CHOOSE f : Solves(f, words)
  BY DEF RunningSum
<1>5. Solves(RunningSum(buffer, words), words)
  <2> HIDE DEF Solves
  <2> QED
    BY <1>3, <1>4, Zenon
<1> DEFINE total == RunningSum(buffer, words)
<1>6. total = [i \in 0..words |-> IF i = 0 THEN 0 ELSE total[i - 1] + Word(i)]
  BY <1>5
<1>7. total[n] = IF n = 0 THEN 0 ELSE total[n - 1] + Word(n)
  <2> HIDE DEF total, Word
  <2> QED
    BY <1>6
<1> QED
  BY <1>7

Word(high, low) == high * Base + low

(* The sum over two words, which is what _send makes of the data ... *)
LEMMA TwoWords ==
  ASSUME NEW buffer, NEW len \in {3, 4}
  PROVE  WordSum(buffer, len) =
           (0 + Word(buffer[1], buffer[2])) + Word(buffer[3], buffer[4])
<1>1. Words(len) = 2
  BY DEF Words
<1> DEFINE total == RunningSum(buffer, 2)
<1>2. /\ total[2] = total[2 - 1] + (buffer[2 * 2 - 1] * Base + buffer[2 * 2])
      /\ total[1] = total[1 - 1] + (buffer[2 * 1 - 1] * Base + buffer[2 * 1])
      /\ total[0] = 0
  BY RunningSumDef
<1> HIDE DEF total
<1>3. total[2] = (0 + Word(buffer[1], buffer[2])) + Word(buffer[3], buffer[4])
  BY <1>2 DEF Word
<1> QED
  BY <1>1, <1>3 DEF WordSum, total

(* ... and over three, which is what checksum_ makes of the packet. *)
LEMMA ThreeWords ==
  ASSUME NEW buffer, NEW len \in {5, 6}
  PROVE  WordSum(buffer, len) =
           ((0 + Word(buffer[1], buffer[2])) + Word(buffer[3], buffer[4]))
             + Word(buffer[5], buffer[6])
<1>1. Words(len) = 3
  BY DEF Words
<1> DEFINE total == RunningSum(buffer, 3)
<1>2. /\ total[3] = total[3 - 1] + (buffer[2 * 3 - 1] * Base + buffer[2 * 3])
      /\ total[2] = total[2 - 1] + (buffer[2 * 2 - 1] * Base + buffer[2 * 2])
      /\ total[1] = total[1 - 1] + (buffer[2 * 1 - 1] * Base + buffer[2 * 1])
      /\ total[0] = 0
  BY RunningSumDef
<1> HIDE DEF total
<1>3. total[3] = ((0 + Word(buffer[1], buffer[2])) + Word(buffer[3], buffer[4]))
                   + Word(buffer[5], buffer[6])
  BY <1>2 DEF Word
<1> QED
  BY <1>1, <1>3 DEF WordSum, total

(* A byte is less than a word in either place of a word, and so is the     *)
(* difference that one changed byte makes.                                 *)
LEMMA ByteFacts ==
  ASSUME NEW b \in Bytes
  PROVE  /\ b \in Nat /\ b * Base \in Nat
         /\ \A c \in Bytes \ {b} : 
              LET limit == WordSize - Base
              IN  /\ b * Base - c * Base \in (-limit..limit) \ {0}
                  /\ b - c \in (-limit..limit) \ {0}
<1>1. Base \in Nat /\ Base > 3 /\ WordSize \in Nat /\ WordSize >= Base + Base
      /\ (Base - 1) * Base = WordSize - Base
  BY BaseFacts
<1>2. b \in 0..Base - 1
  BY DEF Bytes
<1>3. b \in Nat /\ b * Base \in Nat
  BY <1>1, <1>2, SMTT(10)
<1>4. ASSUME NEW c \in Bytes \ {b}
      PROVE  LET limit == WordSize - Base
             IN  /\ b * Base - c * Base \in (-limit..limit) \ {0}
                 /\ b - c \in (-limit..limit) \ {0}
  <2>1. c \in 0..Base - 1 /\ c # b /\ c \in Nat
    BY <1>1 DEF Bytes
  <2>2. \A x, y \in 0..Base - 1 : x < y =>
          /\ x * Base \in Nat /\ y * Base \in Nat
          /\ x * Base < y * Base /\ y * Base <= (Base - 1) * Base
    <3>1. SUFFICES ASSUME NEW x \in 0..Base - 1, NEW y \in 0..Base - 1, x < y
                   PROVE  /\ x * Base \in Nat /\ y * Base \in Nat
                          /\ x * Base < y * Base /\ y * Base <= (Base - 1) * Base
      OBVIOUS
    <3>2. /\ x \in Nat /\ y \in Nat /\ y - x \in Nat \ {0} /\ (Base - 1) - y \in Nat
          /\ x * Base \in Nat /\ y * Base \in Nat
      BY <1>1, <3>1, SMTT(10)
    <3>3. (y - x) * Base = y * Base - x * Base /\ (y - x) * Base > 0
      BY <1>1, <3>2, SMTT(10)
    <3>4. /\ ((Base - 1) - y) * Base = (Base - 1) * Base - y * Base
          /\ ((Base - 1) - y) * Base >= 0
      BY <1>1, <3>2, SMTT(10)
    <3> QED
      BY <1>1, <3>2, <3>3, <3>4
  <2>3. c * Base \in Nat
    BY <1>1, <2>1, SMTT(10)
  <2>4. CASE b < c
    <3>1. b * Base < c * Base /\ c * Base <= (Base - 1) * Base
      BY <1>2, <2>1, <2>2, <2>4
    <3> QED
      BY <1>1, <1>2, <1>3, <2>1, <2>3, <2>4, <3>1
  <2>5. CASE c < b
    <3>1. c * Base < b * Base /\ b * Base <= (Base - 1) * Base
      BY <1>2, <2>1, <2>2, <2>5
    <3> QED
      BY <1>1, <1>2, <1>3, <2>1, <2>3, <2>5, <3>1
  <2> QED
    BY <1>1, <1>2, <2>1, <2>4, <2>5
<1> QED
  BY <1>3, <1>4

-----------------------------------------------------------------------------
(* Packets. *)

Part(p, i) == IF i <= Len(p) THEN p[i] ELSE 0
Weight(p, i) == IF i \in {1, 3, 5} THEN Part(p, i) * Base ELSE Part(p, i)
Total(p) == (Weight(p, 1) + Weight(p, 2)) + (Weight(p, 3) + Weight(p, 4))
              + (Weight(p, 5) + Weight(p, 6))
Packets == {p \in Seq(Bytes) : Len(p) \in {5, 6}}

(* A packet has bytes, and zeros beside the last. *)
LEMMA WeightFacts ==
  ASSUME NEW p \in Packets
  PROVE  \A i \in 1..6 : Part(p, i) \in Bytes /\ Weight(p, i) \in Nat
<1>1. p \in Seq(Bytes) /\ Len(p) \in {5, 6}
  BY DEF Packets
<1>2. 0 \in Bytes
  BY BaseFacts DEF Bytes
<1>3. \A i \in 1..Len(p) : p[i] \in Bytes
  BY <1>1, ElementOfSeq
<1>4. ASSUME NEW i \in 1..6
      PROVE  Part(p, i) \in Bytes
  BY <1>1, <1>2, <1>3 DEF Part
<1>5. ASSUME NEW i \in 1..6
      PROVE  Weight(p, i) \in Nat
  BY <1>4, ByteFacts DEF Weight
<1> QED
  BY <1>4, <1>5

(* The sum over the cleared buffer with the packet in it is the packet's.  *)
LEMMA CopiedSum ==
  ASSUME NEW p \in Packets
  PROVE  WordSum(Copied(Buffer(6), p), Len(p)) = Total(p) /\ Total(p) \in Nat
<1>1. p \in Seq(Bytes) /\ Len(p) \in {5, 6}
  BY DEF Packets
<1> DEFINE b == Copied(Buffer(6), p)
<1>2. \A i \in 1..6 : b[i] = Part(p, i)
  BY <1>1 DEF Copied, Buffer, Part
<1> HIDE DEF b
<1>3. WordSum(b, Len(p)) = ((0 + Word(b[1], b[2])) + Word(b[3], b[4])) + Word(b[5], b[6])
  BY <1>1, ThreeWords
<1>4. /\ Word(b[1], b[2]) = Weight(p, 1) + Weight(p, 2)
      /\ Word(b[3], b[4]) = Weight(p, 3) + Weight(p, 4)
      /\ Word(b[5], b[6]) = Weight(p, 5) + Weight(p, 6)
  BY <1>2 DEF Word, Weight
<1>5. \A i \in 1..6 : Weight(p, i) \in Nat
  BY WeightFacts
<1>6. /\ Weight(p, 1) \in Nat /\ Weight(p, 2) \in Nat /\ Weight(p, 3) \in Nat
      /\ Weight(p, 4) \in Nat /\ Weight(p, 5) \in Nat /\ Weight(p, 6) \in Nat
  BY <1>5
<1> QED
  BY <1>3, <1>4, <1>6 DEF Total, b

(* The checksum of the data fits into the two bytes in front of it.        *)
LEMMA HeaderFacts ==
  ASSUME NEW sum \in 0..WordSize - 1
  PROVE  sum \div Base \in Bytes /\ sum % Base \in Bytes /\ (sum \div Base) * Base + (sum % Base) = sum
<1> DEFINE q == sum \div Base
           r == sum % Base
<1>0. Base \in Nat \ {0} /\ WordSize = Base * Base /\ WordSize \in Nat /\ sum \in Nat
  BY BaseFacts DEF WordSize
<1>1. q \in Nat /\ r \in 0..Base - 1 /\ sum = (Base * q) + r
  BY <1>0, DivMod
<1> HIDE DEF q, r
<1>2. Base * q \in Nat /\ q * Base = Base * q
  BY <1>0, <1>1, SMTT(10)
<1>3. q < Base
  <2>1. SUFFICES ASSUME q >= Base PROVE FALSE
    BY <1>0, <1>1
  <2>2. q - Base \in Nat
    BY <1>0, <1>1, <2>1
  <2>3. Base * (q - Base) >= 0 /\ Base * (q - Base) = Base * q - Base * Base
    BY <1>0, <1>1, <2>2, SMTT(10)
  <2> QED
    BY <1>0, <1>1, <1>2, <2>3
<1> QED
  BY <1>0, <1>1, <1>2, <1>3 DEF q, r, Bytes

(* Both parts of a block's number, and every other byte the packets hold.  *)
LEMMA BytesKnown ==
  /\ 0 \in Bytes /\ 3 \in Bytes
  /\ \A u \in Uploads : u \in Bytes
  /\ \A k \in 1..Blocks : k \in Bytes
<1>1. Base \in Nat /\ Base > 3
  BY BaseFacts
<1> QED
  BY <1>1, BoundsAssumption DEF Uploads, Bytes

(* A block is one byte or two. *)
LEMMA BlockFacts ==
  ASSUME NEW u \in Uploads, NEW k \in 1..Blocks
  PROVE  Block(u, k) \in Seq(Bytes) /\ Len(Block(u, k)) \in {1, 2} /\ Block(u, k) \in BlockOrHole
<1>1. u \in Bytes /\ k \in Bytes
  BY BytesKnown
<1>2. Block(u, k) \in Seq(Bytes) /\ Len(Block(u, k)) \in {1, 2}
  BY <1>1 DEF Block
<1>3. Block(u, k) \in [1..Len(Block(u, k)) -> Bytes]
  BY <1>2, LenProperties
<1> QED
  BY <1>2, <1>3 DEF BlockOrHole

(* A pair in front of a sequence. *)
LEMMA PairFirst ==
  ASSUME NEW a \in Bytes, NEW b \in Bytes, NEW s \in Seq(Bytes)
  PROVE  /\ <<a, b>> \o s \in Seq(Bytes)
         /\ Len(<<a, b>> \o s) = Len(s) + 2
         /\ (<<a, b>> \o s)[1] = a /\ (<<a, b>> \o s)[2] = b
         /\ \A i \in 1..Len(s) : (<<a, b>> \o s)[i + 2] = s[i]
<1> DEFINE pair == <<a, b>>
           all  == pair \o s
<1>1. pair \in Seq(Bytes) /\ Len(pair) = 2 /\ pair[1] = a /\ pair[2] = b
  OBVIOUS
<1>2. Len(s) \in Nat
  BY LenProperties
<1> HIDE DEF pair
<1>3. /\ all \in Seq(Bytes) /\ Len(all) = Len(pair) + Len(s)
      /\ \A i \in 1..Len(pair) + Len(s) :
           all[i] = IF i <= Len(pair) THEN pair[i] ELSE s[i - Len(pair)]
  BY <1>1, ConcatProperties
<1> HIDE DEF all
<1>4. all[1] = a /\ all[2] = b
  BY <1>1, <1>2, <1>3
<1>5. ASSUME NEW i \in 1..Len(s) PROVE all[i + 2] = s[i]
  <2>1. i + 2 \in 1..Len(pair) + Len(s) /\ ~(i + 2 <= Len(pair)) /\ i + 2 - Len(pair) = i
    BY <1>1, <1>2
  <2> QED
    BY <1>3, <2>1
<1>6. all \in Seq(Bytes) /\ Len(all) = Len(s) + 2
  BY <1>1, <1>2, <1>3
<1> QED
  BY <1>4, <1>5, <1>6 DEF all, pair

(* The bytes of the packet that carries block k of upload u.               *)
LEMMA DataPacketFacts ==
  ASSUME NEW u \in Uploads, NEW k \in 1..Blocks
  PROVE  /\ DataPacket(u, k) \in Packets
         /\ DataOf(DataPacket(u, k)) = Block(u, k)
         /\ \E q \in Nat \ {0} : Total(DataPacket(u, k)) = (WordSize - 1) * q
<1> DEFINE block == Block(u, k)
           data == <<3, k>> \o block
<1>1. 3 \in Bytes /\ k \in Bytes /\ 0 \in Bytes
  BY BytesKnown
<1>2. block \in Seq(Bytes) /\ Len(block) \in {1, 2}
  BY BlockFacts
<1> DEFINE b == Copied(Buffer(Len(data)), data)
           n == WordSum(b, Len(data))
           sum == Sum(b, Len(data))
           p == <<sum \div Base, sum % Base>> \o data
<1>6. DataPacket(u, k) = p
  BY DEF DataPacket, Packet
<1> HIDE DEF block
<1>3. /\ data \in Seq(Bytes) /\ Len(data) = Len(block) + 2 /\ data[1] = 3
      /\ \A i \in 1..Len(block) : data[i + 2] = block[i]
  BY <1>1, <1>2, PairFirst
<1> HIDE DEF data
<1>4. Len(data) \in {3, 4}
  <2>1. Len(block) = 1 \/ Len(block) = 2
    BY <1>2
  <2> HIDE DEF data, block
  <2>2. Len(data) = Len(block) + 2
    BY <1>3, Zenon
  <2>3. Len(data) = 3 \/ Len(data) = 4
    <3>1. CASE Len(block) = 1
      BY <2>2, <3>1
    <3>2. CASE Len(block) = 2
      BY <2>2, <3>2
    <3> QED
      BY <2>1, <3>1, <3>2, Zenon
  <2> QED
    BY <2>3
<1>5. \A i \in 1..Len(data) : data[i] \in Bytes
  BY <1>3, ElementOfSeq
<1>7. b[1] = 3 /\ \A i \in 1..4 : b[i] = Part(data, i)
  BY <1>3, <1>4 DEF Copied, Buffer, Part
<1>8. n = (0 + Word(b[1], b[2])) + Word(b[3], b[4])
  <2> HIDE DEF b
  <2> QED
    BY <1>4, TwoWords
<1> HIDE DEF b
<1>9. \A i \in 1..4 : b[i] \in Bytes /\ b[i] \in Nat /\ b[i] * Base \in Nat
  <2>1. \A i \in 1..4 : b[i] \in Bytes
    BY <1>1, <1>4, <1>5, <1>7 DEF Part
  <2> QED
    BY <2>1, ByteFacts
<1>10. n = (b[1] * Base + b[2]) + (b[3] * Base + b[4]) /\ n \in Nat /\ n > 0
  <2>1. b[1] * Base > 0
    BY <1>7, BaseFacts
  <2>2. /\ b[1] * Base \in Nat /\ b[2] \in Nat /\ b[3] * Base \in Nat /\ b[4] \in Nat
    BY <1>9
  <2> QED
    BY <1>8, <2>1, <2>2 DEF Word
<1> HIDE DEF n
<1>11. sum = WordSize - 1 - FoldCarries[n]
  BY DEF Sum, n
<1> HIDE DEF sum
<1>12. PICK q \in Nat : n = ((WordSize - 1) * q) + FoldCarries[n]
  BY <1>10, FoldKeeps
<1>13. FoldCarries[n] \in 0..WordSize - 1 /\ WordSize \in Nat /\ WordSize > 2
  BY <1>10, FoldKeeps, BaseFacts
<1>14. sum \in 0..WordSize - 1
  BY <1>11, <1>13
<1>15. /\ sum \div Base \in Bytes /\ sum % Base \in Bytes
       /\ (sum \div Base) * Base + (sum % Base) = sum
  BY <1>14, HeaderFacts
<1> DEFINE high == sum \div Base
           low  == sum % Base
<1> HIDE DEF high, low
<1>16. p = <<high, low>> \o data /\ high \in Bytes /\ low \in Bytes /\ high * Base + low = sum
  BY <1>15 DEF high, low
<1> HIDE DEF p
<1>17. /\ p \in Seq(Bytes) /\ Len(p) = Len(data) + 2
       /\ p[1] = high /\ p[2] = low
       /\ \A i \in 1..Len(data) : p[i + 2] = data[i]
  BY <1>3, <1>16, PairFirst
<1>18. p \in Packets
  <2>1. Len(p) = Len(data) + 2
    BY <1>17, Zenon
  <2>2. Len(data) = 3 \/ Len(data) = 4
    BY <1>4, Zenon
  <2>3. Len(p) = 5 \/ Len(p) = 6
    <3>1. CASE Len(data) = 3
      BY <2>1, <3>1
    <3>2. CASE Len(data) = 4
      BY <2>1, <3>2
    <3> QED
      BY <2>2, <3>1, <3>2, Zenon
  <2> QED
    BY <1>17, <2>3 DEF Packets
<1>19. DataOf(p) = block
  <2>1. \A i \in 1..Len(p) : p[i] \in Bytes
    BY <1>17, ElementOfSeq
  <2>2. Len(p) = Len(block) + 4 /\ Len(p) \in Int
    BY <1>2, <1>3, <1>17
  <2>3. \A i \in 5..Len(p) : p[i] \in Bytes
    BY <2>1, <2>2
  <2> DEFINE t == SubSeq(p, 5, Len(p))
  <2>4. /\ t \in Seq(Bytes)
        /\ Len(t) = IF 5 <= Len(p) THEN Len(p) - 5 + 1 ELSE 0
        /\ \A i \in 1..Len(p) - 5 + 1 : t[i] = p[5 + i - 1]
    BY <2>2, <2>3, SubSeqProperties
  <2> HIDE DEF t
  <2>5. Len(t) = Len(block)
    BY <1>2, <2>2, <2>4
  <2>6. ASSUME NEW i \in 1..Len(t) PROVE t[i] = block[i]
    <3>1. i \in 1..Len(block) /\ i \in 1..Len(p) - 5 + 1 /\ 5 + i - 1 = (i + 2) + 2
          /\ i + 2 \in 1..Len(data)
      BY <1>2, <1>3, <2>2, <2>5
    <3>2. t[i] = p[(i + 2) + 2]
      BY <2>4, <3>1
    <3>3. p[(i + 2) + 2] = data[i + 2] /\ data[i + 2] = block[i]
      BY <1>3, <1>17, <3>1
    <3> QED
      BY <3>2, <3>3
  <2>7. t = block
    BY <1>2, <2>4, <2>5, <2>6, SeqEqual
  <2> QED
    BY <2>7 DEF t, DataOf
<1>20. Total(p) = sum + n
  <2>1. /\ Part(p, 1) = high /\ Part(p, 2) = low
        /\ Part(p, 3) = b[1] /\ Part(p, 4) = b[2] /\ Part(p, 5) = b[3] /\ Part(p, 6) = b[4]
    <3>1. \A i \in 1..4 : Part(p, i + 2) = Part(data, i)
      BY <1>4, <1>17 DEF Part
    <3>2. Part(p, 1) = high /\ Part(p, 2) = low
      BY <1>4, <1>17 DEF Part
    <3>3. /\ Part(p, 1 + 2) = b[1] /\ Part(p, 2 + 2) = b[2]
          /\ Part(p, 3 + 2) = b[3] /\ Part(p, 4 + 2) = b[4]
      BY <1>7, <3>1
    <3> QED
      BY <3>2, <3>3
  <2>2. /\ Weight(p, 1) = high * Base /\ Weight(p, 2) = low
        /\ Weight(p, 3) = b[1] * Base /\ Weight(p, 4) = b[2]
        /\ Weight(p, 5) = b[3] * Base /\ Weight(p, 6) = b[4]
    BY <2>1 DEF Weight
  <2>3. /\ high * Base \in Nat /\ low \in Nat /\ b[1] * Base \in Nat /\ b[2] \in Nat
        /\ b[3] * Base \in Nat /\ b[4] \in Nat
    BY <1>9, <1>16, ByteFacts
  <2>4. Total(p) = (high * Base + low) + (b[1] * Base + b[2]) + (b[3] * Base + b[4])
    BY <2>2 DEF Total
  <2>5. sum \in Nat /\ n \in Nat
    BY <1>10, <1>13, <1>14
  <2>6. Total(p) = sum + (b[1] * Base + b[2]) + (b[3] * Base + b[4])
    BY <1>16, <2>4
  <2> QED
    BY <1>10, <2>3, <2>5, <2>6
<1>21. Total(p) = (WordSize - 1) * (q + 1) /\ q + 1 \in Nat \ {0}
  <2>1. (WordSize - 1) * (q + 1) = (WordSize - 1) * q + (WordSize - 1) /\ (WordSize - 1) * q \in Int
    BY <1>13, SMTT(10)
  <2> QED
    BY <1>11, <1>12, <1>13, <1>20, <2>1
<1> QED
  BY <1>6, <1>18, <1>19, <1>21 DEF p, block

(* A garbled packet is as long as it was, and its sum is another.          *)
LEMMA GarbledFacts ==
  ASSUME NEW p \in Packets, NEW r \in Garbled(p)
  PROVE  /\ r \in Packets /\ Len(r) = Len(p)
         /\ \E d \in (-(WordSize - Base)..(WordSize - Base)) \ {0} : Total(r) = Total(p) + d
<1>1. p \in Seq(Bytes) /\ Len(p) \in {5, 6} /\ DOMAIN p = 1..Len(p)
  BY DEF Packets
<1>2. PICK j \in 1..Len(p), c \in Bytes : r = [p EXCEPT ![j] = c] /\ r # p
  BY <1>1 DEF Garbled
<1>3. r \in Seq(Bytes) /\ Len(r) = Len(p)
  BY <1>1, <1>2
<1>4. r \in Packets
  BY <1>1, <1>3 DEF Packets
<1>5. c # p[j] /\ p[j] \in Bytes
  BY <1>1, <1>2
<1>6. \A i \in 1..6 \ {j} : Part(r, i) = Part(p, i)
  BY <1>1, <1>2, <1>3 DEF Part
<1>7. Part(r, j) = c /\ Part(p, j) = p[j] /\ j \in 1..6
  BY <1>1, <1>2, <1>3 DEF Part
<1>8. \A i \in 1..6 : i # j => Weight(r, i) = Weight(p, i)
  BY <1>6 DEF Weight
<1>9. Weight(r, j) - Weight(p, j) \in (-(WordSize - Base)..(WordSize - Base)) \ {0}
  <2>1. p[j] \in Bytes \ {c}
    BY <1>5
  <2>2. /\ c * Base - p[j] * Base \in (-(WordSize - Base)..(WordSize - Base)) \ {0}
        /\ c - p[j] \in (-(WordSize - Base)..(WordSize - Base)) \ {0}
    BY <2>1, ByteFacts
  <2> QED
    BY <1>7, <2>2 DEF Weight
<1>10. \A i \in 1..6 : Weight(r, i) \in Nat /\ Weight(p, i) \in Nat
  BY <1>4, WeightFacts
<1>11. Total(r) = Total(p) + (Weight(r, j) - Weight(p, j))
  <2>1. PICK a \in Nat, b \in Nat, d \in Nat, e \in Nat, f \in Nat, g \in Nat :
          /\ Weight(p, 1) = a /\ Weight(p, 2) = b /\ Weight(p, 3) = d
          /\ Weight(p, 4) = e /\ Weight(p, 5) = f /\ Weight(p, 6) = g
    <3>1. /\ Weight(p, 1) \in Nat /\ Weight(p, 2) \in Nat /\ Weight(p, 3) \in Nat
          /\ Weight(p, 4) \in Nat /\ Weight(p, 5) \in Nat /\ Weight(p, 6) \in Nat
      BY <1>10
    <3> QED
      BY <3>1, Zenon
  <2>2. PICK new \in Nat : Weight(r, j) = new
    BY <1>7, <1>10
  <2>3. Total(p) = (a + b) + (d + e) + (f + g)
    BY <2>1 DEF Total
  <2>4. CASE j = 1
    <3>1. Total(r) = (new + b) + (d + e) + (f + g)
      BY <1>8, <2>1, <2>2, <2>4 DEF Total
    <3>2. Weight(p, j) = a
      BY <2>1, <2>4
    <3> QED
      BY <2>2, <2>3, <3>1, <3>2
  <2>5. CASE j = 2
    <3>1. Total(r) = (a + new) + (d + e) + (f + g)
      BY <1>8, <2>1, <2>2, <2>5 DEF Total
    <3>2. Weight(p, j) = b
      BY <2>1, <2>5
    <3> QED
      BY <2>2, <2>3, <3>1, <3>2
  <2>6. CASE j = 3
    <3>1. Total(r) = (a + b) + (new + e) + (f + g)
      BY <1>8, <2>1, <2>2, <2>6 DEF Total
    <3>2. Weight(p, j) = d
      BY <2>1, <2>6
    <3> QED
      BY <2>2, <2>3, <3>1, <3>2
  <2>7. CASE j = 4
    <3>1. Total(r) = (a + b) + (d + new) + (f + g)
      BY <1>8, <2>1, <2>2, <2>7 DEF Total
    <3>2. Weight(p, j) = e
      BY <2>1, <2>7
    <3> QED
      BY <2>2, <2>3, <3>1, <3>2
  <2>8. CASE j = 5
    <3>1. Total(r) = (a + b) + (d + e) + (new + g)
      BY <1>8, <2>1, <2>2, <2>8 DEF Total
    <3>2. Weight(p, j) = f
      BY <2>1, <2>8
    <3> QED
      BY <2>2, <2>3, <3>1, <3>2
  <2>9. CASE j = 6
    <3>1. Total(r) = (a + b) + (d + e) + (f + new)
      BY <1>8, <2>1, <2>2, <2>9 DEF Total
    <3>2. Weight(p, j) = g
      BY <2>1, <2>9
    <3> QED
      BY <2>2, <2>3, <3>1, <3>2
  <2>10. j \in {1, 2, 3, 4, 5, 6}
    BY <1>7
  <2> QED
    BY <2>4, <2>5, <2>6, <2>7, <2>8, <2>9, <2>10
<1> QED
  BY <1>3, <1>4, <1>9, <1>11

(* A packet alone in the cleared buffer verifies exactly if it is the one  *)
(* that was sent, or no byte of it was changed.                            *)
LEMMA SumTellsGarbled ==
  ASSUME NEW u \in Uploads, NEW k \in 1..Blocks,
         NEW p \in {DataPacket(u, k)} \cup Garbled(DataPacket(u, k))
  PROVE  Sum(Copied(Buffer(6), p), Len(p)) = 0 <=> p = DataPacket(u, k)
<1> DEFINE sent == DataPacket(u, k)
<1>1. sent \in Packets
  BY DataPacketFacts
<1>2. PICK q \in Nat \ {0} : Total(sent) = (WordSize - 1) * q
  BY DataPacketFacts
<1>3. p \in {sent} \cup Garbled(sent) /\ sent \notin Garbled(sent)
  BY DEF Garbled
<1> HIDE DEF sent
<1>4. p \in Packets
  BY <1>1, <1>3, GarbledFacts
<1>5. WordSum(Copied(Buffer(6), p), Len(p)) = Total(p) /\ Total(p) \in Nat
  BY <1>4, CopiedSum
<1>6. WordSize \in Nat /\ WordSize > 2 /\ Base \in Nat /\ Base > 3 /\ WordSize > Base
  BY BaseFacts
<1>7. Sum(Copied(Buffer(6), p), Len(p)) = 0 <=> FoldCarries[Total(p)] = WordSize - 1
  <2>1. FoldCarries[Total(p)] \in 0..WordSize - 1
    BY <1>5, FoldKeeps
  <2>2. Sum(Copied(Buffer(6), p), Len(p)) = WordSize - 1 - FoldCarries[Total(p)]
    BY <1>5 DEF Sum
  <2> QED
    BY <1>6, <2>1, <2>2
<1>8. FoldCarries[Total(p)] = WordSize - 1 <=> \E i \in Nat \ {0} : Total(p) = (WordSize - 1) * i
  BY <1>5, FoldFull
<1>9. ASSUME p \in Garbled(sent), NEW i \in Nat \ {0}, Total(p) = (WordSize - 1) * i
      PROVE  FALSE
  <2>1. PICK d \in (-(WordSize - Base)..(WordSize - Base)) \ {0} : Total(p) = Total(sent) + d
    BY <1>1, <1>9, GarbledFacts
  <2>2. /\ (WordSize - 1) * (i - q) = (WordSize - 1) * i - (WordSize - 1) * q
        /\ (WordSize - 1) * i \in Int /\ (WordSize - 1) * q \in Int
    BY <1>6, SMTT(10)
  <2>3. (WordSize - 1) * (i - q) = d
    BY <1>2, <1>9, <2>1, <2>2
  <2>4. i - q = 0
    BY <1>6, <2>1, <2>3, SmallMultiple
  <2>5. (WordSize - 1) * 0 = 0
    BY <1>6, SMTT(10)
  <2> QED
    BY <2>1, <2>3, <2>4, <2>5
<1> QED
  BY <1>2, <1>3, <1>7, <1>8, <1>9 DEF sent

-----------------------------------------------------------------------------
(* Sequences of blocks. *)

(* A hole is a block of no bytes. *)
LEMMA HoleFacts == Hole \in BlockOrHole /\ <<>> \in BlockOrHole
<1>1. <<>> \in [1..0 -> Bytes]
  OBVIOUS
<1> QED
  BY <1>1 DEF Hole, BlockOrHole

(* What a packet carries is a block, garbled or not. *)
LEMMA DataOfFacts ==
  ASSUME NEW p \in Packets
  PROVE  DataOf(p) \in BlockOrHole
<1>1. p \in Seq(Bytes) /\ Len(p) \in {5, 6}
  BY DEF Packets
<1>2. \A i \in 5..Len(p) : p[i] \in Bytes
  BY <1>1, ElementOfSeq
<1> DEFINE t == SubSeq(p, 5, Len(p))
<1>3. t \in Seq(Bytes) /\ Len(t) = IF 5 <= Len(p) THEN Len(p) - 5 + 1 ELSE 0
  BY <1>1, <1>2, SubSeqProperties
<1> HIDE DEF t
<1>4. Len(t) \in 0..2
  BY <1>1, <1>3
<1>5. t \in [1..Len(t) -> Bytes]
  BY <1>3, LenProperties
<1> QED
  BY <1>4, <1>5 DEF BlockOrHole, t, DataOf

(* A write makes a file longer if it reaches beyond its end, and changes   *)
(* what it reaches.                                                        *)
LEMMA WriteAtFacts ==
  ASSUME NEW file \in Seq(BlockOrHole), NEW at \in Nat, NEW blocks \in Seq(BlockOrHole)
  PROVE  /\ WriteAt(file, at, blocks) \in Seq(BlockOrHole)
         /\ Len(WriteAt(file, at, blocks)) = Longer(Len(file), at + Len(blocks))
         /\ \A k \in 1..Longer(Len(file), at + Len(blocks)) :
              WriteAt(file, at, blocks)[k] =
                IF k \in at + 1..at + Len(blocks) THEN blocks[k - at]
                ELSE IF k <= Len(file) THEN file[k] ELSE Hole
<1> DEFINE n == Longer(Len(file), at + Len(blocks))
           e(k) == IF k \in at + 1..at + Len(blocks) THEN blocks[k - at]
                   ELSE IF k <= Len(file) THEN file[k] ELSE Hole
<1>1. Len(file) \in Nat /\ Len(blocks) \in Nat
  BY LenProperties
<1>2. n \in Nat
  BY <1>1 DEF Longer
<1>3. ASSUME NEW k \in 1..n PROVE e(k) \in BlockOrHole
  <2>1. CASE k \in at + 1..at + Len(blocks)
    <3>1. k - at \in 1..Len(blocks)
      BY <1>1, <1>2, <2>1
    <3> QED
      BY <2>1, <3>1, ElementOfSeq
  <2>2. CASE k \notin at + 1..at + Len(blocks) /\ k <= Len(file)
    <3>1. k \in 1..Len(file)
      BY <1>1, <1>2, <2>2
    <3> QED
      BY <2>2, <3>1, ElementOfSeq
  <2> QED
    BY <2>1, <2>2, HoleFacts
<1> DEFINE f == [k \in 1..n |-> e(k)]
<1>4. WriteAt(file, at, blocks) = f
  BY DEF WriteAt
<1>5. f \in [1..n -> BlockOrHole] /\ \A k \in 1..n : f[k] = e(k)
  <2> HIDE DEF n, e
  <2> QED
    BY <1>3
<1> HIDE DEF n, e, f
<1>6. f \in Seq(BlockOrHole) /\ Len(f) = n
  BY <1>2, <1>5
<1> QED
  BY <1>4, <1>5, <1>6 DEF n, e

-----------------------------------------------------------------------------
(* What the variables hold at each label. *)

Types ==
  /\ entry \in {None} \cup Uploads
  /\ content \in [Uploads -> Seq(BlockOrHole)]
  /\ pc \in [Workers -> Labels]
  /\ id \in [Workers -> {None} \cup Uploads] /\ inode \in [Workers -> {None} \cup Uploads]
  /\ offset \in [Workers -> Nat] /\ pending \in [Workers -> Seq(BlockOrHole)]
  /\ packet \in [Workers -> Seq(Bytes)]
  /\ size \in [Workers -> 0..Blocks] /\ got \in [Workers -> Seq(BlockOrHole)]
  /\ buff \in [1..7 -> Bytes]
  /\ up \in BOOLEAN /\ begun \in 0..MaxUploads /\ garbled \in 0..MaxGarbled

Lengths == \A u \in Uploads : Len(content[u]) <= Blocks

Writer(w) == pc[w] \in Writing
Opened(w) == pc[w] \in Writing \ {"open"}

Stage(w) ==
  /\ Written(w) <= Blocks /\ Len(got[w]) <= size[w]
  /\ Writer(w) => id[w] # None
  /\ Opened(w) => inode[w] # None
  /\ pc[w] = "read" => inode[w] # None
  /\ pc[w] \in {"idle", "open", "size", "reopen"} =>
       inode[w] = None /\ offset[w] = 0 /\ pending[w] = <<>> /\ got[w] = <<>>
  /\ pc[w] \in {"receive", "clear", "copy", "sum"} => Written(w) < Blocks
  /\ pc[w] \in {"clear", "copy", "sum"} => packet[w] \in {Due(w)} \cup Garbled(Due(w))
Stages == \A w \in Workers : Stage(w)

Typed == Types /\ Lengths /\ Stages

(* The steps that one worker takes. *)
Step(w) ==
  \/ WriteAccess(w) \/ WriteOpen(w) \/ WriteOpenFails(w)
  \/ Receive(w) \/ ClearBuffer(w) \/ CopyPacket(w) \/ SumPacket(w)
  \/ Flush(w) \/ DiskFull(w) \/ Abandon(w) \/ Close(w)
  \/ ReadAccess(w) \/ ReadSize(w) \/ ReadOpen(w) \/ ReadBlock(w) \/ ReadEnd(w)

(* Nothing of v's own changes. *)
Kept(v) ==
  /\ pc'[v] = pc[v] /\ id'[v] = id[v] /\ inode'[v] = inode[v]
  /\ offset'[v] = offset[v] /\ pending'[v] = pending[v] /\ packet'[v] = packet[v]
  /\ size'[v] = size[v] /\ got'[v] = got[v]

(* A worker that leaves is as it was at first. *)
LEMMA LeaveFacts ==
  ASSUME Types, NEW w \in Workers, Leave(w)
  PROVE  /\ pc' \in [Workers -> Labels]
         /\ id' \in [Workers -> {None} \cup Uploads] /\ inode' \in [Workers -> {None} \cup Uploads]
         /\ offset' \in [Workers -> Nat] /\ pending' \in [Workers -> Seq(BlockOrHole)]
         /\ packet' \in [Workers -> Seq(Bytes)]
         /\ size' \in [Workers -> 0..Blocks] /\ got' \in [Workers -> Seq(BlockOrHole)]
         /\ pc'[w] = "idle" /\ id'[w] = None /\ inode'[w] = None /\ offset'[w] = 0
         /\ pending'[w] = <<>> /\ packet'[w] = <<>> /\ size'[w] = 0 /\ got'[w] = <<>>
         /\ \A v \in Workers \ {w} : Kept(v)
<1>1. <<>> \in Seq(BlockOrHole) /\ <<>> \in Seq(Bytes)
  OBVIOUS
<1>2. 0 \in Nat /\ 0 \in 0..Blocks /\ None \in {None} \cup Uploads /\ "idle" \in Labels
  BY BoundsAssumption DEF Labels
<1>3. \A S, f, x : f \in [Workers -> S] /\ x \in S =>
        /\ [f EXCEPT ![w] = x] \in [Workers -> S]
        /\ [f EXCEPT ![w] = x][w] = x
        /\ \A v \in Workers \ {w} : [f EXCEPT ![w] = x][v] = f[v]
  OBVIOUS
<1>4. /\ pc' \in [Workers -> Labels] /\ pc'[w] = "idle"
      /\ \A v \in Workers \ {w} : pc'[v] = pc[v]
  BY <1>2, <1>3 DEF Types, Leave, Goto
<1>5. /\ id' \in [Workers -> {None} \cup Uploads] /\ id'[w] = None
      /\ \A v \in Workers \ {w} : id'[v] = id[v]
  BY <1>2, <1>3 DEF Types, Leave
<1>6. /\ inode' \in [Workers -> {None} \cup Uploads] /\ inode'[w] = None
      /\ \A v \in Workers \ {w} : inode'[v] = inode[v]
  BY <1>2, <1>3 DEF Types, Leave
<1>7. /\ offset' \in [Workers -> Nat] /\ offset'[w] = 0
      /\ \A v \in Workers \ {w} : offset'[v] = offset[v]
  BY <1>2, <1>3 DEF Types, Leave
<1>8. /\ pending' \in [Workers -> Seq(BlockOrHole)] /\ pending'[w] = <<>>
      /\ \A v \in Workers \ {w} : pending'[v] = pending[v]
  BY <1>1, <1>3 DEF Types, Leave
<1>9. /\ packet' \in [Workers -> Seq(Bytes)] /\ packet'[w] = <<>>
      /\ \A v \in Workers \ {w} : packet'[v] = packet[v]
  BY <1>1, <1>3 DEF Types, Leave
<1>10. /\ size' \in [Workers -> 0..Blocks] /\ size'[w] = 0
       /\ \A v \in Workers \ {w} : size'[v] = size[v]
  BY <1>2, <1>3 DEF Types, Leave
<1>11. /\ got' \in [Workers -> Seq(BlockOrHole)] /\ got'[w] = <<>>
       /\ \A v \in Workers \ {w} : got'[v] = got[v]
  BY <1>1, <1>3 DEF Types, Leave
<1> QED
  BY <1>4, <1>5, <1>6, <1>7, <1>8, <1>9, <1>10, <1>11 DEF Kept

(* A step of one worker leaves what the others have. *)
LEMMA OthersKept ==
  ASSUME Types, NEW w \in Workers, Step(w), NEW v \in Workers \ {w}
  PROVE  Kept(v)
<1>1. CASE WriteAccess(w)
  BY <1>1 DEF Types, Kept, WriteAccess, BeginUpload, Goto
<1>2. CASE WriteOpen(w)
  BY <1>2 DEF Types, Kept, WriteOpen, Goto
<1>3. CASE Leave(w)
  BY <1>3, LeaveFacts
<1>4. CASE Receive(w)
  <2>1. PICK p : packet' = [packet EXCEPT ![w] = p]
    BY <1>4 DEF Receive
  <2> QED
    BY <1>4, <2>1 DEF Types, Kept, Receive, Goto
<1>5. CASE ClearBuffer(w)
  BY <1>5 DEF Types, Kept, ClearBuffer, Goto, locals
<1>6. CASE CopyPacket(w)
  BY <1>6 DEF Types, Kept, CopyPacket, Goto, locals
<1>7. CASE SumPacket(w)
  BY <1>7 DEF Types, Kept, SumPacket, Goto
<1>8. CASE Flush(w)
  BY <1>8 DEF Types, Kept, Flush
<1>9. CASE ReadAccess(w)
  BY <1>9 DEF Types, Kept, ReadAccess, Goto, locals
<1>10. CASE ReadSize(w) /\ ~Leave(w)
  BY <1>10 DEF Types, Kept, ReadSize, Goto
<1>11. CASE ReadOpen(w)
  BY <1>11 DEF Types, Kept, ReadOpen, Goto
<1>12. CASE ReadBlock(w)
  BY <1>12 DEF Types, Kept, ReadBlock, Goto
<1> QED
  BY <1>1, <1>2, <1>3, <1>4, <1>5, <1>6, <1>7, <1>8, <1>9, <1>10, <1>11, <1>12
     DEF Step, WriteOpenFails, DiskFull, Abandon, Close, ReadEnd

(* Every buffer is 7 bytes long, whatever is copied into it. *)
LEMMA BufferFacts ==
  ASSUME NEW b \in [1..7 -> Bytes]
  PROVE  /\ Cleared(b) = Buffer(6)
         /\ Buffer(6) \in [1..7 -> Bytes]
         /\ \A p \in Seq(Bytes) : Copied(b, p) \in [1..7 -> Bytes]
         /\ Copied(Cleared(b), <<0, 0>>) \in [1..7 -> Bytes]
<1>1. 0 \in Bytes
  BY BytesKnown
<1>2. Cleared(b) = Buffer(6)
  BY DEF Cleared, Buffer
<1>3. Buffer(6) \in [1..7 -> Bytes]
  BY <1>1 DEF Buffer
<1>4. ASSUME NEW c \in [1..7 -> Bytes], NEW p \in Seq(Bytes)
      PROVE  Copied(c, p) \in [1..7 -> Bytes]
  <2>1. Len(p) \in Nat /\ \A i \in 1..Len(p) : p[i] \in Bytes
    BY LenProperties, ElementOfSeq
  <2>2. \A i \in 1..7 : (IF i <= Len(p) THEN p[i] ELSE c[i]) \in Bytes
    BY <2>1
  <2>3. DOMAIN c = 1..7
    OBVIOUS
  <2> QED
    BY <2>2, <2>3 DEF Copied
<1>5. <<0, 0>> \in Seq(Bytes)
  BY <1>1
<1> QED
  BY <1>2, <1>3, <1>4, <1>5

(* What is untouched stays at its stage. *)
LEMMA StageKept ==
  ASSUME NEW v \in Workers, Stage(v), Kept(v)
  PROVE  Stage(v)'
BY DEF Stage, Kept, Writer, Opened, Written, Due

(* The block that is due, and what the network makes of its packet. *)
LEMMA DueFacts ==
  ASSUME Types, NEW w \in Workers, id[w] # None, Written(w) < Blocks,
         NEW p \in {Due(w)} \cup Garbled(Due(w))
  PROVE  /\ id[w] \in Uploads /\ Written(w) + 1 \in 1..Blocks
         /\ Due(w) \in Packets /\ p \in Packets /\ p \in Seq(Bytes)
         /\ DataOf(Due(w)) = Block(id[w], Written(w) + 1)
         /\ Sum(Copied(Buffer(6), p), Len(p)) = 0 <=> p = Due(w)
<1>1. id[w] \in Uploads
  BY DEF Types
<1>2. offset[w] \in Nat /\ Len(pending[w]) \in Nat /\ Blocks \in Nat
  BY LenProperties, BoundsAssumption DEF Types
<1>3. Written(w) + 1 \in 1..Blocks
  BY <1>2 DEF Written
<1>4. PICK k \in 1..Blocks : k = Written(w) + 1
  BY <1>3
<1>5. Due(w) = DataPacket(id[w], k)
  BY <1>4 DEF Due
<1>6. Due(w) \in Packets /\ DataOf(Due(w)) = Block(id[w], k)
  BY <1>1, <1>5, DataPacketFacts
<1>7. p \in Packets
  BY <1>6, GarbledFacts
<1>8. Sum(Copied(Buffer(6), p), Len(p)) = 0 <=> p = Due(w)
  BY <1>1, <1>5, SumTellsGarbled
<1>9. p \in Seq(Bytes)
  BY <1>7 DEF Packets
<1> QED
  BY <1>1, <1>3, <1>4, <1>6, <1>7, <1>8, <1>9

(* What a write to the open file leaves of the types. *)
LEMMA WriteBackFacts ==
  ASSUME Types, Lengths, NEW w \in Workers, Stage(w), Opened(w),
         content' = [content EXCEPT ![inode[w]] = WriteAt(@, offset[w], pending[w])]
  PROVE  /\ inode[w] \in Uploads
         /\ content' \in [Uploads -> Seq(BlockOrHole)]
         /\ Lengths'
         /\ content'[inode[w]] = WriteAt(content[inode[w]], offset[w], pending[w])
         /\ \A u \in Uploads \ {inode[w]} : content'[u] = content[u]
<1>1. inode[w] \in Uploads /\ content[inode[w]] \in Seq(BlockOrHole)
  BY DEF Types, Stage
<1>2. offset[w] \in Nat /\ pending[w] \in Seq(BlockOrHole)
  BY DEF Types
<1> DEFINE new == WriteAt(content[inode[w]], offset[w], pending[w])
<1>3. /\ new \in Seq(BlockOrHole)
      /\ Len(new) = Longer(Len(content[inode[w]]), offset[w] + Len(pending[w]))
  BY <1>1, <1>2, WriteAtFacts
<1>4. Len(new) <= Blocks
  BY <1>1, <1>3 DEF Lengths, Stage, Written, Longer
<1>5. content' = [content EXCEPT ![inode[w]] = new]
  OBVIOUS
<1> HIDE DEF new
<1>6. /\ content' \in [Uploads -> Seq(BlockOrHole)] /\ content'[inode[w]] = new
      /\ \A u \in Uploads \ {inode[w]} : content'[u] = content[u]
  BY <1>1, <1>3, <1>5 DEF Types
<1>7. Lengths'
  BY <1>4, <1>6 DEF Lengths
<1> QED
  BY <1>1, <1>6, <1>7 DEF new

(* A worker keeps the types, and its own stage. *)
LEMMA OwnStep ==
  ASSUME Typed, NEW w \in Workers, Step(w)
  PROVE  Types' /\ Lengths' /\ Stage(w)'
<1>0. Types /\ Lengths /\ Stage(w) /\ Blocks \in Nat /\ Blocks > 0
  BY BoundsAssumption DEF Typed, Stages
<1>01. <<>> \in Seq(BlockOrHole) /\ Len(<<>>) = 0
  OBVIOUS
<1>02. \A v \in Workers : Len(pending[v]) \in Nat /\ Len(got[v]) \in Nat
  BY <1>0, LenProperties DEF Types
<1>03. offset[w] \in Nat /\ size[w] \in 0..Blocks
  BY <1>0 DEF Types
<1>1. ASSUME Leave(w), content' \in [Uploads -> Seq(BlockOrHole)], Lengths',
             entry' \in {None} \cup Uploads, UNCHANGED <<buff, up, begun, garbled>>
      PROVE  Types' /\ Lengths' /\ Stage(w)'
  <2>1. Types'
    BY <1>0, <1>1, LeaveFacts DEF Types
  <2>2. Stage(w)'
    BY <1>0, <1>01, <1>1, LeaveFacts DEF Stage, Writer, Opened, Writing, Written
  <2> QED
    BY <1>1, <2>1, <2>2
<1>2. UNCHANGED content => content' \in [Uploads -> Seq(BlockOrHole)] /\ Lengths'
  BY <1>0 DEF Types, Lengths
<1>3. CASE WriteAccess(w)
  <2>1. begun + 1 \in Uploads /\ begun + 1 # None /\ begun + 1 \in 0..MaxUploads
    BY <1>0, <1>3, BoundsAssumption DEF WriteAccess, BeginUpload, Types, Uploads, None
  <2>2. Types'
    BY <1>0, <1>3, <2>1 DEF WriteAccess, BeginUpload, Types, Goto, disk, Labels, Writing
  <2>3. Stage(w)'
    BY <1>0, <1>3, <2>1 DEF WriteAccess, BeginUpload, Types, Goto, Stage, At, Writer, Opened,
                            Writing, Written
  <2> QED
    BY <1>2, <1>3, <2>2, <2>3 DEF WriteAccess, BeginUpload, disk
<1>4. CASE WriteOpen(w)
  <2>1. entry' \in Uploads
    BY <1>0, <1>4 DEF WriteOpen, Types, At, Stage, Writer, Writing
  <2>2. content' \in [Uploads -> Seq(BlockOrHole)]
    BY <1>0, <1>01, <1>4, <2>1 DEF WriteOpen, Types
  <2>3. Lengths'
    BY <1>0, <1>01, <1>4, <2>1 DEF WriteOpen, Types, Lengths
  <2>4. Types'
    BY <1>0, <1>4, <2>1, <2>2 DEF WriteOpen, Types, Goto, Labels, Writing
  <2>5. Stage(w)'
    <3>1. /\ pc[w] = "open" /\ pc'[w] = "receive" /\ inode'[w] = entry' /\ entry' # None
          /\ id'[w] = id[w] /\ offset'[w] = offset[w] /\ pending'[w] = pending[w]
          /\ size'[w] = size[w] /\ got'[w] = got[w]
      BY <1>0, <1>4, <2>1, <2>4 DEF WriteOpen, Types, Goto, At, Uploads, None
    <3> QED
      BY <1>0, <1>01, <3>1 DEF Stage, Writer, Opened, Writing, Written
  <2> QED
    BY <2>3, <2>4, <2>5
<1>5. CASE WriteOpenFails(w)
  BY <1>0, <1>1, <1>2, <1>5 DEF WriteOpenFails, disk, Types
<1>6. CASE Receive(w)
  <2>1. PICK p \in {Due(w)} \cup Garbled(Due(w)) : packet' = [packet EXCEPT ![w] = p]
    BY <1>6 DEF Receive
  <2>2. id[w] # None /\ Written(w) < Blocks /\ pc[w] = "receive"
    BY <1>0, <1>6 DEF Receive, At, Stage, Writer, Writing
  <2>3. p \in Seq(Bytes)
    BY <1>0, <2>2, DueFacts
  <2>4. garbled' \in 0..MaxGarbled
    BY <1>0, <1>6, BoundsAssumption DEF Receive, Types
  <2>5. packet' \in [Workers -> Seq(Bytes)] /\ packet'[w] = p
    BY <1>0, <2>1, <2>3 DEF Types
  <2>6. pc' \in [Workers -> Labels] /\ pc'[w] = "clear"
    BY <1>0, <1>6 DEF Types, Receive, Goto, Labels, Writing
  <2>7. Types'
    BY <1>0, <1>6, <2>4, <2>5, <2>6 DEF Receive, Types, disk
  <2>8. Stage(w)'
    <3>1. Due(w)' = Due(w) /\ Written(w)' = Written(w)
      BY <1>6 DEF Receive, Due, Written
    <3>2. id' = id /\ inode' = inode /\ got' = got /\ size' = size
      BY <1>6 DEF Receive
    <3>3. packet'[w] \in {Due(w)'} \cup Garbled(Due(w)')
      BY <2>5, <3>1
    <3> QED
      BY <1>0, <2>2, <2>6, <3>1, <3>2, <3>3 DEF Stage, Writer, Opened, Writing
  <2> QED
    BY <1>2, <1>6, <2>7, <2>8 DEF Receive, disk
<1>7. CASE ClearBuffer(w)
  <2>1. buff' \in [1..7 -> Bytes]
    BY <1>0, <1>7, BufferFacts DEF ClearBuffer, Types
  <2>2. Types'
    BY <1>0, <1>7, <2>1 DEF ClearBuffer, Types, disk, locals, Goto, Labels, Writing
  <2>3. Stage(w)'
    BY <1>0, <1>7 DEF ClearBuffer, Types, disk, locals, Goto, At, Stage, Writer, Opened,
                      Writing, Written, Due
  <2> QED
    BY <1>2, <1>7, <2>2, <2>3 DEF ClearBuffer, disk
<1>8. CASE CopyPacket(w)
  <2>1. buff' \in [1..7 -> Bytes]
    BY <1>0, <1>8, BufferFacts DEF CopyPacket, Types
  <2>2. Types'
    BY <1>0, <1>8, <2>1 DEF CopyPacket, Types, disk, locals, Goto, Labels, Writing
  <2>3. Stage(w)'
    BY <1>0, <1>8 DEF CopyPacket, Types, disk, locals, Goto, At, Stage, Writer, Opened,
                      Writing, Written, Due
  <2> QED
    BY <1>2, <1>8, <2>2, <2>3 DEF CopyPacket, disk
<1>9. CASE SumPacket(w)
  <2>1. id[w] # None /\ inode[w] # None /\ Written(w) < Blocks /\ pc[w] = "sum"
        /\ packet[w] \in {Due(w)} \cup Garbled(Due(w))
    BY <1>0, <1>9 DEF SumPacket, At, Stage, Writer, Opened, Writing
  <2>2. packet[w] \in Packets
    BY <1>0, <2>1, DueFacts
  <2>3. DataOf(packet[w]) \in BlockOrHole
    BY <2>2, DataOfFacts
  <2> DEFINE more == Append(pending[w], DataOf(packet[w]))
  <2>4. more \in Seq(BlockOrHole) /\ Len(more) = Len(pending[w]) + 1
    BY <1>0, <2>3, AppendProperties DEF Types
  <2>5. pending' = pending \/ pending' = [pending EXCEPT ![w] = more]
    BY <1>9 DEF SumPacket
  <2> HIDE DEF more
  <2>6. pending' \in [Workers -> Seq(BlockOrHole)]
    BY <1>0, <2>4, <2>5 DEF Types
  <2>7. buff' \in [1..7 -> Bytes]
    BY <1>0, <1>9, BufferFacts DEF SumPacket, Types
  <2>8. packet' \in [Workers -> Seq(Bytes)]
    BY <1>0, <1>9 DEF SumPacket, Types
  <2>9. pc' \in [Workers -> Labels]
    BY <1>0, <1>9 DEF SumPacket, Types, Goto, Labels, Writing
  <2>10. Types'
    BY <1>0, <1>9, <2>6, <2>7, <2>8, <2>9 DEF SumPacket, Types, disk
  <2>11. id' = id /\ inode' = inode /\ got' = got /\ size' = size /\ offset' = offset
    BY <1>9 DEF SumPacket
  <2>12. \/ pc'[w] = "receive" /\ Written(w)' < Blocks
         \/ pc'[w] = "close" /\ Written(w)' = Blocks
    <3>1. CASE Verified(w)
      <4>1. pending' = [pending EXCEPT ![w] = more]
        BY <1>9, <3>1 DEF SumPacket, more
      <4>2. Len(pending'[w]) = Len(pending[w]) + 1
        BY <1>0, <2>4, <4>1 DEF Types
      <4>3. Written(w)' = Written(w) + 1
        BY <1>02, <1>03, <2>11, <4>2 DEF Written
      <4>4. pc'[w] = IF Written(w) + 1 = Blocks THEN "close" ELSE "receive"
        BY <1>0, <1>9, <3>1 DEF SumPacket, Goto, Types
      <4>5. Written(w) \in Nat
        BY <1>02, <1>03 DEF Written
      <4> QED
        BY <1>0, <2>1, <4>3, <4>4, <4>5
    <3>2. CASE ~Verified(w)
      <4>1. pending' = pending /\ pc'[w] = "receive"
        BY <1>0, <1>9, <3>2 DEF SumPacket, Goto, Types
      <4>2. Written(w)' = Written(w)
        BY <2>11, <4>1 DEF Written
      <4> QED
        BY <2>1, <4>1, <4>2
    <3> QED
      BY <3>1, <3>2
  <2>13. Stage(w)'
    <3>1. Written(w)' \in Nat
      <4>1. offset'[w] \in Nat /\ Len(pending'[w]) \in Nat
        BY <1>03, <2>6, <2>11, LenProperties
      <4> QED
        BY <4>1 DEF Written
    <3>2. Written(w)' <= Blocks /\ Len(got'[w]) <= size'[w]
      BY <1>0, <2>11, <2>12, <3>1 DEF Stage
    <3> QED
      BY <2>1, <2>11, <2>12, <3>2 DEF Stage, Writer, Opened, Writing
  <2> QED
    BY <1>2, <1>9, <2>10, <2>13 DEF SumPacket, disk
<1>10. CASE Flush(w)
  <2>1. pc[w] = "receive" /\ Opened(w)
    BY <1>10 DEF Flush, At, Opened, Writing
  <2>2. content' \in [Uploads -> Seq(BlockOrHole)] /\ Lengths'
    BY <1>0, <1>10, <2>1, WriteBackFacts DEF Flush
  <2>3. offset' \in [Workers -> Nat] /\ offset'[w] = offset[w] + Len(pending[w])
    BY <1>0, <1>02, <1>03, <1>10 DEF Flush, Types
  <2>4. pending' \in [Workers -> Seq(BlockOrHole)] /\ pending'[w] = <<>>
    BY <1>0, <1>01, <1>10 DEF Flush, Types
  <2>5. Types'
    BY <1>0, <1>10, <2>2, <2>3, <2>4 DEF Flush, Types
  <2>6. Written(w)' = Written(w)
    BY <1>01, <1>02, <1>03, <2>3, <2>4 DEF Written
  <2>7. pc' = pc /\ id' = id /\ inode' = inode /\ got' = got /\ size' = size
    BY <1>10 DEF Flush
  <2>8. Stage(w)'
    BY <1>0, <2>1, <2>6, <2>7 DEF Stage, Writer, Opened, Writing
  <2> QED
    BY <2>2, <2>5, <2>8
<1>11. CASE DiskFull(w)
  BY <1>0, <1>1, <1>2, <1>11 DEF DiskFull, Unlink, Types
<1>12. CASE Abandon(w)
  BY <1>0, <1>1, <1>2, <1>12 DEF Abandon, disk, Types
<1>13. CASE Close(w)
  <2>1. Opened(w)
    BY <1>13 DEF Close, At, Opened, Writing
  <2>2. content' \in [Uploads -> Seq(BlockOrHole)] /\ Lengths'
    <3>1. CASE content' = [content EXCEPT ![inode[w]] = WriteAt(@, offset[w], pending[w])]
      BY <1>0, <2>1, <3>1, WriteBackFacts
    <3> QED
      BY <1>2, <1>13, <3>1 DEF Close
  <2> QED
    BY <1>0, <1>1, <1>13, <2>2 DEF Close, Types
<1>14. CASE ReadAccess(w)
  <2>1. Types'
    BY <1>0, <1>14 DEF ReadAccess, Types, disk, locals, Goto, Labels
  <2>2. Stage(w)'
    BY <1>0, <1>14 DEF ReadAccess, Types, disk, locals, Goto, At, Stage, Writer, Opened,
                       Writing, Written
  <2> QED
    BY <1>2, <1>14, <2>1, <2>2 DEF ReadAccess, disk
<1>15. CASE ReadSize(w)
  <2>1. CASE Leave(w)
    BY <1>0, <1>1, <1>2, <1>15, <2>1 DEF ReadSize, disk, Types
  <2>2. CASE entry # None /\ ~Leave(w)
    <3>1. entry \in Uploads /\ Len(content[entry]) \in 0..Blocks
      BY <1>0, <2>2, LenProperties DEF Types, Lengths
    <3>2. Types'
      BY <1>0, <1>15, <2>2, <3>1 DEF ReadSize, Types, disk, Goto, Labels
    <3>3. /\ pc[w] = "size" /\ pc'[w] = "reopen" /\ size'[w] \in 0..Blocks
          /\ inode' = inode /\ offset' = offset /\ pending' = pending /\ got' = got
      BY <1>0, <1>15, <2>2, <3>1 DEF ReadSize, Types, At, Goto
    <3>4. Stage(w)'
      BY <1>0, <1>01, <3>3 DEF Stage, Writer, Opened, Writing, Written
    <3> QED
      BY <1>2, <1>15, <3>2, <3>4 DEF ReadSize, disk
  <2> QED
    BY <1>15, <2>1, <2>2 DEF ReadSize
<1>16. CASE ReadOpen(w)
  <2>1. Types'
    BY <1>0, <1>16 DEF ReadOpen, Types, disk, Goto, Labels
  <2>2. Stage(w)'
    BY <1>0, <1>16 DEF ReadOpen, Types, disk, Goto, At, Stage, Writer, Opened, Writing, Written
  <2> QED
    BY <1>2, <1>16, <2>1, <2>2 DEF ReadOpen, disk
<1>17. CASE ReadBlock(w)
  <2>1. buff' \in [1..7 -> Bytes]
    BY <1>0, <1>17, BufferFacts DEF ReadBlock, Types
  <2>2. inode[w] \in Uploads /\ pc[w] = "read"
    BY <1>0, <1>17 DEF ReadBlock, At, Stage, Types
  <2> DEFINE block == IF Len(got[w]) < Len(content[inode[w]])
                      THEN content[inode[w]][Len(got[w]) + 1] ELSE Hole
             more == Append(got[w], block)
  <2>3. block \in BlockOrHole
    <3>1. content[inode[w]] \in Seq(BlockOrHole) /\ Len(content[inode[w]]) \in Nat
      BY <1>0, <2>2, LenProperties DEF Types
    <3>2. Len(got[w]) < Len(content[inode[w]]) => Len(got[w]) + 1 \in 1..Len(content[inode[w]])
      BY <1>02, <3>1
    <3> QED
      BY <3>1, <3>2, HoleFacts, ElementOfSeq
  <2>4. more \in Seq(BlockOrHole) /\ Len(more) = Len(got[w]) + 1
    BY <1>0, <2>3, AppendProperties DEF Types
  <2>5. IF MoreToSend(w) THEN got' = [got EXCEPT ![w] = more] /\ pc' = pc
        ELSE pc' = [pc EXCEPT ![w] = "sent"] /\ got' = got
    BY <1>17 DEF ReadBlock, Goto
  <2> HIDE DEF more
  <2>6. got' \in [Workers -> Seq(BlockOrHole)] /\ Len(got'[w]) <= size[w]
    <3>1. CASE MoreToSend(w)
      <4>1. got' \in [Workers -> Seq(BlockOrHole)] /\ got'[w] = more
        BY <1>0, <2>4, <2>5, <3>1 DEF Types
      <4>2. Len(got[w]) < size[w]
        BY <3>1 DEF MoreToSend
      <4> QED
        BY <1>02, <1>03, <2>4, <4>1, <4>2
    <3>2. CASE ~MoreToSend(w)
      BY <1>0, <2>5, <3>2 DEF Types, Stage
    <3> QED
      BY <3>1, <3>2
  <2>7. pc' \in [Workers -> Labels] /\ pc'[w] \in {"read", "sent"}
    BY <1>0, <2>2, <2>5 DEF Types, Labels
  <2>8. id' = id /\ inode' = inode /\ offset' = offset /\ pending' = pending /\ size' = size
    BY <1>17 DEF ReadBlock
  <2>9. Types'
    BY <1>0, <1>17, <2>1, <2>6, <2>7 DEF ReadBlock, Types, disk
  <2>10. Stage(w)'
    BY <1>0, <2>2, <2>6, <2>7, <2>8 DEF Stage, Writer, Opened, Writing, Written
  <2> QED
    BY <1>2, <1>17, <2>9, <2>10 DEF ReadBlock, disk
<1>18. CASE ReadEnd(w)
  BY <1>0, <1>1, <1>2, <1>18 DEF ReadEnd, disk, Types
<1> QED
  BY <1>3, <1>4, <1>5, <1>6, <1>7, <1>8, <1>9, <1>10, <1>11, <1>12, <1>13, <1>14, <1>15,
     <1>16, <1>17, <1>18 DEF Step

-----------------------------------------------------------------------------
(* The buffer: what it holds for a worker that nobody disturbed. *)
Sums ==
  \A w \in Workers \ raced :
    /\ pc[w] = "copy" => buff = Buffer(6)
    /\ pc[w] = "sum"  => buff = Copied(Buffer(6), packet[w])

(* Who writes to the buffer marks everybody else who is using it. *)
LEMMA BufferShared ==
  ASSUME Types, NEW w \in Workers, Step(w), NEW v \in Workers \ {w}, v \notin raced',
         pc[v] \in {"copy", "sum"}
  PROVE  v \notin raced /\ buff' = buff
<1>1. CASE WriteAccess(w)
  BY <1>1 DEF WriteAccess, BeginUpload
<1>2. CASE WriteOpen(w) \/ WriteOpenFails(w) \/ Flush(w) \/ Abandon(w)
           \/ ReadSize(w) \/ ReadOpen(w) \/ ReadEnd(w)
  BY <1>2 DEF WriteOpen, WriteOpenFails, Flush, Abandon, ReadSize, ReadOpen, ReadEnd, ghosts
<1>3. CASE DiskFull(w) \/ Close(w) \/ ReadAccess(w)
  BY <1>3 DEF DiskFull, Close, ReadAccess
<1>4. CASE Receive(w)
  BY <1>4 DEF Receive
<1>5. CASE ClearBuffer(w) \/ CopyPacket(w) \/ ReadBlock(w)
  BY <1>5 DEF ClearBuffer, CopyPacket, ReadBlock, Disturb
<1>6. CASE SumPacket(w)
  BY <1>6 DEF SumPacket
<1> QED
  BY <1>1, <1>2, <1>3, <1>4, <1>5, <1>6 DEF Step

(* Where a worker is going to: the steps that lead to each label. *)
LEMMA Arrivals ==
  ASSUME Types, NEW w \in Workers, Step(w)
  PROVE  /\ pc'[w] = "open" => WriteAccess(w)
         /\ pc'[w] = "clear" => Receive(w)
         /\ pc'[w] = "copy" => ClearBuffer(w)
         /\ pc'[w] = "sum" => CopyPacket(w)
         /\ pc'[w] = "close" => SumPacket(w)
         /\ pc'[w] = "receive" => WriteOpen(w) \/ SumPacket(w) \/ Flush(w)
         /\ pc'[w] = "reopen" => ReadSize(w) \/ (ReadOpen(w) /\ pc[w] = "reopen" /\ id'[w] = id[w])
         /\ pc'[w] = "read" => ReadOpen(w) \/ ReadBlock(w)
         /\ pc'[w] = "sent" => ReadBlock(w)
<1>1. CASE Leave(w)
  BY <1>1, LeaveFacts
<1>2. CASE WriteAccess(w)
  BY <1>2 DEF Types, WriteAccess, BeginUpload, Goto
<1>3. CASE WriteOpen(w)
  BY <1>3 DEF Types, WriteOpen, Goto
<1>4. CASE Receive(w)
  BY <1>4 DEF Types, Receive, Goto
<1>5. CASE ClearBuffer(w)
  BY <1>5 DEF Types, ClearBuffer, Goto
<1>6. CASE CopyPacket(w)
  BY <1>6 DEF Types, CopyPacket, Goto
<1>7. CASE SumPacket(w)
  <2>1. pc'[w] \in {"close", "receive"}
    BY <1>7 DEF Types, SumPacket, Goto
  <2> QED
    BY <1>7, <2>1
<1>8. CASE Flush(w)
  BY <1>8 DEF Types, Flush, At
<1>9. CASE ReadAccess(w)
  BY <1>9 DEF Types, ReadAccess, Goto
<1>10. CASE ReadSize(w) /\ ~Leave(w)
  BY <1>10 DEF Types, ReadSize, Goto
<1>11. CASE ReadOpen(w)
  <2>1. pc'[w] \in {"reopen", "read"}
    BY <1>11 DEF Types, ReadOpen, Goto, At
  <2>2. pc[w] = "reopen" /\ id' = id
    BY <1>11 DEF ReadOpen, At
  <2> QED
    BY <1>11, <2>1, <2>2
<1>12. CASE ReadBlock(w)
  BY <1>12 DEF Types, ReadBlock, Goto, At
<1> QED
  BY <1>1, <1>2, <1>3, <1>4, <1>5, <1>6, <1>7, <1>8, <1>9, <1>10, <1>11, <1>12
     DEF Step, WriteOpenFails, DiskFull, Abandon, Close, ReadEnd

(* Who moves v to another label. *)
LEMMA OwnLabel ==
  ASSUME Types, NEW w \in Workers, Step(w), NEW v \in Workers, pc'[v] # pc[v]
  PROVE  v = w
BY OthersKept DEF Kept

(* The buffer stays that of each worker that is not disturbed. *)
LEMMA SumsStep ==
  ASSUME Typed, Sums, NEW w \in Workers, Step(w)
  PROVE  Sums'
<1>0. Types /\ buff \in [1..7 -> Bytes]
  BY DEF Typed, Types
<1>1. ASSUME NEW v \in Workers, v # w, v \notin raced'
      PROVE  /\ pc'[v] = "copy" => buff' = Buffer(6)
             /\ pc'[v] = "sum"  => buff' = Copied(Buffer(6), packet'[v])
  <2>1. Kept(v)
    BY <1>0, <1>1, OthersKept
  <2>2. pc[v] \in {"copy", "sum"} => v \notin raced /\ buff' = buff
    BY <1>0, <1>1, BufferShared
  <2> QED
    BY <2>1, <2>2 DEF Sums, Kept
<1>2. ASSUME w \notin raced', pc'[w] = "copy"
      PROVE  buff' = Buffer(6)
  <2>1. ClearBuffer(w)
    BY <1>0, <1>2, Arrivals
  <2> QED
    BY <1>0, <2>1, BufferFacts DEF ClearBuffer
<1>3. ASSUME w \notin raced', pc'[w] = "sum"
      PROVE  buff' = Copied(Buffer(6), packet'[w])
  <2>1. CopyPacket(w)
    BY <1>0, <1>3, Arrivals
  <2>2. w \notin raced /\ pc[w] = "copy" /\ packet' = packet
    BY <1>3, <2>1 DEF CopyPacket, Disturb, At, locals
  <2>3. buff = Buffer(6)
    BY <2>2 DEF Sums
  <2> QED
    BY <2>1, <2>2, <2>3 DEF CopyPacket
<1> QED
  BY <1>1, <1>2, <1>3 DEF Sums

(* RemovePath and a step that changes nothing leave the workers alone. *)
LEMMA RestStep ==
  ASSUME RemovePath \/ UNCHANGED vars
  PROVE  /\ UNCHANGED <<content, pc, id, inode, offset, pending, packet, size, got>>
         /\ UNCHANGED <<buff, begun, garbled, acked, overlapped, raced>>
         /\ entry' \in {None, entry} /\ (up' = up)
         /\ \A v : v \in Workers => Kept(v)
BY DEF RemovePath, Unlink, locals, vars, Kept

(* Every step keeps types, stages and the buffer. *)
LEMMA TypedStep ==
  ASSUME Typed, Sums, [Next]_vars
  PROVE  Typed' /\ Sums'
<1>1. CASE RemovePath \/ UNCHANGED vars
  <2>1. Types' /\ Lengths' /\ Sums'
    BY <1>1, RestStep DEF Typed, Types, Lengths, Sums
  <2>2. Stages'
    BY <1>1, RestStep, StageKept DEF Typed, Stages
  <2> QED
    BY <2>1, <2>2 DEF Typed
<1>2. ASSUME NEW w \in Workers, Step(w)
      PROVE  Typed' /\ Sums'
  <2>1. Types' /\ Lengths' /\ Stage(w)'
    BY <1>2, OwnStep
  <2>2. \A v \in Workers \ {w} : Stage(v)'
    BY <1>2, OthersKept, StageKept DEF Typed, Stages
  <2>3. Sums'
    BY <1>2, SumsStep
  <2> QED
    BY <2>1, <2>2, <2>3 DEF Typed, Stages
<1> QED
  BY <1>1, <1>2 DEF Next, Step

-----------------------------------------------------------------------------
(* Uploads on the path. *)

Clean(u) == u \notin overlapped \cup spoilt
Prefix(blocks, u) == \A k \in 1..Len(blocks) : blocks[k] = Block(u, k)

(* An upload that has not begun has left no trace. *)
Fresh ==
  /\ entry <= begun
  /\ \A w \in Workers : id[w] <= begun /\ inode[w] <= begun
  /\ acked \subseteq 1..begun
  /\ \A u \in Uploads : u > begun => content[u] = <<>>

(* Two uploads at once both know it, and no third is on the path. *)
Alone(w) ==
  /\ \A v \in Workers \ {w} : Writer(w) /\ Writer(v) => id[v] # id[w] /\ id[w] \in overlapped
  /\ Writer(w) => entry \in {None, id[w]} \cup overlapped

(* One that has not opened its file yet finds the path free, or has        *)
(* company, and its inode is nobody's.                                     *)
Opening(w) ==
  pc[w] = "open" =>
    /\ entry # id[w] /\ content[id[w]] = <<>> /\ id[w] \notin acked
    /\ \A v \in Workers : inode[v] # id[w] /\ (v # w => id[v] # id[w])
    /\ Clean(id[w]) => entry = None

(* One that has opened it writes to its own inode, the one on the path,    *)
(* what was sent to it, and is acknowledged with the last block; or it has *)
(* company.                                                                *)
Filling(w) ==
  Opened(w) =>
    /\ inode[w] = id[w] \/ inode[w] \in overlapped
    /\ pc[w] # "close" => id[w] \notin acked
    /\ Clean(id[w]) =>
         /\ entry = id[w] /\ inode[w] = id[w]
         /\ offset[w] = Len(content[id[w]])
         /\ \A k \in 1..Len(pending[w]) : pending[w][k] = Block(id[w], offset[w] + k)
         /\ pc[w] = "close" => Written(w) = Blocks

(* What an upload left on the disk. *)
Left(u) ==
  Clean(u) => /\ Prefix(content[u], u)
              /\ Settled(u) => entry = u /\ Len(content[u]) = Blocks

(* A download that found a file has no more to send than the file holds,   *)
(* and opens that file if the path was not unlinked meanwhile.             *)
Reading(w) ==
  /\ pc[w] \in {"reopen", "read", "sent"} =>
       id[w] # None /\ (Clean(id[w]) => size[w] <= Len(content[id[w]]))
  /\ w \notin moved =>
       /\ pc[w] = "reopen" => entry = id[w]
       /\ pc[w] = "read" => inode[w] = id[w]
       /\ pc[w] \in {"read", "sent"} /\ Clean(id[w]) => Prefix(got[w], id[w])
  /\ pc[w] = "sent" => Len(got[w]) = size[w]

Paths ==
  /\ Fresh
  /\ \A w \in Workers : Alone(w) /\ Opening(w) /\ Filling(w) /\ Reading(w)
  /\ \A u \in Uploads : Left(u)

IInv == Typed /\ Sums /\ Paths

(* What was disturbed stays so. *)
LEMMA Ghosts ==
  ASSUME [Next]_vars
  PROVE  /\ overlapped \subseteq overlapped' /\ spoilt \subseteq spoilt'
         /\ \A u : Clean(u)' => Clean(u)
<1>1. overlapped \subseteq overlapped' /\ spoilt \subseteq spoilt'
  <2>1. CASE RemovePath \/ UNCHANGED vars
    BY <2>1 DEF RemovePath, vars
  <2>2. ASSUME NEW w \in Workers, Step(w)
        PROVE  overlapped \subseteq overlapped' /\ spoilt \subseteq spoilt'
    BY <2>2 DEF Step, WriteAccess, BeginUpload, WriteOpen, WriteOpenFails, Receive,
         ClearBuffer, CopyPacket, SumPacket, Flush, DiskFull, Abandon, Close, ReadAccess,
         ReadSize, ReadOpen, ReadBlock, ReadEnd, ghosts
  <2> QED
    BY <2>1, <2>2 DEF Next, Step
<1>2. ASSUME NEW u, Clean(u)' PROVE Clean(u)
  BY <1>1, <1>2 DEF Clean
<1> QED
  BY <1>1, <1>2

(* Who writes now wrote before, or has just been let in. *)
LEMMA WriterBefore ==
  ASSUME Types, NEW x \in Workers, Step(x), NEW v \in Workers, Writer(v)'
  PROVE  (Writer(v) /\ id'[v] = id[v]) \/ (v = x /\ WriteAccess(x))
<1>1. CASE v # x
  <2>1. Kept(v)
    BY <1>1, OthersKept
  <2> QED
    BY <2>1 DEF Writer, Kept
<1>2. CASE v = x
  <2>1. pc'[x] \in Writing
    BY <1>2 DEF Writer
  <2>2. \/ WriteAccess(x)
        \/ WriteOpen(x) \/ Receive(x) \/ ClearBuffer(x) \/ CopyPacket(x) \/ SumPacket(x)
        \/ Flush(x)
    BY <2>1, Arrivals DEF Writing
  <2>3. CASE \/ WriteOpen(x) \/ Receive(x) \/ ClearBuffer(x) \/ CopyPacket(x) \/ SumPacket(x)
             \/ Flush(x)
    <3>1. id' = id /\ pc[x] \in Writing
      BY <2>3 DEF WriteOpen, Receive, ClearBuffer, CopyPacket, SumPacket, Flush, At, Writing,
                  locals
    <3> QED
      BY <1>2, <3>1 DEF Writer
  <2> QED
    BY <1>2, <2>2, <2>3
<1> QED
  BY <1>1, <1>2

(* Who has its file open had it open before, or opens it. *)
LEMMA OpenedBefore ==
  ASSUME Types, NEW x \in Workers, Step(x), NEW v \in Workers, Opened(v)'
  PROVE  \/ /\ Opened(v) /\ id'[v] = id[v] /\ inode'[v] = inode[v]
            /\ pc'[v] # "close" => pc[v] # "close"
         \/ v = x /\ WriteOpen(x)
<1>1. CASE v # x
  <2>1. Kept(v)
    BY <1>1, OthersKept
  <2> QED
    BY <2>1 DEF Opened, Kept
<1>2. CASE v = x
  <2>1. pc'[x] \in Writing \ {"open"}
    BY <1>2 DEF Opened
  <2>2. WriteOpen(x) \/ Receive(x) \/ ClearBuffer(x) \/ CopyPacket(x) \/ SumPacket(x) \/ Flush(x)
    BY <2>1, Arrivals DEF Writing
  <2>3. CASE Receive(x) \/ ClearBuffer(x) \/ CopyPacket(x) \/ SumPacket(x) \/ Flush(x)
    <3>1. id' = id /\ inode' = inode /\ pc[x] \in Writing \ {"open", "close"}
      BY <2>3 DEF Receive, ClearBuffer, CopyPacket, SumPacket, Flush, At, Writing, locals
    <3> QED
      BY <1>2, <3>1 DEF Opened
  <2> QED
    BY <1>2, <2>2, <2>3
<1> QED
  BY <1>1, <1>2

(* The path loses what it leads to, or leads to the upload that opens it.  *)
LEMMA EntryStep ==
  ASSUME NEW x \in Workers, Step(x)
  PROVE  \/ entry' = entry
         \/ DiskFull(x) /\ entry' = None
         \/ WriteOpen(x) /\ entry = None /\ entry' = id[x]
<1>1. CASE WriteOpen(x)
  BY <1>1 DEF WriteOpen
<1>2. CASE DiskFull(x)
  BY <1>2 DEF DiskFull, Unlink
<1>3. CASE ~WriteOpen(x) /\ ~DiskFull(x)
  BY <1>3 DEF Step, WriteAccess, BeginUpload, WriteOpenFails, Receive, ClearBuffer,
     CopyPacket, SumPacket, Flush, Abandon, Close, ReadAccess, ReadSize, ReadOpen, ReadBlock,
     ReadEnd, disk
<1> QED
  BY <1>1, <1>2, <1>3

(* A file that nobody disturbs keeps its path, until its own upload finds  *)
(* the disk full.                                                          *)
LEMMA EntryKept ==
  ASSUME IInv, [Next]_vars, NEW u \in Uploads, Clean(u)', entry = u, entry' # u
  PROVE  \E x \in Workers : DiskFull(x) /\ id[x] = u
<1>0. Clean(u) /\ u # None
  BY Ghosts DEF Uploads, None
<1>1. CASE RemovePath
  BY <1>1 DEF RemovePath, Clean
<1>2. CASE UNCHANGED vars
  BY <1>2 DEF vars
<1>3. ASSUME NEW x \in Workers, Step(x)
      PROVE  \E y \in Workers : DiskFull(y) /\ id[y] = u
  <2>1. DiskFull(x)
    BY <1>0, <1>3, EntryStep
  <2>2. Writer(x) /\ Alone(x)
    BY <2>1 DEF DiskFull, At, Writer, Writing, IInv, Paths
  <2>3. id[x] = u
    BY <1>0, <2>2 DEF Alone, Clean
  <2> QED
    BY <2>1, <2>3
<1> QED
  BY <1>1, <1>2, <1>3 DEF Next, Step

(* What nobody disturbs is written to by its own upload alone. *)
LEMMA ContentKept ==
  ASSUME IInv, [Next]_vars, NEW u \in Uploads, Clean(u)', content'[u] # content[u]
  PROVE  \E x \in Workers : /\ Step(x) /\ (Flush(x) \/ Close(x))
                            /\ id[x] = u /\ inode[x] = u /\ Opened(x)
                            /\ content'[u] = WriteAt(content[u], offset[x], pending[x])
<1>0. Clean(u) /\ u # None /\ Types
  BY Ghosts DEF Uploads, None, IInv, Typed
<1>1. CASE RemovePath \/ UNCHANGED vars
  BY <1>1, RestStep
<1>2. ASSUME NEW x \in Workers, Step(x)
      PROVE  \E y \in Workers : /\ Step(y) /\ (Flush(y) \/ Close(y))
                                /\ id[y] = u /\ inode[y] = u /\ Opened(y)
                                /\ content'[u] = WriteAt(content[u], offset[y], pending[y])
  <2>0. Alone(x) /\ Opening(x) /\ Filling(x)
    BY DEF IInv, Paths
  <2>1. CASE WriteOpen(x)
    <3>1. pc[x] = "open" /\ Writer(x) /\ id[x] \in Uploads /\ entry \in {None} \cup Uploads
      BY <1>0, <2>1 DEF WriteOpen, At, Writer, Writing, IInv, Typed, Stages, Stage, Types
    <3>2. entry' \in Uploads /\ content' = [content EXCEPT ![entry'] = <<>>]
      BY <2>1, <3>1 DEF WriteOpen
    <3>3. u = entry'
      BY <1>0, <3>2 DEF Types
    <3>4. content'[u] = <<>>
      BY <1>0, <3>2, <3>3 DEF Types
    <3>5. CASE entry = None
      <4>1. u = id[x]
        BY <2>1, <3>3, <3>5 DEF WriteOpen
      <4>2. content[u] = <<>>
        BY <2>0, <3>1, <4>1 DEF Opening
      <4> QED
        BY <3>4, <4>2
    <3>6. CASE entry # None
      <4>1. entry = u
        BY <2>1, <3>3, <3>6 DEF WriteOpen
      <4>2. entry # id[x] /\ entry \in {None, id[x]} \cup overlapped
        BY <2>0, <3>1 DEF Opening, Alone
      <4> QED
        BY <1>0, <4>1, <4>2 DEF Clean
    <3> QED
      BY <3>5, <3>6
  <2>2. CASE Flush(x) \/ Close(x)
    <3>1. Opened(x)
      BY <2>2 DEF Flush, Close, At, Opened, Writing
    <3>2. content' = [content EXCEPT ![inode[x]] = WriteAt(@, offset[x], pending[x])]
      BY <2>2 DEF Flush, Close
    <3>3. u = inode[x] /\ content'[u] = WriteAt(content[u], offset[x], pending[x])
      BY <1>0, <3>2 DEF Types
    <3>4. id[x] = u
      BY <1>0, <2>0, <3>1, <3>3 DEF Filling, Clean
    <3> QED
      BY <1>2, <2>2, <3>1, <3>3, <3>4
  <2>3. CASE ~WriteOpen(x) /\ ~Flush(x) /\ ~Close(x)
    <3>1. content' = content
      BY <1>2, <2>3 DEF Step, WriteAccess, BeginUpload, WriteOpenFails, Receive, ClearBuffer,
         CopyPacket, SumPacket, DiskFull, Abandon, ReadAccess, ReadSize, ReadOpen,
         ReadBlock, ReadEnd, disk
    <3> QED
      BY <3>1
  <2> QED
    BY <2>1, <2>2, <2>3
<1> QED
  BY <1>1, <1>2 DEF Next, Step

(* What an upload alone flushes makes its file longer by what was sent.    *)
LEMMA Wrote ==
  ASSUME IInv, NEW x \in Workers, Opened(x), Clean(id[x])
  PROVE  LET new == WriteAt(content[id[x]], offset[x], pending[x])
         IN  Len(new) = Written(x) /\ Len(content[id[x]]) <= Len(new) /\ Prefix(new, id[x])
<1>0. Types /\ id[x] \in Uploads /\ Filling(x) /\ Left(id[x])
  BY DEF IInv, Typed, Types, Stages, Stage, Paths, Opened, Writer
<1> DEFINE old == content[id[x]]
           add == pending[x]
           new == WriteAt(old, offset[x], add)
<1>1. old \in Seq(BlockOrHole) /\ add \in Seq(BlockOrHole) /\ offset[x] \in Nat
  BY <1>0 DEF Types
<1>2. Len(old) \in Nat /\ Len(add) \in Nat
  BY <1>1, LenProperties
<1>3. /\ offset[x] = Len(old)
      /\ \A k \in 1..Len(add) : add[k] = Block(id[x], offset[x] + k)
      /\ \A k \in 1..Len(old) : old[k] = Block(id[x], k)
  BY <1>0 DEF Filling, Left, Prefix
<1>4. /\ Len(new) = Longer(Len(old), offset[x] + Len(add))
      /\ \A k \in 1..Longer(Len(old), offset[x] + Len(add)) :
           new[k] = IF k \in offset[x] + 1..offset[x] + Len(add) THEN add[k - offset[x]]
                    ELSE IF k <= Len(old) THEN old[k] ELSE Hole
  BY <1>1, WriteAtFacts
<1>5. Written(x) = offset[x] + Len(add)
  BY DEF Written
<1> HIDE DEF old, add, new
<1>6. Longer(Len(old), offset[x] + Len(add)) = Written(x) /\ Len(old) <= Written(x)
      /\ Written(x) \in Nat
  BY <1>2, <1>3, <1>5 DEF Longer
<1>7. Len(new) = Written(x)
  BY <1>4, <1>6
<1>8. ASSUME NEW k \in 1..Len(new) PROVE new[k] = Block(id[x], k)
  <2>1. k \in 1..Written(x) /\ k \in 1..Longer(Len(old), offset[x] + Len(add))
    BY <1>6, <1>7
  <2>2. CASE k <= offset[x]
    <3>1. k \notin offset[x] + 1..offset[x] + Len(add) /\ k \in 1..Len(old) /\ k <= Len(old)
      BY <1>1, <1>2, <1>3, <2>1, <2>2
    <3> QED
      BY <1>3, <1>4, <2>1, <3>1
  <2>3. CASE k > offset[x]
    <3>1. k \in offset[x] + 1..offset[x] + Len(add) /\ k - offset[x] \in 1..Len(add)
          /\ offset[x] + (k - offset[x]) = k
      BY <1>1, <1>2, <1>5, <1>6, <2>1, <2>3
    <3>2. new[k] = add[k - offset[x]]
      BY <1>4, <2>1, <3>1
    <3> QED
      BY <1>3, <3>1, <3>2
  <2> QED
    BY <1>1, <2>1, <2>2, <2>3
<1> QED
  BY <1>6, <1>7, <1>8 DEF Prefix, old, add, new

(* A file that nobody disturbs only grows, by what its client sent.        *)
LEMMA ContentGrows ==
  ASSUME IInv, [Next]_vars, NEW u \in Uploads, Clean(u)'
  PROVE  Len(content[u]) <= Len(content'[u]) /\ Prefix(content'[u], u)
<1>1. Clean(u) /\ Types /\ Left(u)
  BY Ghosts DEF IInv, Typed, Paths
<1>2. CASE content'[u] = content[u]
  <2>1. Len(content[u]) \in Nat
    BY <1>1, LenProperties DEF Types
  <2> QED
    BY <1>1, <1>2, <2>1 DEF Left
<1>3. CASE content'[u] # content[u]
  BY <1>1, <1>3, ContentKept, Wrote
<1> QED
  BY <1>2, <1>3

-----------------------------------------------------------------------------
(* Each part of the invariant survives each step. *)

(* Who is acknowledged: with the last block, and only then. *)
LEMMA AckedStep ==
  ASSUME Types, [Next]_vars, NEW u, u \in acked', u \notin acked
  PROVE  \E x \in Workers : SumPacket(x) /\ id[x] = u /\ id'[x] = u /\ pc[x] = "sum"
                            /\ pc'[x] = "close"
<1>1. CASE RemovePath \/ UNCHANGED vars
  BY <1>1 DEF RemovePath, vars
<1>2. ASSUME NEW x \in Workers, Step(x)
      PROVE  SumPacket(x) /\ id[x] = u /\ id'[x] = u /\ pc[x] = "sum" /\ pc'[x] = "close"
  <2>1. SumPacket(x)
    BY <1>2 DEF Step, WriteAccess, BeginUpload, WriteOpen, WriteOpenFails, Receive,
         ClearBuffer, CopyPacket, Flush, DiskFull, Abandon, Close, ReadAccess,
         ReadSize, ReadOpen, ReadBlock, ReadEnd, ghosts
  <2>2. Written(x) + 1 = Blocks /\ u = id[x] /\ Verified(x) /\ id' = id /\ pc[x] = "sum"
    BY <2>1 DEF SumPacket, At
  <2>3. pc'[x] = "close"
    BY <2>1, <2>2 DEF SumPacket, Goto, Types
  <2> QED
    BY <2>1, <2>2, <2>3
<1> QED
  BY <1>1, <1>2 DEF Next, Step

(* What has not begun leaves no trace. *)
LEMMA FreshStep ==
  ASSUME IInv, [Next]_vars
  PROVE  Fresh'
<1>0. Types /\ Stages /\ Fresh
  BY DEF IInv, Typed, Paths
<1>01. begun \in Nat /\ entry \in Nat /\ \A w \in Workers : id[w] \in Nat /\ inode[w] \in Nat
  <2>1. \A u \in {None} \cup Uploads : u \in Nat
    BY DEF Uploads, None
  <2>2. begun \in 0..MaxUploads
    BY <1>0 DEF Types
  <2>3. begun \in Nat
    BY <2>2
  <2> QED
    BY <1>0, <2>1, <2>3 DEF Types
<1>1. CASE RemovePath \/ UNCHANGED vars
  <2>1. entry' <= begun
    BY <1>0, <1>01, <1>1, RestStep DEF Fresh, None
  <2>2. begun' = begun /\ id' = id /\ inode' = inode /\ acked' = acked /\ content' = content
    BY <1>1, RestStep
  <2> QED
    BY <1>0, <2>1, <2>2 DEF Fresh
<1>2. ASSUME NEW x \in Workers, Step(x)
      PROVE  Fresh'
  <2>1. begun' = begun \/ (begun' = begun + 1 /\ WriteAccess(x))
    BY <1>2 DEF Step, WriteAccess, BeginUpload, WriteOpen, WriteOpenFails, Receive,
         ClearBuffer, CopyPacket, SumPacket, Flush, DiskFull, Abandon, Close, ReadAccess,
         ReadSize, ReadOpen, ReadBlock, ReadEnd
  <2>2. begun' \in Nat /\ begun <= begun'
    BY <1>01, <2>1
  <2>3. entry' <= begun
    <3>1. WriteOpen(x) => id[x] <= begun
      BY <1>0 DEF Fresh
    <3> QED
      BY <1>0, <1>01, <1>2, <3>1, EntryStep DEF Fresh, None
  <2>4. ASSUME NEW v \in Workers
        PROVE  id'[v] <= begun' /\ inode'[v] <= begun'
    <3>1. CASE v # x
      <4>1. Kept(v)
        BY <1>0, <1>2, <3>1, OthersKept
      <4> QED
        BY <1>0, <1>01, <2>2, <4>1 DEF Kept, Fresh
    <3>2. CASE Leave(x) /\ v = x
      BY <1>0, <1>01, <2>2, <3>2, LeaveFacts DEF None
    <3>3. CASE v = x /\ ~Leave(x)
      <4>1. id'[x] \in {id[x], entry} \/ (WriteAccess(x) /\ id'[x] = begun')
        BY <1>0, <1>2, <3>3 DEF Step, WriteAccess, BeginUpload, WriteOpen, WriteOpenFails,
           Receive, ClearBuffer, CopyPacket, SumPacket, Flush, DiskFull, Abandon, Close,
           ReadAccess, ReadSize, ReadOpen, ReadBlock, ReadEnd, locals, Types
      <4>2. inode'[x] \in {inode[x], entry, entry'}
        BY <1>0, <1>2, <3>3 DEF Step, WriteAccess, BeginUpload, WriteOpen, WriteOpenFails,
           Receive, ClearBuffer, CopyPacket, SumPacket, Flush, DiskFull, Abandon, Close,
           ReadAccess, ReadSize, ReadOpen, ReadBlock, ReadEnd, locals, Types
      <4>3. entry' \in Nat
        BY <1>01, <1>2, EntryStep DEF None
      <4> QED
        BY <1>0, <1>01, <2>2, <2>3, <3>3, <4>1, <4>2, <4>3 DEF Fresh
    <3> QED
      BY <3>1, <3>2, <3>3
  <2>5. acked' \subseteq 1..begun'
    <3>1. ASSUME NEW u \in acked', u \notin acked PROVE u \in 1..begun'
      <4>1. PICK y \in Workers : id[y] = u /\ pc[y] = "sum"
        BY <1>0, <3>1, AckedStep
      <4>2. id[y] # None /\ id[y] <= begun
        BY <1>0, <4>1 DEF Stages, Stage, Writer, Writing, Fresh
      <4> QED
        BY <1>01, <2>2, <4>1, <4>2 DEF None
    <3>2. ASSUME NEW u \in acked PROVE u \in 1..begun'
      <4>1. u \in 1..begun
        BY <1>0 DEF Fresh
      <4> QED
        BY <1>01, <2>2, <4>1
    <3> QED
      BY <3>1, <3>2
  <2>6. ASSUME NEW u \in Uploads, u > begun'
        PROVE  content'[u] = <<>>
    <3>1. u > begun /\ u \in Nat
      BY <1>01, <2>2, <2>6 DEF Uploads
    <3>2. content[u] = <<>>
      BY <1>0, <3>1 DEF Fresh
    <3>3. CASE WriteOpen(x)
      <4>1. entry' \in Nat /\ entry' # u
        BY <1>01, <1>2, <2>3, <3>1, EntryStep DEF None
      <4>2. content' = [content EXCEPT ![entry'] = <<>>]
        BY <3>3 DEF WriteOpen
      <4> QED
        BY <1>0, <3>2, <4>1, <4>2 DEF Types
    <3>4. CASE Flush(x) \/ Close(x)
      <4>1. inode[x] # u
        BY <1>0, <1>01, <3>1 DEF Fresh
      <4> QED
        BY <1>0, <3>2, <3>4, <4>1 DEF Flush, Close, Types
    <3>5. CASE ~WriteOpen(x) /\ ~Flush(x) /\ ~Close(x)
      <4>1. content' = content
        BY <1>2, <3>5 DEF Step, WriteAccess, BeginUpload, WriteOpenFails, Receive, ClearBuffer,
           CopyPacket, SumPacket, DiskFull, Abandon, ReadAccess, ReadSize, ReadOpen,
           ReadBlock, ReadEnd, disk
      <4> QED
        BY <3>2, <4>1
    <3> QED
      BY <3>3, <3>4, <3>5
  <2>7. entry' <= begun'
    BY <1>01, <1>2, <2>2, <2>3, EntryStep DEF None
  <2> QED
    BY <2>4, <2>5, <2>6, <2>7 DEF Fresh
<1> QED
  BY <1>1, <1>2 DEF Next, Step

(* An upload is let in onto a path that leads nowhere, and marks those     *)
(* that are in progress, and itself if there are any.                      *)
LEMMA LetIn ==
  ASSUME IInv, NEW x \in Workers, WriteAccess(x)
  PROVE  /\ entry = None /\ entry' = None /\ content' = content /\ acked' = acked
         /\ inode' = inode /\ pc' = [pc EXCEPT ![x] = "open"] /\ pc[x] = "idle" /\ ~Writer(x)
         /\ id' = [id EXCEPT ![x] = begun + 1] /\ id'[x] = begun + 1 /\ pc'[x] = "open"
         /\ begun + 1 \in Uploads
         /\ \A v \in Workers : id[v] # begun + 1 /\ inode[v] # begun + 1
         /\ begun + 1 \notin acked /\ content[begun + 1] = <<>>
         /\ \A v \in Workers : Writer(v) => id[v] \in overlapped' /\ begun + 1 \in overlapped'
<1>0. Types /\ Fresh
  BY DEF IInv, Typed, Paths
<1>1. begun \in Nat /\ begun < MaxUploads /\ MaxUploads \in Nat
  BY <1>0, BoundsAssumption DEF Types, WriteAccess, BeginUpload
<1>2. begun + 1 \in Uploads /\ begun + 1 > begun
  BY <1>1 DEF Uploads
<1>3. \A v \in Workers : id[v] # begun + 1 /\ inode[v] # begun + 1
  BY <1>0, <1>1 DEF Fresh
<1>4. begun + 1 \notin acked /\ content[begun + 1] = <<>>
  BY <1>0, <1>1, <1>2 DEF Fresh
<1>5. ASSUME NEW v \in Workers, Writer(v)
      PROVE  id[v] \in overlapped' /\ begun + 1 \in overlapped'
  <2>1. id[v] \in InProgress
    BY <1>5 DEF Writer, InProgress
  <2> QED
    BY <2>1 DEF WriteAccess, BeginUpload
<1>6. id'[x] = begun + 1 /\ pc'[x] = "open"
  BY <1>0 DEF WriteAccess, BeginUpload, Goto, Types
<1> QED
  BY <1>2, <1>3, <1>4, <1>5, <1>6 DEF WriteAccess, BeginUpload, Goto, disk, At, Writer, Writing

(* Who is let in while others are in progress marks them and itself. *)
LEMMA AloneStep ==
  ASSUME IInv, [Next]_vars, NEW w \in Workers
  PROVE  Alone(w)'
<1>0. Types /\ \A v \in Workers : Alone(v)
  BY DEF IInv, Typed, Paths
<1>00. overlapped \subseteq overlapped'
  BY Ghosts
<1>1. CASE RemovePath \/ UNCHANGED vars
  BY <1>0, <1>1, RestStep DEF Alone, Writer
<1>2. ASSUME NEW x \in Workers, Step(x)
      PROVE  Alone(w)'
  <2>1. ASSUME NEW v \in Workers \ {w}, Writer(w)', Writer(v)'
        PROVE  id'[v] # id'[w] /\ id'[w] \in overlapped'
    <3>1. (Writer(w) /\ id'[w] = id[w]) \/ (w = x /\ WriteAccess(x))
      BY <1>0, <1>2, <2>1, WriterBefore
    <3>2. (Writer(v) /\ id'[v] = id[v]) \/ (v = x /\ WriteAccess(x))
      BY <1>0, <1>2, <2>1, WriterBefore
    <3>3. CASE Writer(w) /\ id'[w] = id[w] /\ Writer(v) /\ id'[v] = id[v]
      BY <1>0, <1>00, <3>3 DEF Alone
    <3>4. CASE w = x /\ WriteAccess(x)
      <4>1. Writer(v) /\ id'[v] = id[v]
        BY <3>2, <3>4
      <4> QED
        BY <3>4, <4>1, LetIn
    <3>5. CASE v = x /\ WriteAccess(x)
      <4>1. Writer(w) /\ id'[w] = id[w]
        BY <3>1, <3>5
      <4> QED
        BY <3>5, <4>1, LetIn
    <3> QED
      BY <3>1, <3>2, <3>3, <3>4, <3>5
  <2>2. ASSUME Writer(w)'
        PROVE  entry' \in {None, id'[w]} \cup overlapped'
    <3>1. CASE w = x /\ WriteAccess(x)
      BY <3>1, LetIn
    <3>2. CASE Writer(w) /\ id'[w] = id[w]
      <4>1. entry \in {None, id[w]} \cup overlapped
        BY <1>0, <3>2 DEF Alone
      <4>2. CASE WriteOpen(x) /\ entry' = id[x]
        <5>1. Writer(x)
          BY <4>2 DEF WriteOpen, At, Writer, Writing
        <5>2. x # w => id[x] \in overlapped
          BY <1>0, <3>2, <5>1 DEF Alone
        <5> QED
          BY <1>00, <3>2, <4>2, <5>2
      <4> QED
        BY <1>00, <1>2, <3>2, <4>1, <4>2, EntryStep
    <3> QED
      BY <1>0, <1>2, <2>2, <3>1, <3>2, WriterBefore
  <2>3. \A v \in Workers \ {w} : Writer(w)' /\ Writer(v)' => id'[v] # id'[w] /\ id'[w] \in overlapped'
    BY <2>1
  <2> QED
    BY <2>2, <2>3 DEF Alone
<1> QED
  BY <1>1, <1>2 DEF Next, Step

(* Between access and fopen nobody makes the file but in company. *)
LEMMA OpeningStep ==
  ASSUME IInv, [Next]_vars, NEW w \in Workers
  PROVE  Opening(w)'
<1>0. Types /\ Stages /\ Fresh /\ \A v \in Workers : Alone(v) /\ Opening(v)
  BY DEF IInv, Typed, Paths
<1>00. overlapped \subseteq overlapped' /\ (Clean(id[w])' => Clean(id'[w]))
  BY Ghosts
<1>1. CASE RemovePath \/ UNCHANGED vars
  <2>1. entry' \in {None, entry} /\ UNCHANGED <<pc, id, inode, content, acked>>
    BY <1>1, RestStep
  <2>2. pc[w] = "open" => id[w] # None
    BY <1>0 DEF Stages, Stage, Writer, Writing
  <2> QED
    BY <1>0, <1>00, <2>1, <2>2 DEF Opening
<1>2. ASSUME NEW x \in Workers, Step(x), pc'[w] = "open"
      PROVE  /\ entry' # id'[w] /\ content'[id'[w]] = <<>> /\ id'[w] \notin acked'
             /\ \A v \in Workers : inode'[v] # id'[w] /\ (v # w => id'[v] # id'[w])
             /\ Clean(id[w])' => entry' = None
  <2>1. CASE w = x
    <3>1. WriteAccess(x)
      BY <1>0, <1>2, <2>1, Arrivals
    <3>2. \A v \in Workers : v # w => id'[v] = id[v]
      BY <1>0, <2>1, <3>1 DEF WriteAccess, BeginUpload, Types
    <3>3. None \notin Uploads
      BY DEF None, Uploads
    <3> QED
      BY <2>1, <3>1, <3>2, <3>3, LetIn
  <2>2. CASE w # x
    <3>1. Kept(w)
      BY <1>0, <1>2, <2>2, OthersKept
    <3>2. pc[w] = "open" /\ id'[w] = id[w] /\ Writer(w)
      BY <1>2, <3>1 DEF Kept, Writer, Writing
    <3>3. /\ entry # id[w] /\ content[id[w]] = <<>> /\ id[w] \notin acked
          /\ \A v \in Workers : inode[v] # id[w] /\ (v # w => id[v] # id[w])
          /\ Clean(id[w]) => entry = None
          /\ id[w] # None /\ id[w] \in Uploads
      BY <1>0, <3>2 DEF Opening, Stages, Stage, Types
    <3>4. Writer(x) => id[w] \in overlapped
      BY <1>0, <2>2, <3>2 DEF Alone
    <3>5. entry' # id[w]
      BY <1>2, <2>2, <3>3, EntryStep
    <3>6. content'[id[w]] = <<>>
      <4>1. CASE WriteOpen(x)
        <5>1. content' = [content EXCEPT ![entry'] = <<>>]
          BY <4>1 DEF WriteOpen
        <5> QED
          BY <1>0, <3>3, <3>5, <5>1 DEF Types
      <4>2. CASE Flush(x) \/ Close(x)
        BY <1>0, <3>3, <4>2 DEF Flush, Close, Types
      <4>3. CASE ~WriteOpen(x) /\ ~Flush(x) /\ ~Close(x)
        <5>1. content' = content
          BY <1>2, <4>3 DEF Step, WriteAccess, BeginUpload, WriteOpenFails, Receive, ClearBuffer,
             CopyPacket, SumPacket, DiskFull, Abandon, ReadAccess, ReadSize, ReadOpen,
             ReadBlock, ReadEnd, disk
        <5> QED
          BY <3>3, <5>1
      <4> QED
        BY <4>1, <4>2, <4>3
    <3>7. id[w] \notin acked'
      BY <1>0, <2>2, <3>2, <3>3, AckedStep
    <3>8. ASSUME NEW v \in Workers
          PROVE  inode'[v] # id[w] /\ (v # w => id'[v] # id[w])
      <4>1. CASE v # x
        BY <1>0, <1>2, <3>3, <4>1, OthersKept DEF Kept
      <4>2. CASE v = x /\ Leave(x)
        BY <1>0, <3>3, <4>2, LeaveFacts
      <4>3. CASE v = x /\ WriteAccess(x)
        BY <1>0, <2>2, <3>3, <4>3, LetIn
      <4>4. CASE v = x /\ ~Leave(x) /\ ~WriteAccess(x)
        <5>1. id'[x] \in {id[x], entry}
          BY <1>0, <1>2, <4>4 DEF Step, WriteOpen, WriteOpenFails,
             Receive, ClearBuffer, CopyPacket, SumPacket, Flush, DiskFull, Abandon, Close,
             ReadAccess, ReadSize, ReadOpen, ReadBlock, ReadEnd, locals, Types
        <5>2. inode'[x] \in {inode[x], entry, entry'}
          BY <1>0, <1>2, <4>4 DEF Step, WriteOpen, WriteOpenFails,
             Receive, ClearBuffer, CopyPacket, SumPacket, Flush, DiskFull, Abandon, Close,
             ReadAccess, ReadSize, ReadOpen, ReadBlock, ReadEnd, locals, Types
        <5> QED
          BY <2>2, <3>3, <3>5, <4>4, <5>1, <5>2
      <4> QED
        BY <4>1, <4>2, <4>3, <4>4
    <3>9. ASSUME Clean(id[w])' PROVE entry' = None
      <4>1. id[w] \notin overlapped /\ Clean(id[w])
        BY <1>00, <3>2, <3>9 DEF Clean
      <4>2. ~WriteOpen(x)
        BY <3>4, <4>1 DEF WriteOpen, At, Writer, Writing
      <4> QED
        BY <1>2, <3>3, <4>1, <4>2, EntryStep
    <3> QED
      BY <3>2, <3>5, <3>6, <3>7, <3>8, <3>9
  <2> QED
    BY <2>1, <2>2
<1>3. ASSUME NEW x \in Workers, Step(x)
      PROVE  Opening(w)'
  BY <1>2, <1>3 DEF Opening
<1> QED
  BY <1>1, <1>3 DEF Next, Step

(* What an upload that nobody disturbs accepts is the block that was due.  *)
LEMMA AcceptedIsDue ==
  ASSUME IInv, NEW w \in Workers, SumPacket(w), Verified(w), Clean(id[w])'
  PROVE  DataOf(packet[w]) = Block(id[w], Written(w) + 1)
<1>1. pc[w] = "sum" /\ id' = id
  BY DEF SumPacket, At
<1>2. w \notin raced
  BY <1>1 DEF SumPacket, Clean
<1>3. Stage(w) /\ Types /\ Sums
  BY DEF IInv, Typed, Stages
<1>4. /\ id[w] # None /\ Written(w) < Blocks
      /\ packet[w] \in {Due(w)} \cup Garbled(Due(w))
  BY <1>1, <1>3 DEF Stage, Writer, Writing
<1>5. Sum(Copied(Buffer(6), packet[w]), Len(packet[w])) = 0
  BY <1>1, <1>2, <1>3 DEF Sums, Verified
<1>6. packet[w] = Due(w) /\ DataOf(Due(w)) = Block(id[w], Written(w) + 1)
  BY <1>3, <1>4, <1>5, DueFacts
<1> QED
  BY <1>6

(* Nobody else has the upload of a writer. *)
LEMMA OneWriter ==
  ASSUME IInv, NEW w \in Workers, NEW x \in Workers, Writer(w), Writer(x), id[x] = id[w]
  PROVE  x = w
BY DEF IInv, Paths, Alone

(* fopen gives a clean upload an empty file of its own. *)
LEMMA OpenedAfresh ==
  ASSUME IInv, [Next]_vars, NEW w \in Workers, WriteOpen(w)
  PROVE  Filling(w)'
<1>0. Types /\ Stage(w) /\ Alone(w) /\ Opening(w) /\ pc[w] = "open" /\ Writer(w)
  BY DEF IInv, Typed, Stages, Paths, WriteOpen, At, Writer, Writing
<1>00. overlapped \subseteq overlapped' /\ (Clean(id[w])' => Clean(id'[w]))
  BY Ghosts
<1>1. id[w] \in Uploads /\ offset[w] = 0 /\ pending[w] = <<>> /\ Len(pending[w]) = 0
  BY <1>0 DEF Types, Stage
<1>2. /\ entry # id[w] /\ id[w] \notin acked /\ content[id[w]] = <<>>
      /\ Clean(id[w]) => entry = None
      /\ entry \in {None, id[w]} \cup overlapped
  BY <1>0 DEF Opening, Alone
<1>3. /\ entry' = (IF entry = None THEN id[w] ELSE entry)
      /\ inode'[w] = entry' /\ pc'[w] = "receive"
      /\ UNCHANGED <<id, offset, pending, acked>>
      /\ content' = [content EXCEPT ![entry'] = <<>>]
  BY <1>0 DEF WriteOpen, Types, Goto, ghosts
<1>4. inode'[w] = id'[w] \/ inode'[w] \in overlapped'
  BY <1>00, <1>2, <1>3
<1>5. ASSUME Clean(id'[w])
      PROVE  /\ entry' = id'[w] /\ inode'[w] = id'[w]
             /\ offset'[w] = Len(content'[id'[w]])
             /\ \A k \in 1..Len(pending'[w]) : pending'[w][k] = Block(id'[w], offset'[w] + k)
  <2>1. entry = None
    BY <1>2, <1>3, <1>5
  <2>2. content'[id'[w]] = <<>>
    BY <1>0, <1>1, <1>3, <2>1 DEF Types
  <2>3. offset'[w] = Len(content'[id'[w]])
    BY <1>1, <1>3, <2>2
  <2>4. Len(pending'[w]) = 0
    BY <1>1, <1>3
  <2> QED
    BY <1>3, <2>1, <2>3, <2>4
<1> QED
  BY <1>00, <1>2, <1>3, <1>4, <1>5 DEF Filling, Opened, Writing

(* The file of a clean upload is filled in order, and by nobody else. *)
LEMMA FillingStep ==
  ASSUME IInv, [Next]_vars, NEW w \in Workers
  PROVE  Filling(w)'
<1>0. Types /\ Stage(w) /\ Filling(w) /\ Typed'
  BY TypedStep DEF IInv, Typed, Stages, Paths
<1>00. overlapped \subseteq overlapped' /\ (Clean(id[w])' => Clean(id'[w]))
  BY Ghosts
<1>1. CASE WriteOpen(w)
  BY <1>1, OpenedAfresh
<1>2. ASSUME ~WriteOpen(w), Opened(w)'
      PROVE  /\ Opened(w) /\ id'[w] = id[w] /\ inode'[w] = inode[w]
             /\ pc'[w] # "close" => pc[w] # "close"
  <2>1. CASE RemovePath \/ UNCHANGED vars
    BY <1>2, <2>1, RestStep DEF Opened
  <2>2. ASSUME NEW x \in Workers, Step(x)
        PROVE  /\ Opened(w) /\ id'[w] = id[w] /\ inode'[w] = inode[w]
               /\ pc'[w] # "close" => pc[w] # "close"
    BY <1>0, <1>2, <2>2, OpenedBefore
  <2> QED
    BY <2>1, <2>2 DEF Next, Step
<1>3. ASSUME ~WriteOpen(w), Opened(w)'
      PROVE  /\ inode'[w] = id'[w] \/ inode'[w] \in overlapped'
             /\ pc'[w] # "close" => id'[w] \notin acked'
  <2>1. Opened(w) /\ Writer(w) /\ id'[w] = id[w] /\ inode'[w] = inode[w]
        /\ (pc'[w] # "close" => pc[w] # "close")
    BY <1>2, <1>3 DEF Opened, Writer
  <2>2. ASSUME pc'[w] # "close", id[w] \in acked'
        PROVE  FALSE
    <3>1. id[w] \notin acked
      BY <1>0, <2>1, <2>2 DEF Filling
    <3>2. PICK x \in Workers : id[x] = id[w] /\ pc[x] = "sum" /\ pc'[x] = "close"
      BY <1>0, <2>2, <3>1, AckedStep
    <3>3. x = w
      BY <2>1, <3>2, OneWriter DEF Writer, Writing
    <3> QED
      BY <2>2, <3>2, <3>3
  <2> QED
    BY <1>0, <1>00, <2>1, <2>2 DEF Filling
<1>4. ASSUME ~WriteOpen(w), Opened(w)', Clean(id[w])'
      PROVE  /\ entry' = id'[w] /\ inode'[w] = id'[w]
             /\ offset'[w] = Len(content'[id'[w]])
             /\ \A k \in 1..Len(pending'[w]) : pending'[w][k] = Block(id'[w], offset'[w] + k)
             /\ pc'[w] = "close" => Written(w)' = Blocks
  <2>1. Opened(w) /\ Writer(w) /\ id'[w] = id[w] /\ inode'[w] = inode[w]
    BY <1>2, <1>4 DEF Opened, Writer
  <2>2. Clean(id[w]) /\ id[w] \in Uploads
    <3>1. PICK u : u = id[w]
      OBVIOUS
    <3>2. Clean(u)'
      BY <1>4, <2>1, <3>1 DEF Clean
    <3> QED
      BY <1>0, <2>1, <3>1, <3>2, Ghosts DEF Stage, Types
  <2>3. /\ entry = id[w] /\ inode[w] = id[w] /\ offset[w] = Len(content[id[w]])
        /\ \A k \in 1..Len(pending[w]) : pending[w][k] = Block(id[w], offset[w] + k)
        /\ pc[w] = "close" => Written(w) = Blocks
    BY <1>0, <2>1, <2>2 DEF Filling
  <2>4. ~DiskFull(w) /\ ~Close(w) /\ ~Leave(w)
    BY <1>0, <1>4, LeaveFacts DEF DiskFull, Close, Opened, Writing
  <2>5. entry' = id[w]
    <3>1. PICK u \in Uploads : u = id[w]
      BY <2>2
    <3>2. Clean(u)' /\ entry = u
      BY <1>4, <2>1, <2>3, <3>1 DEF Clean
    <3>3. SUFFICES ASSUME entry' # u PROVE FALSE
      BY <3>1
    <3>4. PICK x \in Workers : DiskFull(x) /\ id[x] = u
      BY <3>2, <3>3, EntryKept
    <3>5. x = w
      BY <2>1, <3>1, <3>4, OneWriter DEF DiskFull, At, Writer, Writing
    <3> QED
      BY <2>4, <3>4, <3>5
  <2>6. CASE Flush(w)
    <3>1. content'[id[w]] = WriteAt(content[id[w]], offset[w], pending[w])
      BY <1>0, <2>2, <2>3, <2>6 DEF Flush, Types
    <3>2. Len(content'[id[w]]) = Written(w)
      BY <2>1, <2>2, <3>1, Wrote
    <3>3. offset'[w] = Written(w) /\ pending'[w] = <<>> /\ pc'[w] # "close" /\ Len(pending'[w]) = 0
      BY <1>0, <2>6 DEF Flush, Types, Written, At
    <3> QED
      BY <2>1, <2>3, <2>5, <3>2, <3>3
  <2>7. CASE ~Flush(w)
    <3>1. content'[id[w]] = content[id[w]]
      <4>1. PICK u \in Uploads : u = id[w]
        BY <2>2
      <4>2. Clean(u)'
        BY <1>4, <2>1, <4>1 DEF Clean
      <4>3. SUFFICES ASSUME content'[u] # content[u] PROVE FALSE
        BY <4>1
      <4>4. PICK x \in Workers : (Flush(x) \/ Close(x)) /\ id[x] = u /\ Opened(x)
        BY <4>2, <4>3, ContentKept
      <4>5. x = w
        BY <2>1, <4>1, <4>4, OneWriter DEF Opened, Writer
      <4> QED
        BY <2>4, <2>7, <4>4, <4>5
    <3>2. CASE SumPacket(w) /\ Verified(w)
      <4>1. DataOf(packet[w]) = Block(id[w], Written(w) + 1)
        BY <1>4, <3>2, AcceptedIsDue
      <4>2. /\ pending' = [pending EXCEPT ![w] = Append(pending[w], DataOf(packet[w]))]
            /\ offset' = offset /\ pc' = [pc EXCEPT ![w] = IF Written(w) + 1 = Blocks THEN "close" ELSE "receive"]
        BY <3>2 DEF SumPacket, Goto
      <4> DEFINE block == DataOf(packet[w])
                 more == Append(pending[w], block)
      <4>3. pending[w] \in Seq(BlockOrHole) /\ Len(pending[w]) \in Nat /\ offset[w] \in Nat
        BY <1>0, LenProperties DEF Types
      <4>4. block \in BlockOrHole
        <5>1. id[w] # None /\ Written(w) < Blocks /\ packet[w] \in {Due(w)} \cup Garbled(Due(w))
          BY <1>0, <3>2 DEF SumPacket, At, Stage, Writer, Writing
        <5> QED
          BY <1>0, <5>1, DueFacts, DataOfFacts
      <4>5. pending'[w] = more
        BY <1>0, <4>2 DEF Types
      <4> HIDE DEF block
      <4>6. /\ Len(more) = Len(pending[w]) + 1
            /\ \A k \in 1..Len(pending[w]) : more[k] = pending[w][k]
            /\ more[Len(pending[w]) + 1] = block
        BY <4>3, <4>4, AppendProperties
      <4> HIDE DEF more
      <4>7. block = Block(id[w], offset[w] + (Len(pending[w]) + 1))
        <5>1. Written(w) + 1 = offset[w] + (Len(pending[w]) + 1)
          BY <4>3 DEF Written
        <5> QED
          BY <4>1, <5>1 DEF block
      <4>8. ASSUME NEW k \in 1..Len(more) PROVE more[k] = Block(id[w], offset[w] + k)
        <5>1. k \in 1..Len(pending[w]) \/ k = Len(pending[w]) + 1
          BY <4>3, <4>6
        <5> QED
          BY <2>3, <4>6, <4>7, <5>1
      <4>9. ASSUME pc'[w] = "close" PROVE Written(w)' = Blocks
        <5>1. Written(w) + 1 = Blocks
          BY <1>0, <4>2, <4>9 DEF Types
        <5>2. Written(w)' = offset[w] + (Len(pending[w]) + 1)
          BY <4>2, <4>5, <4>6 DEF Written
        <5> QED
          BY <4>3, <5>1, <5>2 DEF Written
      <4> QED
        BY <2>1, <2>3, <2>5, <3>1, <4>2, <4>5, <4>8, <4>9
    <3>3. CASE ~(SumPacket(w) /\ Verified(w))
      <4>1. offset'[w] = offset[w] /\ pending'[w] = pending[w] /\ (pc'[w] = "close" => pc[w] = "close")
        <5>1. CASE RemovePath \/ UNCHANGED vars
          BY <5>1, RestStep
        <5>2. ASSUME NEW x \in Workers, Step(x), x # w
              PROVE  offset'[w] = offset[w] /\ pending'[w] = pending[w] /\ (pc'[w] = "close" => pc[w] = "close")
          BY <1>0, <5>2, OthersKept DEF Kept
        <5>3. CASE Step(w)
          <6>1. WriteOpen(w) \/ Receive(w) \/ ClearBuffer(w) \/ CopyPacket(w) \/ SumPacket(w)
            BY <1>0, <1>4, <2>7, <5>3, Arrivals, OpenedBefore DEF Opened, Writing
          <6>2. offset' = offset /\ pending' = pending
            BY <3>3, <6>1 DEF WriteOpen, Receive, ClearBuffer, CopyPacket, SumPacket, locals
          <6>3. pc'[w] # "close"
            BY <1>0, <3>3, <6>1 DEF WriteOpen, Receive, ClearBuffer, CopyPacket, SumPacket,
                                    Goto, Types
          <6> QED
            BY <6>2, <6>3
        <5> QED
          BY <5>1, <5>2, <5>3 DEF Next, Step
      <4>2. Written(w)' = Written(w)
        BY <4>1 DEF Written
      <4> QED
        BY <2>1, <2>3, <2>5, <3>1, <4>1, <4>2
    <3> QED
      BY <3>2, <3>3
  <2> QED
    BY <2>6, <2>7
<1>5. ~WriteOpen(w) => Filling(w)'
  BY <1>3, <1>4 DEF Filling
<1> QED
  BY <1>1, <1>5

(* A settled upload keeps its path and its blocks; one settles by closing. *)
LEMMA LeftStep ==
  ASSUME IInv, [Next]_vars, NEW u \in Uploads
  PROVE  Left(u)'
<1>0. Types /\ Typed /\ Typed' /\ Left(u)
  BY TypedStep DEF IInv, Typed, Paths
<1>1. ASSUME Clean(u)', Settled(u)'
      PROVE  entry' = u /\ Len(content'[u]) = Blocks
  <2>0. Clean(u) /\ u # None
    BY <1>1, Ghosts DEF Uploads, None
  <2>1. CASE Settled(u)
    <3>1. u \in acked /\ \A x \in Workers : ~(pc[x] = "close" /\ id[x] = u)
      BY <2>1 DEF Settled
    <3>2. \A x \in Workers : Opened(x) => id[x] # u
      BY <3>1 DEF IInv, Paths, Filling
    <3>3. entry = u /\ Len(content[u]) = Blocks
      BY <1>0, <2>0, <2>1 DEF Left
    <3>4. entry' = u
      <4>1. SUFFICES ASSUME entry' # u PROVE FALSE
        OBVIOUS
      <4>2. PICK x \in Workers : DiskFull(x) /\ id[x] = u
        BY <1>1, <3>3, <4>1, EntryKept
      <4> QED
        BY <3>2, <4>2 DEF DiskFull, At, Opened, Writing
    <3>5. content'[u] = content[u]
      BY <1>1, <3>2, ContentKept
    <3> QED
      BY <3>3, <3>4, <3>5
  <2>2. CASE ~Settled(u)
    <3>0. u \in acked' /\ \A x \in Workers : ~(pc'[x] = "close" /\ id'[x] = u)
      BY <1>1 DEF Settled
    <3>1. u \in acked
      <4>1. SUFFICES ASSUME u \notin acked PROVE FALSE
        OBVIOUS
      <4>2. PICK x \in Workers : id'[x] = u /\ pc'[x] = "close"
        BY <1>0, <3>0, <4>1, AckedStep
      <4> QED
        BY <3>0, <4>2
    <3>2. PICK w \in Workers : pc[w] = "close" /\ id[w] = u
      BY <2>2, <3>1 DEF Settled
    <3>3. Opened(w) /\ Writer(w)
      BY <3>2 DEF Opened, Writer, Writing
    <3>4. /\ entry = u /\ inode[w] = u /\ Written(w) = Blocks
      BY <2>0, <3>2, <3>3 DEF IInv, Paths, Filling
    <3>5. ~Kept(w)
      BY <3>0, <3>2 DEF Kept
    <3>6. Step(w)
      <4>1. ~(RemovePath \/ UNCHANGED vars)
        BY <3>5, RestStep
      <4>2. ASSUME NEW x \in Workers, Step(x) PROVE x = w
        BY <1>0, <3>5, <4>2, OthersKept
      <4> QED
        BY <4>1, <4>2 DEF Next, Step
    <3>7. Close(w)
      BY <3>2, <3>6 DEF Step, WriteAccess, BeginUpload, WriteOpen, WriteOpenFails, Receive,
         ClearBuffer, CopyPacket, SumPacket, Flush, DiskFull, Abandon, ReadAccess,
         ReadSize, ReadOpen, ReadBlock, ReadEnd, At
    <3>8. content' = [content EXCEPT ![inode[w]] = WriteAt(@, offset[w], pending[w])]
      <4>1. u \notin spoilt'
        BY <1>1 DEF Clean
      <4> QED
        BY <3>2, <3>7, <4>1 DEF Close
    <3>9. content'[u] = WriteAt(content[u], offset[w], pending[w])
      BY <1>0, <3>4, <3>8 DEF Types
    <3>10. Len(content'[u]) = Blocks
      BY <2>0, <3>2, <3>3, <3>4, <3>9, Wrote
    <3>11. entry' = entry
      BY <3>7 DEF Close
    <3> QED
      BY <3>4, <3>10, <3>11
  <2> QED
    BY <2>1, <2>2
<1>2. Clean(u)' => Prefix(content'[u], u)
  BY ContentGrows
<1> QED
  BY <1>1, <1>2 DEF Left, Prefix

(* The path of a download between its two opens. *)
LEMMA PathKept ==
  ASSUME IInv, [Next]_vars, NEW w \in Workers, w \notin moved', pc[w] = "reopen", pc'[w] = "reopen"
  PROVE  entry' = entry /\ w \notin moved
<1>0. Types /\ Reading(w)
  BY DEF IInv, Typed, Paths
<1>1. CASE RemovePath
  BY <1>1 DEF RemovePath, Unlink
<1>2. CASE UNCHANGED vars
  BY <1>2 DEF vars
<1>3. ASSUME NEW x \in Workers, Step(x)
      PROVE  entry' = entry /\ w \notin moved
  <2>1. w \notin moved
    <3>1. CASE ReadAccess(x)
      BY <1>3, <3>1 DEF ReadAccess, At
    <3>2. CASE DiskFull(x)
      BY <3>2 DEF DiskFull, Unlink
    <3>3. CASE ~ReadAccess(x) /\ ~DiskFull(x)
      <4>1. moved' = moved
        BY <1>3, <3>3 DEF Step, WriteAccess, BeginUpload, WriteOpen, WriteOpenFails, Receive,
           ClearBuffer, CopyPacket, SumPacket, Flush, Abandon, Close,
           ReadSize, ReadOpen, ReadBlock, ReadEnd, ghosts
      <4> QED
        BY <4>1
    <3> QED
      BY <3>1, <3>2, <3>3
  <2>2. entry = id[w] /\ id[w] # None
    BY <1>0, <2>1 DEF Reading
  <2>3. entry' = entry
    <3>1. CASE DiskFull(x)
      BY <2>2, <3>1 DEF DiskFull, Unlink
    <3> QED
      BY <1>3, <2>2, <3>1, EntryStep
  <2> QED
    BY <2>1, <2>3
<1> QED
  BY <1>1, <1>2, <1>3 DEF Next, Step

(* Once it has opened the file the path does not matter to it any more. *)
LEMMA MovedKept ==
  ASSUME [Next]_vars, NEW w \in Workers, w \in moved, w \notin moved'
  PROVE  pc[w] = "idle" /\ ReadAccess(w)
<1>1. CASE RemovePath
  BY <1>1 DEF RemovePath, Unlink
<1>2. CASE UNCHANGED vars
  BY <1>2 DEF vars
<1>3. ASSUME NEW x \in Workers, Step(x)
      PROVE  pc[w] = "idle" /\ ReadAccess(w)
  <2>1. CASE ReadAccess(x)
    BY <2>1 DEF ReadAccess, At
  <2>2. CASE ~ReadAccess(x)
    BY <1>3, <2>2 DEF Step, WriteAccess, BeginUpload, WriteOpen, WriteOpenFails, Receive,
       ClearBuffer, CopyPacket, SumPacket, Flush, DiskFull, Abandon, Close, Unlink,
       ReadSize, ReadOpen, ReadBlock, ReadEnd, ghosts
  <2> QED
    BY <2>1, <2>2
<1> QED
  BY <1>1, <1>2, <1>3 DEF Next, Step

(* The length that was found stays within the file. *)
LEMMA SizeKept ==
  ASSUME IInv, [Next]_vars, NEW w \in Workers, pc[w] \in {"reopen", "read", "sent"},
         id'[w] = id[w], size'[w] = size[w]
  PROVE  id'[w] # None /\ (Clean(id[w])' => size'[w] <= Len(content'[id'[w]]))
<1>0. Types /\ Typed' /\ Reading(w)
  BY TypedStep DEF IInv, Typed, Paths
<1>1. id[w] # None /\ id[w] \in Uploads /\ (Clean(id[w]) => size[w] <= Len(content[id[w]]))
  BY <1>0 DEF Reading, Types
<1>2. PICK u \in Uploads : u = id[w]
  BY <1>1
<1>3. ASSUME Clean(u)' PROVE size[w] <= Len(content'[u])
  <2>1. Len(content[u]) <= Len(content'[u]) /\ Clean(u)
    BY <1>3, ContentGrows, Ghosts
  <2>2. Len(content[u]) \in Nat /\ Len(content'[u]) \in Nat /\ size[w] \in Int
    BY <1>0, LenProperties DEF Types, Typed
  <2> QED
    BY <1>1, <1>2, <2>1, <2>2
<1>4. Clean(id[w])' => Clean(u)'
  BY <1>2 DEF Clean
<1> QED
  BY <1>1, <1>2, <1>3, <1>4

(* A download at rest stays within the file it found. *)
LEMMA ReadingKept ==
  ASSUME IInv, [Next]_vars, NEW w \in Workers, Kept(w)
  PROVE  Reading(w)'
<1>0. Types /\ Reading(w) /\ (Clean(id[w])' => Clean(id'[w]) /\ Clean(id[w]))
  BY Ghosts DEF IInv, Typed, Paths, Kept, Clean
<1>1. pc'[w] \in {"reopen", "read", "sent"} =>
        id'[w] # None /\ (Clean(id[w])' => size'[w] <= Len(content'[id'[w]]))
  BY SizeKept DEF Kept
<1>2. ASSUME w \notin moved', pc'[w] = "reopen" PROVE entry' = id'[w]
  BY <1>0, <1>2, PathKept DEF Reading, Kept
<1>3. ASSUME w \notin moved', pc'[w] \in {"read", "sent"} PROVE w \notin moved
  BY <1>3, MovedKept DEF Kept
<1>4. ASSUME w \notin moved', pc'[w] \in {"read", "sent"}
      PROVE  /\ pc'[w] = "read" => inode'[w] = id'[w]
             /\ Clean(id[w])' => Prefix(got'[w], id'[w])
  BY <1>0, <1>3, <1>4 DEF Reading, Kept
<1>5. pc'[w] = "sent" => Len(got'[w]) = size'[w]
  BY <1>0 DEF Reading, Kept
<1> QED
  BY <1>1, <1>2, <1>4, <1>5 DEF Reading, Prefix

(* The block that is sent next is the file's. *)
LEMMA BlockRead ==
  ASSUME IInv, [Next]_vars, NEW w \in Workers, ReadBlock(w)
  PROVE  Reading(w)'
<1>0. Types /\ Reading(w) /\ Stage(w) /\ pc[w] = "read" /\ id' = id /\ inode' = inode /\ size' = size
      /\ moved' = moved /\ (Clean(id[w])' => Clean(id'[w]) /\ Clean(id[w]))
  <2>1. id' = id /\ inode' = inode /\ size' = size /\ moved' = moved /\ pc[w] = "read"
    BY DEF ReadBlock, At
  <2>2. Clean(id[w])' => Clean(id'[w]) /\ Clean(id[w])
    BY <2>1, Ghosts DEF Clean
  <2> QED
    BY <2>1, <2>2 DEF IInv, Typed, Stages, Paths
<1>1. id'[w] # None /\ (Clean(id[w])' => size'[w] <= Len(content'[id'[w]]))
  BY <1>0, SizeKept
<1>2. Len(got[w]) \in Nat /\ size[w] \in Nat /\ Len(got[w]) <= size[w] /\ got[w] \in Seq(BlockOrHole)
  <2>1. size[w] \in 0..Blocks
    BY <1>0 DEF Types
  <2> QED
    BY <1>0, <2>1, LenProperties DEF Types, Stage
<1>3. CASE ~MoreToSend(w)
  <2>1. got' = got /\ pc'[w] = "sent"
    BY <1>0, <1>3 DEF ReadBlock, Goto, Types
  <2>2. Len(got[w]) = size[w]
    BY <1>2, <1>3 DEF MoreToSend
  <2>3. w \notin moved' /\ Clean(id[w])' => Prefix(got'[w], id'[w])
    BY <1>0, <2>1 DEF Reading
  <2> QED
    BY <1>0, <1>1, <2>1, <2>2, <2>3 DEF Reading, Prefix
<1>4. CASE MoreToSend(w)
  <2>1. pc' = pc /\ Len(got[w]) < size[w]
    BY <1>4 DEF ReadBlock, MoreToSend
  <2>2. ASSUME w \notin moved, Clean(id[w])
        PROVE  Prefix(got'[w], id[w])
    <3> DEFINE file == content[id[w]]
               next == Len(got[w]) + 1
    <3>1. /\ inode[w] = id[w] /\ id[w] # None /\ id[w] \in Uploads /\ size[w] <= Len(file)
          /\ \A k \in 1..Len(got[w]) : got[w][k] = Block(id[w], k)
      BY <1>0, <2>2 DEF Reading, Prefix, Types
    <3>2. file \in Seq(BlockOrHole) /\ Len(file) \in Nat
      BY <1>0, <3>1, LenProperties DEF Types
    <3>3. Len(got[w]) < Len(file) /\ next \in 1..Len(file)
      BY <1>2, <2>1, <3>1, <3>2
    <3>4. file[next] = Block(id[w], next)
      BY <2>2, <3>1, <3>3 DEF IInv, Paths, Left, Prefix
    <3>5. file[next] \in BlockOrHole
      BY <3>2, <3>3, ElementOfSeq
    <3>6. got' = [got EXCEPT ![w] = Append(got[w], file[next])]
      BY <1>4, <3>1, <3>3 DEF ReadBlock
    <3>7. got'[w] = Append(got[w], file[next])
      BY <1>0, <3>6 DEF Types
    <3> DEFINE more == Append(got[w], file[next])
    <3> HIDE DEF file
    <3>8. /\ Len(more) = Len(got[w]) + 1
          /\ \A k \in 1..Len(got[w]) : more[k] = got[w][k]
          /\ more[Len(got[w]) + 1] = file[next]
      BY <1>2, <3>5, AppendProperties
    <3> HIDE DEF more
    <3>9. ASSUME NEW k \in 1..Len(more) PROVE more[k] = Block(id[w], k)
      <4>1. k \in 1..Len(got[w]) \/ k = Len(got[w]) + 1
        BY <1>2, <3>8
      <4> QED
        BY <3>1, <3>4, <3>8, <4>1
    <3> QED
      BY <3>7, <3>9 DEF Prefix, more
  <2>3. w \notin moved' => inode'[w] = id'[w]
    BY <1>0 DEF Reading
  <2> QED
    BY <1>0, <1>1, <2>1, <2>2, <2>3 DEF Reading, Prefix
<1> QED
  BY <1>3, <1>4

(* Every step of a download stays within the file it found. *)
LEMMA ReadingStep ==
  ASSUME IInv, [Next]_vars, NEW w \in Workers
  PROVE  Reading(w)'
<1>0. Types /\ Reading(w) /\ Stage(w)
  BY DEF IInv, Typed, Stages, Paths
<1>1. CASE Kept(w)
  BY <1>1, ReadingKept
<1>2. CASE ReadSize(w) /\ ~Leave(w)
  <2>1. /\ pc'[w] = "reopen" /\ id'[w] = entry /\ size'[w] = Len(content[entry])
        /\ entry' = entry /\ content' = content
    BY <1>0, <1>2 DEF ReadSize, Goto, Types, disk
  <2>2. entry \in Uploads
    BY <1>0, <1>2 DEF ReadSize, Types
  <2>3. Len(content[entry]) \in Nat
    BY <1>0, <2>2, LenProperties DEF Types
  <2>4. id'[w] # None
    BY <2>1, <2>2 DEF Uploads, None
  <2>5. content'[id'[w]] = content[entry]
    BY <2>1
  <2> QED
    BY <2>1, <2>3, <2>4, <2>5 DEF Reading
<1>3. CASE ReadOpen(w)
  <2>1. /\ pc[w] = "reopen" /\ id' = id /\ size' = size /\ got' = got /\ moved' = moved
        /\ entry' = entry
    BY <1>3 DEF ReadOpen, At, ghosts, disk
  <2>2. id'[w] # None /\ (Clean(id[w])' => size'[w] <= Len(content'[id'[w]]))
    BY <2>1, SizeKept
  <2>3. w \notin moved => entry = id[w]
    BY <1>0, <2>1 DEF Reading
  <2>4. got[w] = <<>>
    BY <1>0, <2>1 DEF Stage
  <2>5. Prefix(<<>>, id'[w])
    BY DEF Prefix
  <2>6. CASE pc' = pc
    BY <2>1, <2>2, <2>3, <2>6 DEF Reading
  <2>7. CASE pc' # pc
    <3>1. pc'[w] = "read" /\ inode'[w] = entry
      BY <1>0, <1>3, <2>7 DEF ReadOpen, Goto, Types
    <3> QED
      BY <2>1, <2>2, <2>3, <2>4, <2>5, <3>1 DEF Reading, Prefix
  <2> QED
    BY <2>6, <2>7
<1>4. CASE ReadBlock(w)
  BY <1>4, BlockRead
<1>5. CASE pc'[w] \notin {"reopen", "read", "sent"}
  BY <1>5 DEF Reading
<1>6. ASSUME ~Kept(w), pc'[w] \in {"reopen", "read", "sent"}
      PROVE  (ReadSize(w) /\ ~Leave(w)) \/ ReadOpen(w) \/ ReadBlock(w)
  <2>1. Step(w)
    <3>1. ~(RemovePath \/ UNCHANGED vars)
      BY <1>6, RestStep
    <3>2. ASSUME NEW x \in Workers, Step(x) PROVE x = w
      BY <1>0, <1>6, <3>2, OthersKept
    <3> QED
      BY <3>1, <3>2 DEF Next, Step
  <2>2. ReadSize(w) \/ ReadOpen(w) \/ ReadBlock(w)
    BY <1>0, <1>6, <2>1, Arrivals
  <2>3. CASE ReadSize(w) /\ Leave(w)
    BY <1>0, <1>6, <2>3, LeaveFacts DEF ReadSize
  <2> QED
    BY <2>2, <2>3
<1> QED
  BY <1>1, <1>2, <1>3, <1>4, <1>5, <1>6

-----------------------------------------------------------------------------
(* The invariant, and what it says. *)

(* The invariant holds at first, and after every step. *)
LEMMA Invariance == Spec => []IInv
<1>1. Init => IInv
  <2> SUFFICES ASSUME Init PROVE IInv
    OBVIOUS
  <2>1. <<>> \in Seq(BlockOrHole) /\ <<>> \in Seq(Bytes) /\ Len(<<>>) = 0
    OBVIOUS
  <2>2. Blocks \in Nat /\ MaxUploads \in Nat /\ MaxGarbled \in Nat
    BY BoundsAssumption
  <2>3. Buffer(6) \in [1..7 -> Bytes]
    BY BytesKnown DEF Buffer
  <2>4. Types
    BY <2>1, <2>2, <2>3 DEF Init, Types, Labels
  <2>5. Lengths
    BY <2>1, <2>2 DEF Init, Lengths
  <2>6. Stages
    BY <2>1, <2>2 DEF Init, Stages, Stage, Writer, Opened, Writing, Written
  <2>7. Sums
    BY DEF Init, Sums
  <2>8. Fresh
    BY DEF Init, Fresh, None
  <2>9. \A w \in Workers : Alone(w) /\ Opening(w) /\ Filling(w) /\ Reading(w)
    BY DEF Init, Alone, Opening, Filling, Reading, Writer, Opened, Writing
  <2>10. \A u \in Uploads : Left(u)
    BY <2>1 DEF Init, Left, Prefix, Settled
  <2> QED
    BY <2>4, <2>5, <2>6, <2>7, <2>8, <2>9, <2>10 DEF IInv, Typed, Paths
<1>2. IInv /\ [Next]_vars => IInv'
  <2> SUFFICES ASSUME IInv, [Next]_vars PROVE IInv'
    OBVIOUS
  <2>1. Typed' /\ Sums'
    BY TypedStep DEF IInv
  <2>2. Fresh'
    BY FreshStep
  <2>3. \A w \in Workers : Alone(w)' /\ Opening(w)' /\ Filling(w)' /\ Reading(w)'
    BY AloneStep, OpeningStep, FillingStep, ReadingStep
  <2>4. \A u \in Uploads : Left(u)'
    BY LeftStep
  <2> QED
    BY <2>1, <2>2, <2>3, <2>4 DEF IInv, Paths
<1> QED
  BY <1>1, <1>2, PTL DEF Spec

(* A file as long as its upload, with the upload's blocks, is all of it.   *)
LEMMA AllOfIt ==
  ASSUME NEW u \in Uploads, NEW blocks \in Seq(BlockOrHole), Prefix(blocks, u), Len(blocks) = Blocks
  PROVE  blocks = Whole(u)
<1>1. \A k \in 1..Blocks : Block(u, k) \in BlockOrHole
  BY BlockFacts
<1>2. Whole(u) \in Seq(BlockOrHole) /\ Len(Whole(u)) = Blocks
      /\ \A k \in 1..Blocks : Whole(u)[k] = Block(u, k)
  BY <1>1, BoundsAssumption DEF Whole
<1>3. \A k \in 1..Len(blocks) : blocks[k] = Whole(u)[k]
  BY <1>2 DEF Prefix
<1> HIDE DEF Whole
<1> QED
  BY <1>2, <1>3, SeqEqual

(* Whatever workers and network do, every variable holds what the code can *)
(* put there: blocks and the buffer's bytes in range, no file longer than  *)
(* it was sent, no download longer than the length it found.               *)
THEOREM TypesHold == Spec => []TypeOK
<1>1. IInv => TypeOK
  <2> SUFFICES ASSUME IInv PROVE TypeOK
    OBVIOUS
  <2>1. Types /\ Lengths /\ Stages
    BY DEF IInv, Typed
  <2>2. \A u \in Uploads : \A k \in 1..Len(content[u]) : content[u][k] \in BlockOrHole
    BY <2>1, ElementOfSeq DEF Types
  <2>3. \A w \in Workers : Written(w) <= Blocks /\ Len(got[w]) <= size[w] /\ size[w] <= Blocks
    <3>1. ASSUME NEW w \in Workers PROVE size[w] <= Blocks
      <4>1. size[w] \in 0..Blocks
        BY <2>1 DEF Types
      <4> QED
        BY <4>1
    <3> QED
      BY <2>1, <3>1 DEF Stages, Stage
  <2> QED
    BY <2>1, <2>2, <2>3 DEF TypeOK, Types, Lengths
<1> QED
  BY <1>1, Invariance, PTL

(* checksum_ over its static buffer, undisturbed, tells the packet that    *)
(* was sent from every packet with one byte changed, for every size of a   *)
(* byte and at both parities of the length.                                *)
THEOREM ChecksumsVerify == Spec => []ChecksumVerifies
<1>1. IInv => ChecksumVerifies
  <2> SUFFICES ASSUME IInv, NEW w \in Workers \ raced, At(w, "sum")
               PROVE  Verified(w) <=> packet[w] = Due(w)
    BY DEF ChecksumVerifies
  <2>1. Types /\ Stage(w) /\ pc[w] = "sum"
    BY DEF IInv, Typed, Stages, At
  <2>2. /\ id[w] # None /\ Written(w) < Blocks
        /\ packet[w] \in {Due(w)} \cup Garbled(Due(w))
    BY <2>1 DEF Stage, Writer, Writing
  <2>3. buff = Copied(Buffer(6), packet[w])
    BY <2>1 DEF IInv, Sums
  <2>4. Sum(Copied(Buffer(6), packet[w]), Len(packet[w])) = 0 <=> packet[w] = Due(w)
    BY <2>1, <2>2, DueFacts
  <2> QED
    BY <2>3, <2>4 DEF Verified
<1> QED
  BY <1>1, Invariance, PTL

(* An upload that was acknowledged to its end, and whose file is closed,   *)
(* is on the path and whole, whatever was garbled and whoever tried the    *)
(* path since, unless it had company, was removed or not flushed, or had a *)
(* sum disturbed.                                                          *)
THEOREM AckedUploadsStay == Spec => []AckedStays
<1>1. IInv => AckedStays
  <2> SUFFICES ASSUME IInv, NEW u \in Uploads \ (overlapped \cup spoilt), Settled(u)
               PROVE  entry = u /\ content[u] = Whole(u)
    BY DEF AckedStays
  <2>1. Clean(u) /\ Left(u) /\ content[u] \in Seq(BlockOrHole)
    BY DEF Clean, IInv, Paths, Typed, Types
  <2>2. entry = u /\ Len(content[u]) = Blocks /\ Prefix(content[u], u)
    BY <2>1 DEF Left
  <2> QED
    BY <2>1, <2>2, AllOfIt
<1> QED
  BY <1>1, Invariance, PTL

(* A download of a whole file that nobody disturbed sends just that file,  *)
(* and its second fopen finds one, if the path was not unlinked since the  *)
(* first.                                                                  *)
THEOREM DownloadsAreFaithful == Spec => []DownloadFaithful
<1>1. IInv => DownloadFaithful
  <2> SUFFICES ASSUME IInv, NEW w \in Workers \ moved
               PROVE  /\ pc[w] = "sent" /\ id[w] \notin overlapped \cup spoilt /\ size[w] = Blocks
                         => got[w] = Whole(id[w])
                      /\ pc[w] = "reopen" => entry # None
    BY DEF DownloadFaithful
  <2>1. Reading(w) /\ Types
    BY DEF IInv, Paths, Typed
  <2>2. pc[w] = "reopen" => entry # None
    BY <2>1 DEF Reading
  <2>3. ASSUME pc[w] = "sent", id[w] \notin overlapped \cup spoilt, size[w] = Blocks
        PROVE  got[w] = Whole(id[w])
    <3>1. Clean(id[w]) /\ id[w] \in Uploads /\ got[w] \in Seq(BlockOrHole)
      BY <2>1, <2>3 DEF Clean, Types, Reading
    <3>2. Len(got[w]) = Blocks /\ Prefix(got[w], id[w])
      BY <2>1, <2>3, <3>1 DEF Reading
    <3> QED
      BY <3>1, <3>2, AllOfIt
  <2> QED
    BY <2>2, <2>3
<1> QED
  BY <1>1, Invariance, PTL
=============================================================================
