-------------------------- MODULE CounterArithmetic ---------------------------
(***************************************************************************)
(* Facts about the remainder that the proofs about the firmware's rings    *)
(* rest on: a counter of fixed width indexes a ring whose size divides it. *)
(***************************************************************************)
EXTENDS Integers, TLAPS

(* A number written as a multiple of d and a rest has that rest.           *)
LEMMA ModUnique ==
  ASSUME NEW d \in Nat \ {0}, NEW q \in Int, NEW r \in 0 .. d - 1
  PROVE  (d * q + r) % d = r
OBVIOUS

(* A multiple of M leaves no remainder.                                    *)
LEMMA ModMultiple ==
  ASSUME NEW d \in Nat \ {0}, NEW q \in Int
  PROVE  (d * q) % d = 0
OBVIOUS

(* Every number is so written.                                             *)
LEMMA DivMod ==
  ASSUME NEW d \in Nat \ {0}, NEW n \in Int
  PROVE  /\ n \div d \in Int
         /\ n % d \in 0 .. d - 1
         /\ n = d * (n \div d) + (n % d)
OBVIOUS

(* Adding a multiple of d changes no remainder: a counter that wraps keeps *)
(* its slot.                                                               *)
LEMMA ModShift ==
  ASSUME NEW d \in Nat \ {0}, NEW x \in Int, NEW m \in Int, m % d = 0
  PROVE  (x + m) % d = x % d
<1> DEFINE a == x \div d
           b == m \div d
           r == x % d
<1>1. x = d * a + r /\ r \in 0 .. d - 1 /\ a \in Int
  BY DivMod
<1>2. m = d * b /\ b \in Int
  BY DivMod
<1> HIDE DEF a, b, r
<1>3. x + m = d * (a + b) + r
  BY <1>1, <1>2, SMT
<1>4. (d * (a + b) + r) % d = r
  BY <1>1, <1>2, ModUnique
<1>5. (x + m) % d = r
  BY <1>3, <1>4
<1> QED BY <1>5 DEF r

(* Equal remainders stay equal when the same is added to both.             *)
LEMMA ModCongruent ==
  ASSUME NEW d \in Nat \ {0}, NEW x \in Int, NEW y \in Int, NEW j \in Int,
         x % d = y % d
  PROVE  (x + j) % d = (y + j) % d
<1> DEFINE a == x \div d
           b == y \div d
           r == y % d
<1>1. x = d * a + r /\ a \in Int /\ r \in 0 .. d - 1
  BY DivMod
<1>2. y = d * b + r /\ b \in Int
  BY DivMod
<1> HIDE DEF a, b, r
<1> DEFINE k == a - b
<1>3. x + j = (y + j) + d * (a - b) /\ k \in Int
  BY <1>1, <1>2, SMT
<1> HIDE DEF k
<1>4. (d * k + 0) % d = 0
  BY <1>3, ModUnique
<1>5. d * k \in Int /\ (d * k) % d = 0
  BY <1>3, <1>4
<1>6. ((y + j) + d * k) % d = (y + j) % d
  BY <1>5, ModShift
<1> QED BY <1>3, <1>6 DEF k

(* Numbers less than d apart have different remainders: a ring's slots are *)
(* distinct over one lap.                                                  *)
LEMMA ModApart ==
  ASSUME NEW d \in Nat \ {0}, NEW x \in Int, NEW j \in 1 .. d - 1
  PROVE  (x + j) % d # x % d
<1> DEFINE a == x \div d
           r == x % d
<1>1. x = d * a + r /\ r \in 0 .. d - 1 /\ a \in Int
  BY DivMod
<1> HIDE DEF a, r
<1>2. CASE r + j < d
  <2>1. (d * a + (r + j)) % d = r + j
    BY <1>1, <1>2, ModUnique
  <2>2. x + j = d * a + (r + j)
    BY <1>1
  <2> QED BY <1>1, <2>1, <2>2 DEF r
<1>3. CASE r + j >= d
  <2>1. r + j - d \in 0 .. d - 1 /\ a + 1 \in Int
    BY <1>1, <1>3
  <2>2. (d * (a + 1) + (r + j - d)) % d = r + j - d
    BY <2>1, ModUnique
  <2>3. x + j = d * (a + 1) + (r + j - d)
    BY <1>1, SMT
  <2> QED BY <1>1, <2>2, <2>3 DEF r
<1> QED BY <1>1, <1>2, <1>3

(* The remainder of a number less than d away from zero: what subtracting  *)
(* two counters of fixed width gives.                                      *)
LEMMA ModCases ==
  ASSUME NEW d \in Nat \ {0}, NEW n \in Int, n > -d, n < d
  PROVE  n % d = IF n >= 0 THEN n ELSE n + d
<1>1. CASE n >= 0
  <2>1. (d * 0 + n) % d = n
    BY <1>1, ModUnique
  <2> QED BY <1>1, <2>1
<1>2. CASE n < 0
  <2>1. (d * (-1) + (n + d)) % d = n + d
    BY <1>2, ModUnique
  <2> QED BY <1>2, <2>1
<1> QED BY <1>1, <1>2

-----------------------------------------------------------------------------
(* Counters that wrap at m, and the slots of a ring of d that they index.  *)
(* The next value of a counter, case by case.                              *)
LEMMA NextCount ==
  ASSUME NEW m \in Nat, m > 1, NEW c \in 0 .. m - 1
  PROVE  /\ (c + 1) % m = IF c + 1 = m THEN 0 ELSE c + 1
         /\ (c + 1) % m \in 0 .. m - 1
<1>1. CASE c + 1 = m
  <2>1. (m * 1 + 0) % m = 0
    BY ModUnique
  <2> QED BY <1>1, <2>1
<1>2. CASE c + 1 # m
  <2>1. (m * 0 + (c + 1)) % m = c + 1
    BY <1>2, ModUnique
  <2>2. (c + 1) % m = c + 1
    BY <2>1
  <2> QED BY <1>2, <2>2
<1> QED BY <1>1, <1>2

(* The distance of two counters.                                           *)
LEMMA CountDistance ==
  ASSUME NEW m \in Nat, m > 1, NEW h \in 0 .. m - 1, NEW t \in 0 .. m - 1
  PROVE  /\ (h - t) % m = IF h >= t THEN h - t ELSE h - t + m
         /\ (h - t) % m \in 0 .. m - 1
<1> DEFINE n == h - t
<1>1. m \in Nat \ {0} /\ n \in Int /\ n > -m /\ n < m
  OBVIOUS
<1>2. n % m = IF n >= 0 THEN n ELSE n + m
  BY <1>1, ModCases
<1> QED BY <1>1, <1>2

(* The head advances: the distance grows by one, short of a full turn.     *)
LEMMA CountHead ==
  ASSUME NEW m \in Nat, m > 1, NEW h \in 0 .. m - 1, NEW t \in 0 .. m - 1,
         (h - t) % m < m - 1
  PROVE  (((h + 1) % m) - t) % m = ((h - t) % m) + 1
<1> DEFINE n == (h + 1) % m
<1>1. n = (IF h + 1 = m THEN 0 ELSE h + 1) /\ n \in 0 .. m - 1
  BY NextCount
<1> HIDE DEF n
<1>2. (n - t) % m = IF n >= t THEN n - t ELSE n - t + m
  BY <1>1, CountDistance
<1>3. (h - t) % m = IF h >= t THEN h - t ELSE h - t + m
  BY CountDistance
<1>4. (n - t) % m = ((h - t) % m) + 1
  BY <1>1, <1>2, <1>3
<1> QED BY <1>4 DEF n

(* The tail advances: the distance shrinks by one.                         *)
LEMMA CountTail ==
  ASSUME NEW m \in Nat, m > 1, NEW h \in 0 .. m - 1, NEW t \in 0 .. m - 1, t # h
  PROVE  (h - ((t + 1) % m)) % m = ((h - t) % m) - 1
<1> DEFINE n == (t + 1) % m
<1>1. n = (IF t + 1 = m THEN 0 ELSE t + 1) /\ n \in 0 .. m - 1
  BY NextCount
<1> HIDE DEF n
<1>2. (h - n) % m = IF h >= n THEN h - n ELSE h - n + m
  BY <1>1, CountDistance
<1>3. (h - t) % m = IF h >= t THEN h - t ELSE h - t + m
  BY CountDistance
<1>4. (h - n) % m = ((h - t) % m) - 1
  BY <1>1, <1>2, <1>3
<1> QED BY <1>4 DEF n

(* Whether a counter has wrapped does not show in the slots after it.      *)
LEMMA CountSlot ==
  ASSUME NEW d \in Nat \ {0}, NEW m \in Nat, m > 1, m % d = 0, NEW c \in 0 .. m - 1, NEW j \in Int
  PROVE  (((c + 1) % m) + j) % d = (c + 1 + j) % d
<1>1. CASE c + 1 = m
  <2>1. (j + m) % d = j % d
    <3>1. j \in Int /\ m \in Int
      OBVIOUS
    <3> QED BY <3>1, ModShift
  <2>2. (c + 1) % m = 0
    BY <1>1, NextCount
  <2>3. c + 1 + j = j + m /\ 0 + j = j
    BY <1>1
  <2> QED BY <2>1, <2>2, <2>3
<1>2. CASE c + 1 # m
  <2>1. (c + 1) % m = c + 1
    BY <1>2, NextCount
  <2> QED BY <2>1
<1> QED BY <1>1, <1>2

(* The slot as far ahead of the tail as the head is is the head's.         *)
LEMMA HeadSlot ==
  ASSUME NEW d \in Nat \ {0}, NEW m \in Nat, m > 1, m % d = 0, NEW h \in 0 .. m - 1,
         NEW t \in 0 .. m - 1
  PROVE  (t + ((h - t) % m)) % d = h % d
<1>1. (h - t) % m = IF h >= t THEN h - t ELSE h - t + m
  BY CountDistance
<1>2. CASE h >= t
  <2>1. t + ((h - t) % m) = h
    BY <1>1, <1>2
  <2> QED BY <2>1
<1>3. CASE h < t
  <2>1. t + ((h - t) % m) = h + m
    BY <1>1, <1>3
  <2>2. (h + m) % d = h % d
    <3>1. h \in Int /\ m \in Int
      OBVIOUS
    <3> QED BY <3>1, ModShift
  <2> QED BY <2>1, <2>2
<1> QED BY <1>2, <1>3

(* Rounding up to a multiple of a: the least one that is not less than n.  *)
LEMMA RoundUpFacts ==
  ASSUME NEW a \in Nat \ {0}, NEW n \in Nat
  PROVE  /\ a * ((n + a - 1) \div a) \in Nat
         /\ a * ((n + a - 1) \div a) >= n
         /\ a * ((n + a - 1) \div a) % a = 0
<1> DEFINE d == (n + a - 1) \div a
           r == (n + a - 1) % a
<1>1. /\ d \in Int /\ r \in 0 .. a - 1
      /\ n + a - 1 = a * d + r
  BY DivMod
<1>2. a * ((n + a - 1) \div a) = a * d
  OBVIOUS
<1> HIDE DEF d, r
<1>3. a * d \in Int
  BY <1>1
<1>4. (a * d) % a = 0
  BY <1>1, ModMultiple
<1> QED BY <1>1, <1>2, <1>3, <1>4

(* ... and the least such multiple.                                        *)
LEMMA RoundUpLeast ==
  ASSUME NEW a \in Nat \ {0}, NEW n \in Nat, NEW k \in Nat, k % a = 0, k >= n
  PROVE  k >= a * ((n + a - 1) \div a)
<1> DEFINE d == (n + a - 1) \div a
           r == (n + a - 1) % a
           q == k \div a
           e == d - 1 - q
<1>1. /\ d \in Int /\ r \in 0 .. a - 1
      /\ n + a - 1 = a * d + r
  <2>1. a \in Nat \ {0} /\ n + a - 1 \in Int
    OBVIOUS
  <2> QED BY ONLY <2>1, DivMod
<1>2. q \in Int /\ k = a * q
  BY DivMod
<1>3. a * ((n + a - 1) \div a) = a * d
  OBVIOUS
<1>4. a * d = a * q + a * e + a
  BY <1>1, <1>2, SMT DEF e
<1> HIDE DEF d, r, q
<1>5. CASE e >= 0
  <2>1. e \in Nat
    BY <1>1, <1>2, <1>5
  <2> HIDE DEF e
  <2>2. a * e \in Nat
    BY <2>1
  <2>3. a * d \in Int /\ a * q \in Int
    BY <1>1, <1>2
  <2> QED BY <1>1, <1>2, <1>4, <2>2, <2>3
<1>6. CASE e < 0
  <2> DEFINE f == -1 - e
  <2>1. f \in Nat
    BY <1>1, <1>2, <1>6
  <2>2. a * q = a * d + a * f
    BY <1>1, <1>2, SMT
  <2> HIDE DEF f
  <2>3. a * f \in Nat /\ a * d \in Int
    BY <1>1, <2>1
  <2> QED BY <1>2, <1>3, <2>2, <2>3
<1> QED BY <1>1, <1>2, <1>5, <1>6

(* Two numbers with the same remainder that are less than d apart from the *)
(* same end of a range of d numbers are the same.                          *)
LEMMA ModInRange ==
  ASSUME NEW d \in Nat \ {0}, NEW x \in 0 .. d - 1, NEW y \in 0 .. d - 1, NEW q \in Int,
         x = y + d * q
  PROVE  x = y
<1>1. x % d = y
  <2>1. (d * q + y) % d = y
    BY ModUnique
  <2> QED BY <2>1
<1>2. x % d = x
  <2>1. (d * 0 + x) % d = x
    BY ModUnique
  <2> QED BY <2>1
<1> QED BY <1>1, <1>2

(* The signed number that w bits stand for, where d is 2^w.                *)
Signed(n, d) == LET r == n % d IN IF r < d \div 2 THEN r ELSE r - d

(* It is n but for a multiple of d, and in the range of a signed number.   *)
LEMMA SignedFacts ==
  ASSUME NEW d \in Nat \ {0}, NEW n \in Int, d % 2 = 0
  PROVE  /\ Signed(n, d) \in -(d \div 2) .. (d \div 2) - 1
         /\ \E q \in Int : Signed(n, d) = n + d * q
<1>1. /\ n \div d \in Int /\ n % d \in 0 .. d - 1
      /\ n = d * (n \div d) + (n % d)
  BY DivMod
<1>2. d = 2 * (d \div 2) /\ d \div 2 \in Nat
  OBVIOUS
<1>3. CASE n % d < d \div 2
  <2>1. Signed(n, d) = n % d
    BY <1>3 DEF Signed
  <2>2. n % d = n + d * (-(n \div d)) /\ -(n \div d) \in Int
    BY <1>1
  <2>3. n % d \in -(d \div 2) .. (d \div 2) - 1
    BY <1>1, <1>2, <1>3
  <2> QED BY ONLY <2>1, <2>2, <2>3
<1>4. CASE n % d >= d \div 2
  <2>1. Signed(n, d) = (n % d) - d
    BY <1>1, <1>2, <1>4 DEF Signed
  <2>2. (n % d) - d = n + d * (-(n \div d) - 1) /\ -(n \div d) - 1 \in Int
    BY <1>1
  <2>3. (n % d) - d \in -(d \div 2) .. (d \div 2) - 1
    BY <1>1, <1>2, <1>4
  <2> QED BY ONLY <2>1, <2>2, <2>3
<1> QED BY <1>1, <1>2, <1>3, <1>4

(* A number in that range stands for itself.                               *)
LEMMA SignedSame ==
  ASSUME NEW d \in Nat \ {0}, NEW n \in 0 .. (d \div 2) - 1
  PROVE  Signed(n, d) = n
<1>1. n % d = n
  BY ModCases
<1> QED BY <1>1 DEF Signed

(* The sum of h and an unsigned s, both taken as signed numbers: it wraps  *)
(* where it leaves the range, and where it does not come out below h it is *)
(* the sum.                                                                *)
LEMMA SignedSum ==
  ASSUME NEW d \in Nat \ {0}, d % 2 = 0, NEW h \in Nat, NEW s \in 0 .. d - 1
  PROVE  LET p == Signed(h + Signed(s, d), d) IN
         /\ p \in -(d \div 2) .. (d \div 2) - 1
         /\ h + s < d \div 2 => p = h + s
         /\ p >= h => p = h + s
<1> DEFINE t == Signed(s, d)
           p == Signed(h + t, d)
<1>1. /\ t \in Int
      /\ \E q \in Int : t = s + d * q
  <2>1. s \in Int /\ -(d \div 2) .. (d \div 2) - 1 \subseteq Int
    OBVIOUS
  <2> QED BY <2>1, SignedFacts, Zenon DEF t
<1>2. /\ p \in -(d \div 2) .. (d \div 2) - 1
      /\ \E q \in Int : p = (h + t) + d * q
  <2>1. h + t \in Int
    BY <1>1
  <2> QED BY <2>1, SignedFacts, Zenon DEF p
<1>3. ASSUME h + s < d \div 2
      PROVE  p = h + s
  <2>1. t = s
    BY <1>3, SignedSame
  <2>2. h + s \in 0 .. (d \div 2) - 1
    BY <1>3
  <2> QED BY <2>1, <2>2, SignedSame
<1> HIDE DEF t, p
<1>4. ASSUME p >= h
      PROVE  p = h + s
  <2>1. PICK a \in Int : t = s + d * a
    BY <1>1
  <2>2. PICK b \in Int : p = (h + t) + d * b
    BY <1>2
  <2>3. p - h = s + d * (a + b)
    BY <1>1, <1>2, <2>1, <2>2
  <2>4. p - h \in 0 .. d - 1
    BY <1>2, <1>4
  <2>5. p - h = s
    BY <2>3, <2>4, ModInRange
  <2> QED BY <1>2, <2>5
<1> QED BY <1>2, <1>3, <1>4 DEF p, t

===============================================================================
