-------------------------- MODULE CurveCalls_proof --------------------------
(***************************************************************************)
(* For scalars of any number of nibbles, the digits a multiple is made     *)
(* from are exact.                                                         *)
(***************************************************************************)
EXTENDS CurveCalls, FiniteSetTheorems, WellFoundedInduction, TLAPS

-----------------------------------------------------------------------------
(* Numbers.                                                                *)

(* DivMod: a number from what its division gives.                          *)
LEMMA DivMod ==
  ASSUME NEW a \in Int, NEW b \in Int, b > 0
  PROVE  /\ a = b * (a \div b) + (a % b) /\ 0 <= a % b /\ a % b < b
         /\ a \div b \in Int /\ a % b \in Int
OBVIOUS

(* Quotient: what a division gives.                                        *)
LEMMA Quotient ==
  ASSUME NEW a \in Int, NEW b \in Int, b > 0,
         NEW d \in Int, NEW r \in Int, 0 <= r, r < b, a = b * d + r
  PROVE  a \div b = d /\ a % b = r
OBVIOUS

(* Upwards: a set that holds 0, and with a number the next one, holds all  *)
(* numbers.                                                                *)
LEMMA Upwards ==
  ASSUME NEW P, 0 \in P, \A n \in Nat : n \in P => n + 1 \in P
  PROVE  Nat \subseteq P
<1> SUFFICES ASSUME NEW n \in Nat, n \notin P PROVE FALSE
  OBVIOUS
<1> DEFINE TT == {1 .. x : x \in (1 .. n) \ P}
<1>1. IsWellFoundedOn(StrictSubsetOrdering(1 .. n), FiniteSubsetsOf(1 .. n))
  BY FS_StrictSubsetOrderingWellFounded
<1>2. TT \subseteq FiniteSubsetsOf(1 .. n) /\ TT # {}
  <2>1. ASSUME NEW x \in (1 .. n) \ P PROVE 1 .. x \in FiniteSubsetsOf(1 .. n)
    BY FS_Interval DEF FiniteSubsetsOf
  <2>2. n \in (1 .. n) \ P
    OBVIOUS
  <2> QED BY <2>1, <2>2
<1>3. PICK z \in TT : \A w \in TT : <<w, z>> \notin StrictSubsetOrdering(1 .. n)
  <2> HIDE DEF TT
  <2> QED BY <1>1, <1>2, WFMin
<1>4. PICK x \in (1 .. n) \ P : z = 1 .. x
  OBVIOUS
<1>5. x - 1 \in Nat /\ x - 1 \notin P /\ x - 1 \in (1 .. n) \ P
  <2>1. x - 1 \in Nat /\ x - 1 + 1 = x
    BY <1>4
  <2>2. x - 1 \notin P
    BY <1>4, <2>1
  <2> QED BY <1>4, <2>1, <2>2
<1>6. 1 .. x - 1 \in TT
  BY <1>5
<1>7. <<1 .. x - 1, 1 .. x>> \in StrictSubsetOrdering(1 .. n)
  <2>1. 1 .. x - 1 \subseteq 1 .. x /\ x \in 1 .. x /\ x \notin 1 .. x - 1
    BY <1>4
  <2>2. 1 .. x - 1 \subseteq 1 .. n /\ 1 .. x \subseteq 1 .. n
    BY <1>4
  <2> QED BY <2>1, <2>2 DEF StrictSubsetOrdering
<1> QED BY <1>3, <1>4, <1>6, <1>7

(* Iterated: what is found by steps, each from the one before.             *)
Steps(h, n, v, F) == h[0] = v /\ \A i \in 1 .. n : h[i] = F[i][h[i - 1]]

LEMMA Iterated ==
  ASSUME NEW n \in Nat, NEW V, NEW v \in V, NEW F \in [1 .. n -> [V -> V]]
  PROVE  \E h \in [0 .. n -> V] : Steps(h, n, v, F)
<1> DEFINE P == {k \in Nat : k <= n => \E h \in [0 .. k -> V] : Steps(h, k, v, F)}
<1>1. 0 \in P
  <2> DEFINE h == [i \in 0 .. 0 |-> v]
  <2>1. h \in [0 .. 0 -> V] /\ Steps(h, 0, v, F)
    BY DEF Steps
  <2> QED BY <2>1
<1>2. ASSUME NEW k \in Nat, k \in P PROVE k + 1 \in P
  <2> SUFFICES ASSUME k + 1 <= n PROVE \E h \in [0 .. k + 1 -> V] : Steps(h, k + 1, v, F)
    OBVIOUS
  <2>1. PICK h \in [0 .. k -> V] : Steps(h, k, v, F)
    BY <1>2
  <2> DEFINE g == [i \in 0 .. k + 1 |-> IF i = k + 1 THEN F[k + 1][h[k]] ELSE h[i]]
  <2>2. k + 1 \in 1 .. n /\ F[k + 1] \in [V -> V] /\ h[k] \in V
    OBVIOUS
  <2>3. g \in [0 .. k + 1 -> V]
    BY <2>2
  <2>4. g[0] = v
    BY <2>1 DEF Steps
  <2>5. ASSUME NEW i \in 1 .. k + 1 PROVE g[i] = F[i][g[i - 1]]
    <3>1. g[i - 1] = h[i - 1]
      OBVIOUS
    <3>2. i # k + 1 => h[i] = F[i][h[i - 1]]
      BY <2>1 DEF Steps
    <3>3. CASE i = k + 1
      <4>1. g[i] = F[i][h[k]] /\ i - 1 = k
        BY <3>3
      <4> QED BY <3>1, <4>1
    <3>4. CASE i # k + 1
      <4>1. g[i] = h[i]
        BY <3>4
      <4> QED BY <3>1, <3>2, <3>4, <4>1
    <3> QED BY <3>3, <3>4
  <2> HIDE DEF g
  <2> QED BY <2>3, <2>4, <2>5 DEF Steps
<1>3. Nat \subseteq P
  <2> HIDE DEF P
  <2> QED BY <1>1, <1>2, Upwards
<1> QED BY <1>3

(* PowerStep: the subsets of n + 1 numbers are twice as many as those of n.*)
LEMMA PowerStep ==
  ASSUME NEW n \in Nat
  PROVE  2 ^ n \in Nat /\ 2 ^ (n + 1) = 2 * 2 ^ n
<1> DEFINE S == 1 .. n
           x == n + 1
           Smaller == SUBSET S
           Larger == {T \union {x} : T \in Smaller}
<1>1. /\ IsFiniteSet(S) /\ Cardinality(S) = n
      /\ IsFiniteSet(1 .. x) /\ Cardinality(1 .. x) = n + 1
  BY FS_Interval
<1>2. 1 .. x = S \union {x} /\ x \notin S
  OBVIOUS
<1>3. /\ IsFiniteSet(Smaller) /\ Cardinality(Smaller) = 2 ^ n
      /\ IsFiniteSet(SUBSET (1 .. x)) /\ Cardinality(SUBSET (1 .. x)) = 2 ^ (n + 1)
  BY <1>1, FS_SUBSET
<1> HIDE DEF x, S
<1>4. SUBSET (1 .. x) = Smaller \union Larger
  <2>1. SUBSET (1 .. x) \subseteq Smaller \union Larger
    <3>1. ASSUME NEW T \in SUBSET (1 .. x), x \in T PROVE T \in Larger
      <4>1. T \ {x} \in Smaller /\ T = (T \ {x}) \union {x}
        BY <1>2, <3>1
      <4> QED BY <4>1
    <3>2. ASSUME NEW T \in SUBSET (1 .. x), x \notin T PROVE T \in Smaller
      BY <1>2, <3>2
    <3> QED BY <3>1, <3>2
  <2>2. Smaller \union Larger \subseteq SUBSET (1 .. x)
    BY <1>2
  <2> QED BY <2>1, <2>2
<1>5. Smaller \cap Larger = {}
  BY <1>2
<1>6. ExistsBijection(Smaller, Larger)
  <2> DEFINE f == [T \in Smaller |-> T \union {x}]
  <2>1. f \in [Smaller -> Larger]
    OBVIOUS
  <2>2. \A T, U \in Smaller : f[T] = f[U] => T = U
    BY <1>2
  <2>3. \A U \in Larger : \E T \in Smaller : f[T] = U
    OBVIOUS
  <2> HIDE DEF f, Smaller, Larger
  <2>4. f \in Bijection(Smaller, Larger)
    BY <2>1, <2>2, <2>3 DEF Bijection, Injection, Surjection, IsInjective
  <2> QED BY <2>4 DEF ExistsBijection
<1> HIDE DEF Smaller, Larger
<1>7. IsFiniteSet(Larger) /\ Cardinality(Larger) = Cardinality(Smaller)
  BY <1>3, <1>6, FS_Bijection, FS_SameCardinalityBij, FS_CardinalityType
<1>8. Cardinality(Smaller \union Larger) = Cardinality(Smaller) + Cardinality(Larger) - Cardinality(Smaller \cap Larger)
  BY <1>3, <1>7, FS_Union
<1>9. Cardinality(Smaller \cap Larger) = 0 /\ Cardinality(Smaller) \in Nat
  BY <1>3, <1>5, FS_EmptySet, FS_CardinalityType
<1> DEFINE c == Cardinality(Smaller)
<1>10. 2 ^ n = c /\ c \in Nat
  BY <1>3, <1>9
<1>11. 2 ^ (n + 1) = Cardinality(Smaller \union Larger)
  BY <1>3, <1>4
<1>12. Cardinality(Smaller \union Larger) = c + c - 0
  BY <1>7, <1>8, <1>9
<1> HIDE DEF c
<1>13. c + c - 0 = 2 * c
  BY <1>10
<1> QED BY <1>10, <1>11, <1>12, <1>13

(* Powers: those of two, and the ones the code shifts by.                  *)
LEMMA Powers ==
  /\ \A n \in Nat : 2 ^ n \in Nat /\ 2 ^ n > 0 /\ 2 ^ (n + 1) = 2 * 2 ^ n
  /\ 2 ^ 0 = 1 /\ 2 ^ 1 = 2 /\ 2 ^ 2 = 4 /\ 2 ^ 3 = 8 /\ 2 ^ 4 = 16 /\ 2 ^ 5 = 32 /\ 2 ^ 6 = 64
  /\ \A n \in Nat : 2 ^ (n + 4) = 16 * 2 ^ n /\ 2 ^ (n + 8) = 256 * 2 ^ n
<1>1. 2 ^ 0 = 1
  <2>1. IsFiniteSet({}) /\ Cardinality({}) = 0
    BY FS_EmptySet
  <2>2. Cardinality(SUBSET {}) = 2 ^ 0
    BY <2>1, FS_SUBSET
  <2>3. SUBSET {} = {{}} /\ Cardinality({{}}) = 1
    BY FS_Singleton
  <2> QED BY <2>2, <2>3
<1>2. ASSUME NEW n \in Nat PROVE 2 ^ n \in Nat /\ 2 ^ (n + 1) = 2 * 2 ^ n
  BY PowerStep
<1>3. \A n \in Nat : 2 ^ n > 0
  <2> DEFINE P == {n \in Nat : 2 ^ n > 0}
  <2>1. 0 \in P
    BY <1>1
  <2>2. ASSUME NEW n \in Nat, n \in P PROVE n + 1 \in P
    BY <1>2, <2>2
  <2>3. Nat \subseteq P
    <3> HIDE DEF P
    <3> QED BY <2>1, <2>2, Upwards
  <2> QED BY <2>3
<1>4. \A n, m \in Nat : m = n + 1 => 2 ^ m = 2 * 2 ^ n
  BY <1>2
<1>5. 2 ^ 1 = 2
  BY <1>1, <1>4
<1>6. 2 ^ 2 = 4
  BY <1>4, <1>5
<1>7. 2 ^ 3 = 8
  BY <1>4, <1>6
<1>8. 2 ^ 4 = 16
  BY <1>4, <1>7
<1>9. 2 ^ 5 = 32
  BY <1>4, <1>8
<1>10. 2 ^ 6 = 64
  BY <1>4, <1>9
<1>11. ASSUME NEW n \in Nat PROVE 2 ^ (n + 4) = 16 * 2 ^ n
  <2>1. 2 ^ (n + 1) = 2 * 2 ^ n /\ 2 ^ n \in Nat
    BY <1>2
  <2>2. 2 ^ (n + 2) = 2 * 2 ^ (n + 1)
    BY <1>4
  <2>3. 2 ^ (n + 3) = 2 * 2 ^ (n + 2)
    BY <1>4
  <2>4. 2 ^ (n + 4) = 2 * 2 ^ (n + 3)
    BY <1>4
  <2> QED BY <2>1, <2>2, <2>3, <2>4
<1>12. ASSUME NEW n \in Nat PROVE 2 ^ (n + 8) = 256 * 2 ^ n
  <2>1. n + 4 \in Nat /\ (n + 4) + 4 = n + 8 /\ 2 ^ n \in Nat
    BY <1>2
  <2>2. 2 ^ ((n + 4) + 4) = 16 * 2 ^ (n + 4)
    BY <1>11, <2>1
  <2> QED BY <1>11, <2>1, <2>2
<1> QED BY <1>1, <1>2, <1>3, <1>5, <1>6, <1>7, <1>8, <1>9, <1>10, <1>11, <1>12

(* DivDiv: dividing twice is dividing by the product.                      *)
LEMMA DivDiv ==
  ASSUME NEW a \in Nat, NEW b \in Nat \ {0}, NEW c \in Nat \ {0}
  PROVE  (a \div b) \div c = a \div (b * c) /\ a \div b \in Nat
<1> DEFINE x == a \div b
           y == x \div c
           r == a % b
           t == x % c
<1>1. a = b * x + r /\ 0 <= r /\ r < b /\ x \in Int /\ r \in Int
  BY DivMod
<1>2. x = c * y + t /\ 0 <= t /\ t < c /\ y \in Int /\ t \in Int
  BY <1>1, DivMod
<1>3. x \in Nat
  <2> HIDE DEF x, r
  <2>1. ASSUME x < 0 PROVE FALSE
    <3>1. b * x <= -b
      BY <1>1, <2>1
    <3> QED BY <1>1, <3>1
  <2> QED BY <1>1, <2>1
<1> HIDE DEF x, y, r, t
<1>4. b * x = b * (c * y) + b * t
  BY <1>2
<1>5. b * (c * y) = (b * c) * y
  BY <1>2
<1>6. 0 <= b * t /\ b * t + b <= b * c /\ b * t \in Int
  <2>1. t + 1 <= c
    BY <1>2
  <2>2. b * (t + 1) <= b * c
    BY <1>2, <2>1
  <2>3. b * (t + 1) = b * t + b
    BY <1>2
  <2> QED BY <1>2, <2>2, <2>3
<1>7. b * c \in Nat /\ b * c > 0
  OBVIOUS
<1>8. a = (b * c) * y + (b * t + r)
  BY <1>1, <1>4, <1>5, <1>6, <1>2, <1>7
<1>9. 0 <= b * t + r /\ b * t + r < b * c /\ b * t + r \in Int
  BY <1>1, <1>6, <1>7
<1>10. a \div (b * c) = y
  BY <1>2, <1>7, <1>8, <1>9, Quotient
<1> QED BY <1>3, <1>10 DEF x, y

-----------------------------------------------------------------------------
(* Bits.                                                                   *)

(* Halves: the first bit is the parity, the others are those of the half.  *)
LEMMA Halves ==
  ASSUME NEW a \in Nat
  PROVE  /\ Bit(a, 0) = a % 2 /\ a \div 2 \in Nat
         /\ a = 2 * (a \div 2) + (a % 2) /\ a % 2 \in {0, 1}
         /\ \A i \in Nat : Bit(a, i + 1) = Bit(a \div 2, i) /\ Bit(a, i) \in {0, 1}
<1>1. a \div 2 \in Nat /\ a = 2 * (a \div 2) + (a % 2) /\ a % 2 \in {0, 1}
  OBVIOUS
<1>2. Bit(a, 0) = a % 2
  <2>1. a \div 1 = a
    OBVIOUS
  <2> QED BY <2>1, Powers DEF Bit
<1>3. ASSUME NEW i \in Nat PROVE Bit(a, i + 1) = Bit(a \div 2, i)
  <2>1. 2 ^ i \in Nat \ {0} /\ 2 ^ (i + 1) = 2 * 2 ^ i /\ 2 \in Nat \ {0}
    BY Powers
  <2>2. (a \div 2) \div 2 ^ i = a \div (2 * 2 ^ i)
    BY <2>1, DivDiv
  <2> QED BY <2>1, <2>2 DEF Bit
<1>4. ASSUME NEW i \in Nat PROVE Bit(a, i) \in {0, 1}
  <2>1. 2 ^ i \in Nat \ {0}
    BY Powers
  <2>2. a \div 2 ^ i \in Nat
    BY <2>1, DivDiv
  <2> QED BY <2>2 DEF Bit
<1> QED BY <1>1, <1>2, <1>3, <1>4

(* Doubled: what a digit and a number make.                                *)
LEMMA Doubled ==
  ASSUME NEW a \in Nat, NEW d \in {0, 1}
  PROVE  (2 * a + d) \div 2 = a /\ (2 * a + d) % 2 = d
OBVIOUS

(* NoBitsAbove: a number has no bits above its size.                       *)
LEMMA NoBitsAbove ==
  ASSUME NEW m \in Nat
  PROVE  \A a \in Nat : a < 2 ^ m => \A i \in Nat : i >= m => Bit(a, i) = 0
<1> DEFINE P == {n \in Nat : \A a \in Nat : a < 2 ^ n => \A i \in Nat : i >= n => Bit(a, i) = 0}
<1>1. 0 \in P
  <2> DEFINE Z == {i \in Nat : Bit(0, i) = 0}
  <2>1. 0 \in Z
    <3>1. 0 \in Nat /\ 0 % 2 = 0
      OBVIOUS
    <3> QED BY <3>1, Halves
  <2>2. ASSUME NEW i \in Nat, i \in Z PROVE i + 1 \in Z
    <3>1. 0 \in Nat /\ 0 \div 2 = 0
      OBVIOUS
    <3> QED BY <2>2, <3>1, Halves
  <2>3. Nat \subseteq Z
    <3> HIDE DEF Z
    <3> QED BY <2>1, <2>2, Upwards
  <2>4. \A a \in Nat : a < 1 => a = 0
    OBVIOUS
  <2> QED BY <2>3, <2>4, Powers
<1>2. ASSUME NEW n \in Nat, n \in P PROVE n + 1 \in P
  <2> SUFFICES ASSUME NEW a \in Nat, a < 2 ^ (n + 1), NEW i \in Nat, i >= n + 1 PROVE Bit(a, i) = 0
    OBVIOUS
  <2>1. a \div 2 \in Nat /\ a = 2 * (a \div 2) + (a % 2) /\ a % 2 \in {0, 1}
    BY Halves
  <2>2. 2 ^ (n + 1) = 2 * 2 ^ n /\ 2 ^ n \in Nat
    BY Powers
  <2>3. a \div 2 < 2 ^ n
    BY <2>1, <2>2
  <2>4. i - 1 \in Nat /\ i - 1 >= n /\ i = (i - 1) + 1
    OBVIOUS
  <2>5. Bit(a \div 2, i - 1) = 0
    BY <1>2, <2>1, <2>3, <2>4
  <2>6. Bit(a, (i - 1) + 1) = Bit(a \div 2, i - 1)
    BY <2>4, Halves
  <2> QED BY <2>4, <2>5, <2>6
<1>3. Nat \subseteq P
  <2> HIDE DEF P
  <2> QED BY <1>1, <1>2, Upwards
<1> QED BY <1>3

(* SomeZero: a number that is not the greatest of its size has a zero.     *)
LEMMA SomeZero ==
  ASSUME NEW m \in Nat
  PROVE  \A a \in Nat : a + 1 < 2 ^ m => \E i \in 0 .. m - 1 : Bit(a, i) = 0
<1> DEFINE P == {n \in Nat : \A a \in Nat : a + 1 < 2 ^ n => \E i \in 0 .. n - 1 : Bit(a, i) = 0}
<1>1. 0 \in P
  <2>1. \A a \in Nat : ~(a + 1 < 1)
    OBVIOUS
  <2> QED BY <2>1, Powers
<1>2. ASSUME NEW n \in Nat, n \in P PROVE n + 1 \in P
  <2> SUFFICES ASSUME NEW a \in Nat, a + 1 < 2 ^ (n + 1) PROVE \E i \in 0 .. n : Bit(a, i) = 0
    OBVIOUS
  <2>1. a \div 2 \in Nat /\ a = 2 * (a \div 2) + (a % 2) /\ a % 2 \in {0, 1} /\ Bit(a, 0) = a % 2
    BY Halves
  <2>2. CASE a % 2 = 0
    <3>1. 0 \in 0 .. n
      OBVIOUS
    <3> QED BY <2>1, <2>2, <3>1
  <2>3. CASE a % 2 = 1
    <3>1. 2 ^ (n + 1) = 2 * 2 ^ n /\ 2 ^ n \in Nat
      BY Powers
    <3>2. a \div 2 + 1 < 2 ^ n
      BY <2>1, <2>3, <3>1
    <3>3. PICK i \in 0 .. n - 1 : Bit(a \div 2, i) = 0
      BY <1>2, <2>1, <3>2
    <3>4. i \in Nat /\ i + 1 \in 0 .. n
      OBVIOUS
    <3>5. Bit(a, i + 1) = 0
      BY <3>3, <3>4, Halves
    <3> QED BY <3>4, <3>5
  <2> QED BY <2>1, <2>2, <2>3
<1>3. Nat \subseteq P
  <2> HIDE DEF P
  <2> QED BY <1>1, <1>2, Upwards
<1> QED BY <1>3

(* Carried: adding one makes zeros of the ones below the first zero, a one *)
(* of that zero, and leaves the bits above it.                             *)
Ones(a, n) == (\A j \in 0 .. n - 1 : Bit(a, j) = 1) /\ Bit(a, n) = 0

LEMMA Carried ==
  ASSUME NEW n \in Nat
  PROVE  \A a \in Nat : Ones(a, n) =>
           \A j \in Nat : Bit(a + 1, j) = IF j < n THEN 0 ELSE IF j = n THEN 1 ELSE Bit(a, j)
<1> DEFINE Next1(a, m) == \A j \in Nat : Bit(a + 1, j) = IF j < m THEN 0 ELSE IF j = m THEN 1 ELSE Bit(a, j)
           P == {m \in Nat : \A a \in Nat : Ones(a, m) => Next1(a, m)}
<1>1. 0 \in P
  <2> SUFFICES ASSUME NEW a \in Nat, Ones(a, 0), NEW j \in Nat
               PROVE  Bit(a + 1, j) = IF j < 0 THEN 0 ELSE IF j = 0 THEN 1 ELSE Bit(a, j)
    OBVIOUS
  <2>1. a % 2 = 0
    BY Halves DEF Ones
  <2>2. a = 2 * (a \div 2) + 0 /\ a \div 2 \in Nat /\ a + 1 \in Nat
    BY <2>1, Halves
  <2>3. (a + 1) \div 2 = a \div 2 /\ (a + 1) % 2 = 1
    BY <2>2
  <2>4. CASE j = 0
    BY <2>2, <2>3, <2>4, Halves
  <2>5. CASE j # 0
    <3>1. j - 1 \in Nat /\ j = (j - 1) + 1
      BY <2>5
    <3>2. Bit(a + 1, j) = Bit((a + 1) \div 2, j - 1) /\ Bit(a, j) = Bit(a \div 2, j - 1)
      <4>1. \A k \in Nat : Bit(a, k + 1) = Bit(a \div 2, k)
        BY Halves
      <4>2. \A k \in Nat : Bit(a + 1, k + 1) = Bit((a + 1) \div 2, k)
        BY <2>2, Halves
      <4> QED BY <3>1, <4>1, <4>2
    <3> QED BY <2>3, <2>5, <3>2
  <2> QED BY <2>4, <2>5
<1>2. ASSUME NEW m \in Nat, m \in P PROVE m + 1 \in P
  <2> SUFFICES ASSUME NEW a \in Nat, Ones(a, m + 1), NEW j \in Nat
               PROVE  Bit(a + 1, j) = IF j < m + 1 THEN 0 ELSE IF j = m + 1 THEN 1 ELSE Bit(a, j)
    OBVIOUS
  <2> DEFINE h == a \div 2
  <2>1. a % 2 = 1
    <3>1. 0 \in 0 .. (m + 1) - 1
      OBVIOUS
    <3> QED BY <3>1, Halves DEF Ones
  <2>2. a = 2 * h + 1 /\ h \in Nat /\ a + 1 \in Nat
    BY <2>1, Halves
  <2> HIDE DEF h
  <2>3. (a + 1) \div 2 = h + 1 /\ (a + 1) % 2 = 0 /\ a \div 2 = h /\ h + 1 \in Nat
    BY <2>2
  <2>4. \A k \in Nat : Bit(a, k + 1) = Bit(h, k) /\ Bit(a + 1, k + 1) = Bit(h + 1, k)
    <3>1. \A k \in Nat : Bit(a, k + 1) = Bit(a \div 2, k)
      BY Halves
    <3>2. \A k \in Nat : Bit(a + 1, k + 1) = Bit((a + 1) \div 2, k)
      BY <2>2, Halves
    <3> QED BY <2>3, <3>1, <3>2
  <2>5. Ones(h, m)
    <3>1. ASSUME NEW k \in 0 .. m - 1 PROVE Bit(h, k) = 1
      <4>1. k \in Nat /\ k + 1 \in 0 .. (m + 1) - 1
        OBVIOUS
      <4> QED BY <2>4, <4>1 DEF Ones
    <3>2. Bit(h, m) = 0
      BY <2>4 DEF Ones
    <3> QED BY <3>1, <3>2 DEF Ones
  <2>6. Next1(h, m)
    BY <1>2, <2>2, <2>5
  <2>7. CASE j = 0
    BY <2>2, <2>3, <2>7, Halves
  <2>8. CASE j # 0
    <3>1. j - 1 \in Nat /\ j = (j - 1) + 1
      BY <2>8
    <3>2. Bit(a, j) = Bit(h, j - 1) /\ Bit(a + 1, j) = Bit(h + 1, j - 1)
      BY <2>4, <3>1
    <3>3. Bit(h + 1, j - 1) = IF j - 1 < m THEN 0 ELSE IF j - 1 = m THEN 1 ELSE Bit(h, j - 1)
      BY <2>6, <3>1
    <3>4. (j - 1 < m <=> j < m + 1) /\ (j - 1 = m <=> j = m + 1)
      BY <3>1
    <3> QED BY <3>2, <3>3, <3>4
  <2> QED BY <2>7, <2>8
<1>3. Nat \subseteq P
  <2> HIDE DEF P
  <2> QED BY <1>1, <1>2, Upwards
<1> QED BY <1>3

-----------------------------------------------------------------------------
(* Windows.                                                                *)

LEMMA Sizes ==
  ScalarBits \in Nat /\ ScalarBits > 0 /\ Bits = 0 .. ScalarBits - 1
BY NibblesAssumption DEF ScalarBits, Bits

(* Least: a set of numbers that is not empty has a least element.          *)
LEMMA Least ==
  ASSUME NEW S \in SUBSET Nat, S # {}
  PROVE  \E m \in S : \A o \in S : m <= o
<1> SUFFICES ASSUME \A m \in S : \E o \in S : ~(m <= o) PROVE FALSE
  OBVIOUS
<1> DEFINE P == {n \in Nat : \A o \in S : n <= o}
<1>1. 0 \in P
  OBVIOUS
<1>2. ASSUME NEW n \in Nat, n \in P PROVE n + 1 \in P
  <2> SUFFICES ASSUME NEW o \in S, ~(n + 1 <= o) PROVE FALSE
    OBVIOUS
  <2>1. o \in Nat /\ n <= o
    BY <1>2
  <2>2. o = n
    BY <2>1
  <2>3. PICK p \in S : ~(o <= p)
    OBVIOUS
  <2> QED BY <1>2, <2>2, <2>3
<1>3. Nat \subseteq P
  <2> HIDE DEF P
  <2> QED BY <1>1, <1>2, Upwards
<1>4. PICK o \in S : TRUE
  OBVIOUS
<1>5. o + 1 \in P
  BY <1>3
<1> QED BY <1>4, <1>5

(* Propagated: a carry adds one to the number that the bits from k on are. *)
LEMMA Propagated ==
  ASSUME NEW r \in [Bits -> Int], NEW k \in Bits, NEW w \in Nat, w + 1 < 2 ^ (ScalarBits - k),
         \A j \in k .. ScalarBits - 1 : r[j] = Bit(w, j - k)
  PROVE  \A j \in Bits : Propagate(r, k)[j] = IF j < k THEN r[j] ELSE Bit(w + 1, j - k)
<1> DEFINE zeros == {z \in k .. ScalarBits - 1 : r[z] = 0}
           z == IF zeros = {} THEN ScalarBits ELSE CHOOSE m \in zeros : \A o \in zeros : m <= o
<1>1. k \in Nat /\ ScalarBits \in Nat /\ k < ScalarBits /\ ScalarBits - k \in Nat
  BY Sizes
<1>2. zeros # {}
  <2>1. PICK i \in 0 .. (ScalarBits - k) - 1 : Bit(w, i) = 0
    BY <1>1, SomeZero
  <2>2. k + i \in k .. ScalarBits - 1 /\ (k + i) - k = i
    BY <1>1
  <2> QED BY <2>1, <2>2
<1>3. zeros \in SUBSET Nat
  BY <1>1
<1>4. z \in zeros /\ \A o \in zeros : z <= o
  <2>1. \E m \in zeros : \A o \in zeros : m <= o
    <3> HIDE DEF zeros
    <3> QED BY <1>2, <1>3, Least
  <2> HIDE DEF zeros
  <2> QED BY <1>2, <2>1
<1>5. z \in k .. ScalarBits - 1 /\ r[z] = 0 /\ \A o \in k .. ScalarBits - 1 : o < z => r[o] # 0
  <2> HIDE DEF z
  <2>1. z \in k .. ScalarBits - 1 /\ r[z] = 0
    BY <1>4
  <2>2. ASSUME NEW o \in k .. ScalarBits - 1, o < z, r[o] = 0 PROVE FALSE
    <3>1. z <= o
      BY <1>4, <2>2
    <3> QED BY <1>1, <2>1, <2>2, <3>1
  <2> QED BY <2>1, <2>2
<1>6. Propagate(r, k) = [i \in Bits |-> IF i < k \/ i > z THEN r[i] ELSE IF i = z THEN 1 ELSE 0]
  BY DEF Propagate
<1> HIDE DEF z, zeros
<1>7. Ones(w, z - k)
  <2>1. ASSUME NEW j \in 0 .. (z - k) - 1 PROVE Bit(w, j) = 1
    <3>1. k + j \in k .. ScalarBits - 1 /\ k + j < z /\ (k + j) - k = j /\ j \in Nat
      BY <1>1, <1>5
    <3>2. r[k + j] # 0 /\ r[k + j] = Bit(w, j)
      BY <1>5, <3>1
    <3> QED BY <3>1, <3>2, Halves
  <2>2. Bit(w, z - k) = 0
    BY <1>5
  <2> QED BY <2>1, <2>2 DEF Ones
<1>8. z - k \in Nat
  BY <1>1, <1>5
<1>9. \A j \in Nat : Bit(w + 1, j) = IF j < z - k THEN 0 ELSE IF j = z - k THEN 1 ELSE Bit(w, j)
  BY <1>7, <1>8, Carried
<1>10. ASSUME NEW j \in Bits, ~(j < k) PROVE Propagate(r, k)[j] = Bit(w + 1, j - k)
  <2>1. j \in Nat /\ j - k \in Nat /\ j \in k .. ScalarBits - 1 /\ z \in Nat
    BY <1>1, <1>5, <1>10, Sizes
  <2>2. (j < z <=> j - k < z - k) /\ (j = z <=> j - k = z - k)
    BY <1>1, <2>1
  <2>3. Bit(w + 1, j - k) = IF j - k < z - k THEN 0 ELSE IF j - k = z - k THEN 1 ELSE r[j]
    BY <1>9, <2>1
  <2>4. Propagate(r, k)[j] = IF j > z THEN r[j] ELSE IF j = z THEN 1 ELSE 0
    BY <1>6, <1>10
  <2> QED BY <2>1, <2>2, <2>3, <2>4
<1>11. ASSUME NEW j \in Bits, j < k PROVE Propagate(r, k)[j] = r[j]
  BY <1>6, <1>11
<1> QED BY <1>10, <1>11

(* A digit, and the number above it.                                       *)
Carry(u)   == (u \div 16) % 2
DigitOf(u) == IF u % 2 = 0 THEN 0 ELSE (u % 16) - 16 * Carry(u)
Above(u)   == IF u % 2 = 0 THEN u \div 2 ELSE 8 * (u \div 16 + Carry(u))

(* DigitTaken: they are what the number is made of.                        *)
LEMMA DigitTaken ==
  ASSUME NEW u \in Nat
  PROVE  /\ u = DigitOf(u) + 2 * Above(u) /\ Above(u) \in Nat
         /\ DigitOf(u) \in -15 .. 15 /\ (DigitOf(u) # 0 => DigitOf(u) % 2 = 1)
<1>1. u = 16 * (u \div 16) + (u % 16) /\ u \div 16 \in Nat /\ u % 16 \in 0 .. 15
  OBVIOUS
<1>2. Carry(u) \in {0, 1}
  BY <1>1 DEF Carry
<1>3. u = 2 * (u \div 2) + (u % 2) /\ u \div 2 \in Nat /\ u % 2 \in {0, 1}
  OBVIOUS
<1>4. CASE u % 2 = 0
  BY <1>3, <1>4 DEF DigitOf, Above
<1>5. CASE u % 2 = 1
  <2>1. DigitOf(u) = (u % 16) - 16 * Carry(u) /\ Above(u) = 8 * (u \div 16 + Carry(u))
    BY <1>5 DEF DigitOf, Above
  <2>2. u % 16 >= 1
    <3>1. ASSUME u % 16 = 0 PROVE FALSE
      BY <1>1, <1>5, <3>1
    <3> QED BY <1>1, <3>1
  <2>3. DigitOf(u) \in -15 .. 15 /\ u = DigitOf(u) + 2 * Above(u) /\ Above(u) \in Nat
    BY <1>1, <1>2, <2>1, <2>2
  <2>4. DigitOf(u) = 2 * ((u \div 2) - Above(u)) + 1
    BY <1>3, <1>5, <2>3
  <2>5. DigitOf(u) % 2 = 1
    BY <1>3, <2>3, <2>4
  <2> QED BY <2>3, <2>5
<1> QED BY <1>3, <1>4, <1>5

(* HalfAgain: what is at most half of what m bits hold leaves at most half *)
(* of what m - 1 bits hold, and its carry has a place.                     *)
LEMMA HalfAgain ==
  ASSUME NEW m \in Nat, NEW u \in Nat, 2 * u <= 2 ^ (m + 1)
  PROVE  /\ 2 * Above(u) <= 2 ^ m
         /\ u % 2 = 1 /\ Carry(u) = 1 => m >= 4 /\ u \div 16 + 1 < 2 ^ (m - 3)
<1>1. 2 ^ (m + 1) = 2 * 2 ^ m /\ 2 ^ m \in Nat
  BY Powers
<1>2. u <= 2 ^ m
  BY <1>1
<1>3. u = 16 * (u \div 16) + (u % 16) /\ u \div 16 \in Nat /\ u % 16 \in 0 .. 15
  OBVIOUS
<1>4. CASE u % 2 = 0
  <2>1. 2 * (u \div 2) <= u
    OBVIOUS
  <2> QED BY <1>1, <1>2, <1>4, <2>1 DEF Above
<1>5. CASE u % 2 = 1 /\ Carry(u) = 0
  <2>1. 2 * Above(u) = 16 * (u \div 16)
    BY <1>3, <1>5 DEF Above
  <2> QED BY <1>1, <1>2, <1>3, <1>5, <2>1
<1>6. CASE u % 2 = 1 /\ Carry(u) = 1
  <2>1. 2 * Above(u) = 16 * (u \div 16 + 1)
    BY <1>3, <1>6 DEF Above
  <2>2. u \div 16 >= 1
    BY <1>3, <1>6 DEF Carry
  <2>3. u > 16
    <3>1. u % 16 # 0
      BY <1>3, <1>6
    <3> QED BY <1>3, <2>2, <3>1
  <2>4. m >= 4
    <3>1. ASSUME m \in 0 .. 3 PROVE FALSE
      <4>1. m = 0 \/ m = 1 \/ m = 2 \/ m = 3
        BY <3>1
      <4>2. 2 ^ m <= 8
        <5>1. CASE m = 0
          BY <5>1, Powers
        <5>2. CASE m = 1
          BY <5>2, Powers
        <5>3. CASE m = 2
          BY <5>3, Powers
        <5>4. CASE m = 3
          BY <5>4, Powers
        <5> QED BY <4>1, <5>1, <5>2, <5>3, <5>4
      <4> QED BY <1>1, <1>2, <2>3, <4>2
    <3> QED BY <3>1
  <2> DEFINE n == m - 4
             M == 2 ^ n
  <2>5. n \in Nat /\ n + 4 = m /\ n + 1 = m - 3
    BY <2>4
  <2>6. 2 ^ m = 16 * M /\ 2 ^ (m - 3) = 2 * M /\ M \in Nat /\ M > 0
    <3> HIDE DEF n
    <3>1. 2 ^ (n + 4) = 16 * 2 ^ n /\ 2 ^ (n + 1) = 2 * 2 ^ n /\ 2 ^ n \in Nat /\ 2 ^ n > 0
      BY <2>5, Powers
    <3> QED BY <2>5, <3>1
  <2> HIDE DEF n, M
  <2>7. u # 16 * M
    <3>1. (16 * M) % 2 = 0
      BY <2>6
    <3> QED BY <1>6, <3>1
  <2>8. u \div 16 + 1 <= M
    BY <1>2, <1>3, <2>6, <2>7
  <2> QED BY <1>6, <2>1, <2>4, <2>6, <2>8, <1>3
<1>7. u % 2 \in {0, 1} /\ Carry(u) \in {0, 1}
  BY <1>3 DEF Carry
<1> QED BY <1>4, <1>5, <1>6, <1>7

(* A loop that runs, and one that was left.                                *)
Running(r) == [r |-> r, on |-> TRUE]
Broken(r)  == [r |-> r, on |-> FALSE]

(* Loops: their parts.                                                     *)
LEMMA Loops ==
  ASSUME NEW r
  PROVE  /\ Running(r).on /\ Running(r).r = r /\ ~Broken(r).on /\ Broken(r).r = r
<1>1. Running(r).on /\ Running(r).r = r
  BY Zenon DEF Running
<1>2. ~Broken(r).on /\ Broken(r).r = r
  BY Zenon DEF Broken
<1> QED BY <1>1, <1>2

(* What a turn makes of the bits.                                          *)
Added(r, i, k, w) == [r EXCEPT ![i] = r[i] + w, ![k] = 0]
Lessened(r, i, w) == [r EXCEPT ![i] = r[i] - w]

(* Turns: what a turn of the inner loop does while the loop runs.          *)
LEMMA Turns ==
  ASSUME NEW r \in [Bits -> Int], NEW i \in Bits, NEW b \in 1 .. 6
  PROVE  LET w == r[i + b] * 2 ^ b
         IN  /\ i + b >= ScalarBits \/ w = 0 => Turn(Running(r), i, b) = Running(r)
             /\ i + b < ScalarBits /\ w # 0 /\ r[i] + w <= 15 =>
                  Turn(Running(r), i, b) = Running(Added(r, i, i + b, w))
             /\ i + b < ScalarBits /\ w # 0 /\ r[i] + w > 15 /\ r[i] - w >= -15 =>
                  Turn(Running(r), i, b) = Running(Propagate(Lessened(r, i, w), i + b))
             /\ i + b < ScalarBits /\ w # 0 /\ r[i] + w > 15 /\ r[i] - w < -15 =>
                  Turn(Running(r), i, b) = Broken(r)
<1> DEFINE w == r[i + b] * 2 ^ b
           s == Running(r)
           takes == s.on /\ i + b < ScalarBits /\ w # 0
<1>1. s.r = r /\ s.on
  BY Loops
<1>2. Turn(s, i, b) =
        CASE takes /\ r[i] + w <= 15 ->
               Running(Added(r, i, i + b, w))
          [] takes /\ r[i] + w > 15 /\ r[i] - w >= -15 ->
               Running(Propagate(Lessened(r, i, w), i + b))
          [] takes /\ r[i] + w > 15 /\ r[i] - w < -15 -> Broken(r)
          [] ~takes -> s
  <2> HIDE DEF s
  <2> QED BY <1>1, Zenon DEF Turn, Running, Broken, Added, Lessened
<1>4. takes <=> i + b < ScalarBits /\ w # 0
  BY <1>1
<1>5. i + b \in Nat /\ ScalarBits \in Nat /\ r[i] \in Int
  BY Sizes
<1>6. i + b < ScalarBits => w \in Int
  <2>1. i + b < ScalarBits => i + b \in Bits
    BY <1>5, Sizes
  <2>2. 2 ^ b \in Nat
    BY Powers
  <2> QED BY <2>1, <2>2
<1> HIDE DEF w, s, takes
<1>7. i + b >= ScalarBits \/ w = 0 => Turn(s, i, b) = s
  <2> SUFFICES ASSUME i + b >= ScalarBits \/ w = 0 PROVE Turn(s, i, b) = s
    OBVIOUS
  <2>1. ~takes
    BY <1>4, <1>5
  <2> QED BY <1>2, <2>1
<1>8. i + b < ScalarBits /\ w # 0 /\ r[i] + w <= 15 =>
        Turn(s, i, b) = Running(Added(r, i, i + b, w))
  <2> SUFFICES ASSUME i + b < ScalarBits, w # 0, r[i] + w <= 15
               PROVE  Turn(s, i, b) = Running(Added(r, i, i + b, w))
    OBVIOUS
  <2>1. takes /\ ~(r[i] + w > 15)
    BY <1>4, <1>5, <1>6
  <2> QED BY <1>2, <2>1
<1>9. i + b < ScalarBits /\ w # 0 /\ r[i] + w > 15 /\ r[i] - w >= -15 =>
        Turn(s, i, b) = Running(Propagate(Lessened(r, i, w), i + b))
  <2> SUFFICES ASSUME i + b < ScalarBits, w # 0, r[i] + w > 15, r[i] - w >= -15
               PROVE  Turn(s, i, b) = Running(Propagate(Lessened(r, i, w), i + b))
    OBVIOUS
  <2>1. takes /\ ~(r[i] + w <= 15) /\ ~(r[i] - w < -15)
    BY <1>4, <1>5, <1>6
  <2> QED BY <1>2, <2>1
<1>10. i + b < ScalarBits /\ w # 0 /\ r[i] + w > 15 /\ r[i] - w < -15 =>
         Turn(s, i, b) = Broken(r)
  <2> SUFFICES ASSUME i + b < ScalarBits, w # 0, r[i] + w > 15, r[i] - w < -15
               PROVE  Turn(s, i, b) = Broken(r)
    OBVIOUS
  <2>1. takes /\ ~(r[i] + w <= 15) /\ ~(r[i] - w >= -15)
    BY <1>4, <1>5, <1>6
  <2> QED BY <1>2, <2>1
<1> QED BY <1>7, <1>8, <1>9, <1>10 DEF w, s

(* TurnPasses, TurnAdds, TurnCarries, TurnBreaks: the cases by themselves. *)
LEMMA TurnPasses ==
  ASSUME NEW r \in [Bits -> Int], NEW i \in Bits, NEW b \in 1 .. 6,
         i + b >= ScalarBits \/ r[i + b] * 2 ^ b = 0
  PROVE  Turn(Running(r), i, b) = Running(r)
BY Turns

LEMMA TurnAdds ==
  ASSUME NEW r \in [Bits -> Int], NEW i \in Bits, NEW b \in 1 .. 6,
         i + b < ScalarBits, r[i + b] * 2 ^ b # 0, r[i] + r[i + b] * 2 ^ b <= 15
  PROVE  Turn(Running(r), i, b) = Running(Added(r, i, i + b, r[i + b] * 2 ^ b))
BY Turns

LEMMA TurnCarries ==
  ASSUME NEW r \in [Bits -> Int], NEW i \in Bits, NEW b \in 1 .. 6,
         i + b < ScalarBits, r[i + b] * 2 ^ b # 0,
         r[i] + r[i + b] * 2 ^ b > 15, r[i] - r[i + b] * 2 ^ b >= -15
  PROVE  Turn(Running(r), i, b) = Running(Propagate(Lessened(r, i, r[i + b] * 2 ^ b), i + b))
BY Turns

LEMMA TurnBreaks ==
  ASSUME NEW r \in [Bits -> Int], NEW i \in Bits, NEW b \in 1 .. 6,
         i + b < ScalarBits, r[i + b] * 2 ^ b # 0,
         r[i] + r[i + b] * 2 ^ b > 15, r[i] - r[i + b] * 2 ^ b < -15
  PROVE  Turn(Running(r), i, b) = Broken(r)
BY Turns

(* What slide is about to take a digit from at bit i: the bits from there  *)
(* on are an odd number, at most half of what they hold.                   *)
Window(r, i, u) ==
  /\ r \in [Bits -> Int] /\ i \in Bits /\ u \in Nat
  /\ u % 2 = 1 /\ 2 * u <= 2 ^ (ScalarBits - i)
  /\ \A j \in i .. ScalarBits - 1 : r[j] = Bit(u, j - i)

(* InWindow: the bits of the number that are there, and no others.         *)
LEMMA InWindow ==
  ASSUME NEW r, NEW i, NEW u, Window(r, i, u), NEW b \in Nat
  PROVE  /\ i + b < ScalarBits => i + b \in Bits /\ r[i + b] = Bit(u, b)
         /\ i + b >= ScalarBits => Bit(u, b) = 0
         /\ Bit(u, b) \in {0, 1}
<1>1. i \in Nat /\ ScalarBits \in Nat /\ u \in Nat /\ i < ScalarBits
  BY Sizes DEF Window
<1>2. ASSUME i + b < ScalarBits PROVE i + b \in Bits /\ r[i + b] = Bit(u, b)
  <2>1. i + b \in i .. ScalarBits - 1 /\ (i + b) - i = b
    BY <1>1, <1>2
  <2>2. r[i + b] = Bit(u, (i + b) - i)
    BY <2>1 DEF Window
  <2> QED BY <1>1, <1>2, <2>1, <2>2, Sizes
<1>3. ASSUME i + b >= ScalarBits PROVE Bit(u, b) = 0
  <2>1. ScalarBits - i \in Nat /\ b >= ScalarBits - i
    BY <1>1, <1>3
  <2>2. 2 ^ (ScalarBits - i) \in Nat /\ 2 ^ (ScalarBits - i) > 0
    BY <2>1, Powers
  <2>3. u < 2 ^ (ScalarBits - i)
    BY <1>1, <2>2 DEF Window
  <2> QED BY <1>1, <2>1, <2>3, NoBitsAbove
<1> QED BY <1>1, <1>2, <1>3, Halves

(* Taken: bit i has taken in the b bits above it.                          *)
Taken(r, i, u, b) ==
  [j \in Bits |-> IF j = i THEN u % 2 ^ (b + 1) ELSE IF j \in i + 1 .. i + b THEN 0 ELSE r[j]]

(* LowBits: a bit more of a number.                                        *)
LEMMA LowBits ==
  ASSUME NEW u \in Nat, NEW b \in 0 .. 2
  PROVE  /\ u % 2 ^ (b + 2) = (u % 2 ^ (b + 1)) + 2 ^ (b + 1) * Bit(u, b + 1)
         /\ u % 2 ^ (b + 2) \in 0 .. 15 /\ u % 2 ^ (b + 1) \in Nat /\ 2 ^ (b + 1) \in Nat \ {0}
<1>1. CASE b = 0
  <2>1. u % 4 = (u % 2) + 2 * ((u \div 2) % 2)
    OBVIOUS
  <2> QED BY <1>1, <2>1, Powers DEF Bit
<1>2. CASE b = 1
  <2>1. u % 8 = (u % 4) + 4 * ((u \div 4) % 2)
    OBVIOUS
  <2> QED BY <1>2, <2>1, Powers DEF Bit
<1>3. CASE b = 2
  <2>1. u % 16 = (u % 8) + 8 * ((u \div 8) % 2)
    OBVIOUS
  <2> QED BY <1>3, <2>1, Powers DEF Bit
<1> QED BY <1>1, <1>2, <1>3

(* LowTurn: the first three turns take a bit each.                         *)
LEMMA LowTurn ==
  ASSUME NEW r, NEW i, NEW u, Window(r, i, u), NEW b \in 0 .. 2
  PROVE  /\ Turn(Running(Taken(r, i, u, b)), i, b + 1) = Running(Taken(r, i, u, b + 1))
         /\ Taken(r, i, u, b) \in [Bits -> Int]
<1> DEFINE x == Taken(r, i, u, b)
           y == Taken(r, i, u, b + 1)
           c == Bit(u, b + 1)
           p == 2 ^ (b + 1)
           k == i + (b + 1)
           w == x[k] * p
<1>1. r \in [Bits -> Int] /\ i \in Bits /\ i \in Nat /\ u \in Nat /\ ScalarBits \in Nat /\ Bits = 0 .. ScalarBits - 1
  BY Sizes DEF Window
<1>2. u % 2 ^ (b + 2) = (u % p) + p * c /\ u % 2 ^ (b + 2) \in 0 .. 15 /\ u % p \in Nat /\ p \in Nat \ {0}
  BY <1>1, LowBits
<1>3. /\ k < ScalarBits => k \in Bits /\ r[k] = c
      /\ k >= ScalarBits => c = 0
      /\ c \in {0, 1}
  <2>1. b + 1 \in Nat
    OBVIOUS
  <2> QED BY <2>1, InWindow
<1>4. /\ x = [j \in Bits |-> IF j = i THEN u % p ELSE IF j \in i + 1 .. i + b THEN 0 ELSE r[j]]
      /\ y = [j \in Bits |-> IF j = i THEN u % 2 ^ (b + 2) ELSE IF j \in i + 1 .. k THEN 0 ELSE r[j]]
  <2>1. (b + 1) + 1 = b + 2
    OBVIOUS
  <2> QED BY <2>1 DEF Taken
<1> HIDE DEF x, y, c, p
<1>5. x \in [Bits -> Int]
  BY <1>1, <1>2, <1>4
<1>6. k \in Nat /\ k > i + b /\ k # i
  BY <1>1
<1>7. x[i] = u % p /\ (k < ScalarBits => x[k] = c)
  BY <1>1, <1>3, <1>4, <1>6
<1>8. \A j \in Bits : j \in i + 1 .. k <=> j \in i + 1 .. i + b \/ j = k
  BY <1>1
<1>9. b + 1 \in 1 .. 6
  OBVIOUS
<1>10. CASE k >= ScalarBits \/ c = 0
  <2>1. k >= ScalarBits \/ w = 0
    BY <1>2, <1>6, <1>7, <1>10, <1>1
  <2>2. Turn(Running(x), i, b + 1) = Running(x)
    <3> DEFINE d == b + 1
    <3>1. d \in 1 .. 6 /\ (i + d >= ScalarBits \/ x[i + d] * 2 ^ d = 0)
      BY <1>9, <2>1 DEF p
    <3> HIDE DEF d
    <3>2. Turn(Running(x), i, d) = Running(x)
      BY <1>1, <1>5, <3>1, TurnPasses
    <3> QED BY <3>2 DEF d
  <2>3. c = 0 /\ u % 2 ^ (b + 2) = u % p
    BY <1>2, <1>3, <1>10
  <2>4. \A j \in Bits : x[j] = y[j]
    <3> SUFFICES ASSUME NEW j \in Bits PROVE x[j] = y[j]
      OBVIOUS
    <3>1. j = k => r[j] = 0
      BY <1>1, <1>3, <2>3
    <3> QED BY <1>4, <1>8, <2>3, <3>1
  <2>5. x = y
    BY <1>4, <2>4
  <2> QED BY <1>5, <2>2, <2>5 DEF x, y
<1>11. CASE k < ScalarBits /\ c = 1
  <2>1. w = p /\ w # 0 /\ x[i] + w = u % 2 ^ (b + 2) /\ x[i] + w <= 15 /\ k \in Bits
    <3>1. x[k] = 1 /\ k \in Bits
      BY <1>3, <1>7, <1>11
    <3>2. w = p
      BY <1>2, <3>1
    <3>3. p * c = p
      BY <1>2, <1>11
    <3> HIDE DEF w
    <3> QED BY <1>2, <1>7, <3>1, <3>2, <3>3
  <2>2. Turn(Running(x), i, b + 1)
          = Running(Added(x, i, k, w))
    <3> DEFINE d == b + 1
               v == x[i + d] * 2 ^ d
    <3>1. d \in 1 .. 6 /\ v = w /\ i + d = k /\ i + d < ScalarBits
      BY <1>9, <1>11 DEF p
    <3>2. v # 0 /\ x[i] + v <= 15
      BY <2>1, <3>1
    <3> HIDE DEF d
    <3>3. Turn(Running(x), i, d) = Running(Added(x, i, i + d, v))
      BY <1>1, <1>5, <3>1, <3>2, TurnAdds
    <3>4. Turn(Running(x), i, b + 1) = Running(Added(x, i, i + d, v))
      BY <3>3 DEF d
    <3> QED BY <3>1, <3>4
  <2> HIDE DEF w, k
  <2>3. ASSUME NEW j \in Bits PROVE Added(x, i, k, w)[j] = y[j]
    <3>1. CASE j = k
      BY <1>4, <1>5, <1>6, <1>8, <3>1 DEF Added
    <3>2. CASE j = i
      BY <1>4, <1>5, <1>6, <2>1, <3>2 DEF Added
    <3>3. CASE j # i /\ j # k
      BY <1>4, <1>5, <1>8, <3>3 DEF Added
    <3> QED BY <3>1, <3>2, <3>3
  <2>4. Added(x, i, k, w) = y
    BY <1>4, <1>5, <2>3 DEF Added
  <2> QED BY <1>5, <2>2, <2>4 DEF x, y
<1> QED BY <1>1, <1>3, <1>6, <1>10, <1>11

(* Eightfold: the bits of eight times a number, and of its sixteenth.      *)
LEMMA Eightfold ==
  ASSUME NEW v \in Nat
  PROVE  /\ 8 * v \in Nat /\ v \div 16 \in Nat
         /\ \A n \in 0 .. 2 : Bit(8 * v, n) = 0
         /\ \A n \in Nat : n >= 3 => Bit(8 * v, n) = Bit(v, n - 3)
         /\ \A n \in Nat : n >= 4 => Bit(v, n) = Bit(v \div 16, n - 4)
<1>1. ASSUME NEW x \in Nat PROVE /\ Bit(2 * x, 0) = 0 /\ 2 * x \in Nat
                                 /\ \A n \in Nat : n >= 1 => Bit(2 * x, n) = Bit(x, n - 1)
  <2>1. (2 * x) % 2 = 0 /\ (2 * x) \div 2 = x /\ 2 * x \in Nat
    OBVIOUS
  <2>2. Bit(2 * x, 0) = 0
    BY <2>1, Halves
  <2>3. ASSUME NEW n \in Nat, n >= 1 PROVE Bit(2 * x, n) = Bit(x, n - 1)
    <3>1. n - 1 \in Nat /\ (n - 1) + 1 = n
      BY <2>3
    <3>2. Bit(2 * x, (n - 1) + 1) = Bit((2 * x) \div 2, n - 1)
      BY <2>1, <3>1, Halves
    <3> QED BY <2>1, <3>1, <3>2
  <2> QED BY <2>1, <2>2, <2>3
<1>2. 2 * (2 * (2 * v)) = 8 * v /\ 2 * v \in Nat /\ 2 * (2 * v) \in Nat
  OBVIOUS
<1>3. ASSUME NEW n \in 0 .. 2 PROVE Bit(8 * v, n) = 0
  <2> DEFINE y == 2 * v
             z == 2 * y
  <2>1. 8 * v = 2 * z /\ y \in Nat /\ z \in Nat /\ z = 2 * y
    BY <1>2
  <2>2. Bit(y, 0) = 0
    BY <1>1
  <2> HIDE DEF y, z
  <2>3. Bit(z, 0) = 0 /\ Bit(z, 1) = 0
    <3>1. Bit(2 * y, 0) = 0 /\ Bit(2 * y, 1) = Bit(y, 1 - 1)
      BY <1>1, <2>1
    <3> QED BY <2>1, <2>2, <3>1
  <2>4. Bit(2 * z, 0) = 0 /\ Bit(2 * z, 1) = Bit(z, 1 - 1) /\ Bit(2 * z, 2) = Bit(z, 2 - 1)
    <3>1. Bit(2 * z, 0) = 0 /\ \A m \in Nat : m >= 1 => Bit(2 * z, m) = Bit(z, m - 1)
      BY <1>1, <2>1
    <3> QED BY <3>1
  <2>5. n = 0 \/ n = 1 \/ n = 2
    OBVIOUS
  <2> QED BY <2>1, <2>3, <2>4, <2>5
<1>4. ASSUME NEW n \in Nat, n >= 3 PROVE Bit(8 * v, n) = Bit(v, n - 3)
  <2>1. n - 1 \in Nat /\ n - 2 \in Nat /\ n - 1 >= 1 /\ n - 2 >= 1 /\ (n - 1) - 1 = n - 2 /\ (n - 2) - 1 = n - 3
    BY <1>4
  <2>2. Bit(2 * (2 * (2 * v)), n) = Bit(2 * (2 * v), n - 1)
    BY <1>1, <1>2, <1>4
  <2>3. Bit(2 * (2 * v), n - 1) = Bit(2 * v, n - 2)
    BY <1>1, <1>2, <2>1
  <2>4. Bit(2 * v, n - 2) = Bit(v, n - 3)
    BY <1>1, <2>1
  <2> QED BY <1>2, <2>2, <2>3, <2>4
<1>5. ASSUME NEW n \in Nat, n >= 4 PROVE Bit(v, n) = Bit(v \div 16, n - 4)
  <2> DEFINE m == n - 4
  <2>1. m \in Nat /\ n = m + 4
    BY <1>5
  <2> HIDE DEF m
  <2>2. 2 ^ (m + 4) = 16 * 2 ^ m /\ 2 ^ m \in Nat \ {0} /\ 16 \in Nat \ {0}
    BY <2>1, Powers
  <2>3. (v \div 16) \div 2 ^ m = v \div (16 * 2 ^ m)
    BY <2>2, DivDiv
  <2>4. Bit(v, m + 4) = Bit(v \div 16, m)
    BY <2>2, <2>3 DEF Bit
  <2> QED BY <2>1, <2>4 DEF m
<1>6. 8 * v \in Nat /\ v \div 16 \in Nat
  OBVIOUS
<1> QED BY <1>3, <1>4, <1>5, <1>6

(* Bit i has become the digit, and the bits above it are what is above it. *)
Slid(y, r, i, u) ==
  /\ y \in [Bits -> Int] /\ y[i] = DigitOf(u)
  /\ \A j \in Bits : j < i => y[j] = r[j]
  /\ \A j \in Bits : j > i => y[j] = Bit(Above(u), j - i - 1)

(* HighTurn: the fourth turn carries when its bit is set, and the digit is *)
(* done.                                                                   *)
LEMMA HighTurn ==
  ASSUME NEW r, NEW i, NEW u, Window(r, i, u)
  PROVE  \E y : Turn(Running(Taken(r, i, u, 3)), i, 4) = Running(y) /\ Slid(y, r, i, u)
<1> DEFINE x == Taken(r, i, u, 3)
           k == i + 4
           v == u \div 16
           c == Carry(u)
<1>1. r \in [Bits -> Int] /\ i \in Bits /\ i \in Nat /\ u \in Nat /\ u % 2 = 1
      /\ ScalarBits \in Nat /\ Bits = 0 .. ScalarBits - 1 /\ i < ScalarBits
  BY Sizes DEF Window
<1>2. u = 16 * v + (u % 16) /\ v \in Nat /\ u % 16 \in 1 .. 15 /\ c \in {0, 1} /\ c = v % 2
  <2>1. u = 16 * v + (u % 16) /\ v \in Nat /\ u % 16 \in 0 .. 15
    BY <1>1
  <2>2. u % 16 # 0
    BY <1>1, <2>1
  <2> QED BY <2>1, <2>2 DEF Carry
<1>3. c = Bit(u, 4)
  BY Powers DEF Bit, Carry
<1>4. DigitOf(u) = (u % 16) - 16 * c /\ Above(u) = 8 * (v + c)
  BY <1>1 DEF DigitOf, Above
<1>5. x = [j \in Bits |-> IF j = i THEN u % 16 ELSE IF j \in i + 1 .. i + 3 THEN 0 ELSE r[j]]
  <2>1. 3 + 1 = 4
    OBVIOUS
  <2> QED BY <2>1, Powers DEF Taken
<1> HIDE DEF x
<1>6. x \in [Bits -> Int] /\ x[i] = u % 16
  BY <1>1, <1>2, <1>5
<1>7. /\ k < ScalarBits => k \in Bits /\ r[k] = c
      /\ k >= ScalarBits => c = 0
  BY <1>3, InWindow
<1>8. 4 \in 1 .. 6 /\ 2 ^ 4 = 16 /\ k \in Nat
  BY <1>1, Powers
<1>9. k < ScalarBits => x[k] = c
  BY <1>1, <1>5, <1>7
<1>10. v + c \in Nat
  BY <1>2
<1>11. ASSUME NEW j \in Bits, j > i, j < k PROVE Bit(Above(u), j - i - 1) = 0 /\ x[j] = 0
  <2>1. j - i - 1 \in 0 .. 2 /\ j \in i + 1 .. i + 3 /\ j # i
    BY <1>1, <1>11
  <2>2. Bit(8 * (v + c), j - i - 1) = 0
    BY <1>10, <2>1, Eightfold
  <2> QED BY <1>4, <1>5, <2>1, <2>2
<1>12. ASSUME NEW j \in Bits, j >= k
       PROVE  /\ Bit(Above(u), j - i - 1) = Bit(v + c, j - k) /\ x[j] = Bit(v, j - k)
              /\ j \in Nat /\ j - k \in Nat
  <2>1. /\ j \in Nat /\ j - k \in Nat /\ j - i - 1 \in Nat /\ j - i - 1 >= 3 /\ (j - i - 1) - 3 = j - k
        /\ j - i \in Nat /\ j - i >= 4 /\ (j - i) - 4 = j - k /\ j # i /\ j \notin i + 1 .. i + 3
        /\ j \in i .. ScalarBits - 1
    BY <1>1, <1>12
  <2>2. Bit(8 * (v + c), j - i - 1) = Bit(v + c, (j - i - 1) - 3)
    BY <1>10, <2>1, Eightfold
  <2>3. Bit(u, j - i) = Bit(v, (j - i) - 4)
    BY <1>1, <2>1, Eightfold
  <2>4. x[j] = r[j] /\ r[j] = Bit(u, j - i)
    <3>1. x[j] = r[j]
      BY <1>5, <2>1
    <3>2. r[j] = Bit(u, j - i)
      BY <2>1 DEF Window
    <3> QED BY <3>1, <3>2
  <2> QED BY <1>4, <2>1, <2>2, <2>3, <2>4
<1>13. \A j \in Bits : j < i => x[j] = r[j]
  BY <1>1, <1>5
<1> HIDE DEF k, v, c
<1>14. k = i + 4
  BY DEF k
<1>15. CASE k >= ScalarBits \/ c = 0
  <2>1. c = 0
    BY <1>7, <1>15
  <2>2. i + 4 >= ScalarBits \/ x[i + 4] * 2 ^ 4 = 0
    BY <1>8, <1>9, <1>14, <1>15, <1>1
  <2>3. Turn(Running(x), i, 4) = Running(x)
    BY <1>1, <1>6, <1>8, <2>2, TurnPasses
  <2>4. ASSUME NEW j \in Bits, j > i PROVE x[j] = Bit(Above(u), j - i - 1)
    <3>1. v + c = v
      BY <1>2, <2>1
    <3>2. j < k \/ j >= k
      BY <1>1, <1>8
    <3> QED BY <1>11, <1>12, <2>4, <3>1, <3>2
  <2>5. x[i] = DigitOf(u)
    BY <1>2, <1>4, <1>6, <2>1
  <2>6. Slid(x, r, i, u)
    BY <1>6, <1>13, <2>4, <2>5 DEF Slid
  <2> QED BY <2>3, <2>6 DEF x
<1>16. CASE k < ScalarBits /\ c = 1
  <2> DEFINE y == Lessened(x, i, 16)
             z == Propagate(y, k)
  <2>1. x[i + 4] * 2 ^ 4 = 16 /\ i + 4 < ScalarBits /\ k \in Bits
    BY <1>7, <1>8, <1>9, <1>14, <1>16
  <2>2. x[i] + 16 > 15 /\ x[i] - 16 >= -15
    BY <1>2, <1>6
  <2>3. Turn(Running(x), i, 4) = Running(Propagate(Lessened(x, i, 16), i + 4))
    <3>1. x[i + 4] * 2 ^ 4 # 0 /\ x[i] + x[i + 4] * 2 ^ 4 > 15 /\ x[i] - x[i + 4] * 2 ^ 4 >= -15
      BY <2>1, <2>2
    <3>2. Turn(Running(x), i, 4) = Running(Propagate(Lessened(x, i, x[i + 4] * 2 ^ 4), i + 4))
      BY <1>1, <1>6, <1>8, <2>1, <3>1, TurnCarries
    <3> QED BY <2>1, <3>2
  <2>4. y \in [Bits -> Int] /\ y[i] = (u % 16) - 16 /\ \A j \in Bits : j # i => y[j] = x[j]
    BY <1>1, <1>2, <1>6 DEF Lessened
  <2> HIDE DEF y
  <2>5. v + 1 < 2 ^ (ScalarBits - k)
    <3> DEFINE m == ScalarBits - i - 1
    <3>1. m \in Nat /\ m + 1 = ScalarBits - i /\ m - 3 = ScalarBits - k
      BY <1>1, <1>14
    <3>2. 2 * u <= 2 ^ (m + 1)
      BY <3>1 DEF Window
    <3> HIDE DEF m
    <3>3. u \div 16 + 1 < 2 ^ (m - 3)
      BY <1>1, <1>16, <3>1, <3>2, HalfAgain DEF c
    <3> QED BY <3>1, <3>3 DEF v
  <2>6. ASSUME NEW j \in k .. ScalarBits - 1 PROVE y[j] = Bit(v, j - k)
    <3>1. j \in Bits /\ j >= k /\ j # i
      BY <1>1, <1>14, <1>8
    <3> QED BY <1>12, <2>4, <3>1
  <2>7. \A j \in Bits : z[j] = IF j < k THEN y[j] ELSE Bit(v + 1, j - k)
    BY <1>2, <2>1, <2>4, <2>5, <2>6, Propagated
  <2>8. z = [j \in Bits |-> z[j]]
    BY DEF Propagate
  <2> HIDE DEF z
  <2>9. z \in [Bits -> Int]
    <3>1. ASSUME NEW j \in Bits PROVE z[j] \in Int
      <4>1. CASE j < k
        BY <2>4, <2>7, <4>1
      <4>2. CASE ~(j < k)
        <5>1. j - k \in Nat /\ v + 1 \in Nat
          BY <1>1, <1>2, <1>8, <4>2
        <5>2. Bit(v + 1, j - k) \in {0, 1}
          BY <5>1, Halves
        <5> QED BY <2>7, <4>2, <5>2
      <4> QED BY <4>1, <4>2
    <3> QED BY <2>8, <3>1
  <2>10. z[i] = DigitOf(u) /\ \A j \in Bits : j < i => z[j] = r[j]
    <3>1. i < k /\ \A j \in Bits : j < i => j < k /\ j # i
      BY <1>1, <1>14
    <3>2. z[i] = (u % 16) - 16
      BY <1>1, <2>4, <2>7, <3>1
    <3>3. ASSUME NEW j \in Bits, j < i PROVE z[j] = r[j]
      BY <1>13, <2>4, <2>7, <3>1, <3>3
    <3> QED BY <1>4, <1>16, <1>2, <3>2, <3>3
  <2>11. ASSUME NEW j \in Bits, j > i PROVE z[j] = Bit(Above(u), j - i - 1)
    <3>1. CASE j < k
      <4>1. z[j] = x[j]
        BY <1>1, <2>4, <2>7, <2>11, <3>1
      <4> QED BY <1>11, <2>11, <3>1, <4>1
    <3>2. CASE j >= k
      <4>1. ~(j < k)
        BY <1>1, <1>8, <3>2
      <4> QED BY <1>12, <1>16, <2>7, <3>2, <4>1
    <3>3. j < k \/ j >= k
      BY <1>1, <1>8
    <3> QED BY <3>1, <3>2, <3>3
  <2>12. Slid(z, r, i, u)
    BY <2>9, <2>10, <2>11 DEF Slid
  <2>13. Turn(Running(x), i, 4) = Running(z)
    BY <1>14, <2>3 DEF z, y
  <2> QED BY <2>12, <2>13 DEF x
<1> QED BY <1>1, <1>2, <1>8, <1>15, <1>16

(* LastTurns: the turns after that leave the digit alone.                  *)
LEMMA LastTurns ==
  ASSUME NEW r, NEW i, NEW u, Window(r, i, u), NEW y, Slid(y, r, i, u), NEW b \in 5 .. 6
  PROVE  /\ Turn(Running(y), i, b) \in {Running(y), Broken(y)}
         /\ Turn(Broken(y), i, b) = Broken(y)
<1>1. i \in Bits /\ i \in Nat /\ u \in Nat /\ u % 2 = 1 /\ ScalarBits \in Nat /\ Bits = 0 .. ScalarBits - 1
  BY Sizes DEF Window
<1>2. y \in [Bits -> Int] /\ y[i] = DigitOf(u)
  BY DEF Slid
<1>3. DigitOf(u) \in -15 .. 15 /\ Above(u) \in Nat
  BY <1>1, DigitTaken
<1>4. 2 ^ b \in {32, 64}
  <2>1. b = 5 \/ b = 6
    OBVIOUS
  <2> QED BY <2>1, Powers
<1>5. b \in 1 .. 6
  OBVIOUS
<1>6. Turn(Broken(y), i, b) = Broken(y)
  <2> DEFINE s == Broken(y)
  <2>1. ~s.on
    BY Loops
  <2> HIDE DEF s
  <2> DEFINE w == s.r[i + b] * 2 ^ b
             takes == s.on /\ i + b < ScalarBits /\ w # 0
  <2>2. Turn(s, i, b) =
          CASE takes /\ s.r[i] + w <= 15 -> Running(Added(s.r, i, i + b, w))
            [] takes /\ s.r[i] + w > 15 /\ s.r[i] - w >= -15 -> Running(Propagate(Lessened(s.r, i, w), i + b))
            [] takes /\ s.r[i] + w > 15 /\ s.r[i] - w < -15 -> Broken(s.r)
            [] ~takes -> s
    BY Zenon DEF Turn, Running, Broken, Added, Lessened
  <2>3. ~takes
    BY <2>1
  <2> HIDE DEF takes, w
  <2>4. Turn(s, i, b) = s
    BY <2>2, <2>3
  <2> QED BY <2>4 DEF s
<1>7. CASE i + b >= ScalarBits \/ y[i + b] * 2 ^ b = 0
  <2>1. Turn(Running(y), i, b) = Running(y)
    BY <1>1, <1>2, <1>5, <1>7, TurnPasses
  <2> QED BY <1>6, <2>1
<1>8. CASE ~(i + b >= ScalarBits \/ y[i + b] * 2 ^ b = 0)
  <2>1. i + b < ScalarBits /\ y[i + b] * 2 ^ b # 0 /\ i + b \in Bits /\ i + b > i /\ b - 1 \in Nat /\ (i + b) - i - 1 = b - 1
    BY <1>1, <1>8
  <2>2. y[i + b] = Bit(Above(u), (i + b) - i - 1)
    BY <2>1 DEF Slid
  <2>3. Bit(Above(u), b - 1) \in {0, 1}
    BY <1>3, <2>1, Halves
  <2>4. y[i + b] \in {0, 1}
    BY <2>1, <2>2, <2>3
  <2>5. y[i + b] * 2 ^ b \in {32, 64}
    BY <1>4, <2>1, <2>4
  <2>6. y[i] + y[i + b] * 2 ^ b > 15 /\ y[i] - y[i + b] * 2 ^ b < -15
    BY <1>2, <1>3, <2>5
  <2>7. Turn(Running(y), i, b) = Broken(y)
    BY <1>1, <1>2, <1>5, <2>1, <2>6, TurnBreaks
  <2> QED BY <1>6, <2>7
<1> QED BY <1>7, <1>8

(* Absorbed: the inner loop of slide takes one digit.                      *)
LEMMA Absorbed ==
  ASSUME NEW r, NEW i, NEW u, Window(r, i, u)
  PROVE  Slid(Absorb(r, i), r, i, u)
<1>1. PICK y : Turn(Running(Taken(r, i, u, 3)), i, 4) = Running(y) /\ Slid(y, r, i, u)
  BY HighTurn
<1> DEFINE x(b) == Running(Taken(r, i, u, b))
           s5 == Turn(Running(y), i, 5)
           s6 == Turn(s5, i, 6)
           Is(t) == t = [b \in 0 .. 6 |-> IF b = 0 THEN [r |-> r, on |-> TRUE] ELSE Turn(t[b - 1], i, b)]
           t0 == CHOOSE t : Is(t)
           g == [b \in 0 .. 6 |-> IF b <= 3 THEN x(b) ELSE IF b = 4 THEN Running(y) ELSE IF b = 5 THEN s5 ELSE s6]
<1>2. Taken(r, i, u, 0) = r
  <2>1. r \in [Bits -> Int] /\ i \in Bits /\ i \in Nat /\ u \in Nat /\ u % 2 = 1 /\ Bits = 0 .. ScalarBits - 1
        /\ ScalarBits \in Nat
    BY Sizes DEF Window
  <2>2. r[i] = 1
    <3>1. i \in i .. ScalarBits - 1 /\ i - i = 0
      BY <2>1
    <3>2. r[i] = Bit(u, i - i)
      BY <3>1 DEF Window
    <3> QED BY <2>1, <3>1, <3>2, Halves
  <2>3. 0 + 1 = 1 /\ i + 1 .. i + 0 = {}
    BY <2>1
  <2>4. Taken(r, i, u, 0) = [j \in Bits |-> IF j = i THEN 1 ELSE r[j]]
    BY <2>1, <2>3, Powers DEF Taken
  <2> QED BY <2>1, <2>2, <2>4
<1>3. /\ Turn(x(0), i, 1) = x(1) /\ Turn(x(1), i, 2) = x(2) /\ Turn(x(2), i, 3) = x(3)
      /\ Turn(x(3), i, 4) = Running(y)
  <2>1. \A b \in 0 .. 2 : Turn(x(b), i, b + 1) = x(b + 1)
    BY LowTurn
  <2>2. 0 + 1 = 1 /\ 1 + 1 = 2 /\ 2 + 1 = 3
    OBVIOUS
  <2> QED BY <1>1, <2>1, <2>2
<1> HIDE DEF x
<1>4. s6 \in {Running(y), Broken(y)}
  <2>1. s5 \in {Running(y), Broken(y)}
    BY <1>1, LastTurns
  <2> HIDE DEF s5
  <2> QED BY <1>1, <2>1, LastTurns
<1>5. s6.r = y
  <2> HIDE DEF s6
  <2> QED BY <1>4, Loops
<1> HIDE DEF s6, s5
<1>6. \A b \in 1 .. 6 : g[b] = Turn(g[b - 1], i, b)
  <2>1. g[0] = x(0) /\ g[1] = x(1) /\ g[2] = x(2) /\ g[3] = x(3) /\ g[4] = Running(y) /\ g[5] = s5 /\ g[6] = s6
    OBVIOUS
  <2>2. s5 = Turn(Running(y), i, 5) /\ s6 = Turn(s5, i, 6)
    BY DEF s5, s6
  <2> HIDE DEF g
  <2> SUFFICES ASSUME NEW b \in 1 .. 6 PROVE g[b] = Turn(g[b - 1], i, b)
    OBVIOUS
  <2>3. b = 1 \/ b = 2 \/ b = 3 \/ b = 4 \/ b = 5 \/ b = 6
    OBVIOUS
  <2> QED BY <1>3, <2>1, <2>2, <2>3
<1>7. Running(r) = [r |-> r, on |-> TRUE]
  BY DEF Running
<1>8. g[0] = [r |-> r, on |-> TRUE] /\ g[6] = s6 /\ g = [b \in 0 .. 6 |-> g[b]]
  BY <1>2, <1>7 DEF x
<1> HIDE DEF g
<1>9. Is(g)
  <2> DEFINE f == [b \in 0 .. 6 |-> IF b = 0 THEN [r |-> r, on |-> TRUE] ELSE Turn(g[b - 1], i, b)]
  <2>1. ASSUME NEW b \in 0 .. 6 PROVE g[b] = f[b]
    <3>1. CASE b = 0
      BY <1>8, <3>1
    <3>2. CASE b # 0
      <4>1. b \in 1 .. 6
        BY <3>2
      <4>2. f[b] = Turn(g[b - 1], i, b)
        BY <3>2
      <4> QED BY <1>6, <4>1, <4>2
    <3> QED BY <3>1, <3>2
  <2> HIDE DEF f
  <2>2. f = [b \in 0 .. 6 |-> f[b]]
    BY DEF f
  <2>3. g = f
    BY <1>8, <2>1, <2>2
  <2> QED BY <2>3 DEF f
<1>10. Is(t0)
  <2> HIDE DEF Is
  <2> QED BY <1>9
<1>11. Absorb(r, i) = t0[6].r
  BY DEF Absorb
<1> HIDE DEF t0
<1>12. t0[0] = g[0] /\ \A b \in 1 .. 6 : t0[b] = Turn(t0[b - 1], i, b)
  <2>1. t0 = [b \in 0 .. 6 |-> IF b = 0 THEN [r |-> r, on |-> TRUE] ELSE Turn(t0[b - 1], i, b)]
    BY <1>10
  <2>2. t0[0] = [r |-> r, on |-> TRUE]
    <3>1. 0 \in 0 .. 6
      OBVIOUS
    <3> QED BY <2>1, <3>1, Zenon
  <2>3. ASSUME NEW b \in 1 .. 6 PROVE t0[b] = Turn(t0[b - 1], i, b)
    <3>1. b \in 0 .. 6 /\ b # 0
      OBVIOUS
    <3> QED BY <2>1, <3>1, Zenon
  <2> QED BY <1>8, <2>2, <2>3
<1>13. t0[6] = g[6]
  <2>1. \A b, c \in 1 .. 6 : c = b + 1 /\ t0[b] = g[b] => t0[c] = g[c]
    BY <1>6, <1>12
  <2>2. t0[1] = g[1]
    BY <1>6, <1>12
  <2> QED BY <2>1, <2>2
<1> QED BY <1>1, <1>5, <1>8, <1>11, <1>13

-----------------------------------------------------------------------------
(* The digits of slide.                                                    *)

(* Each number of g is a digit and the next number; after the last is 0.   *)
Weighted(g, digits, n, base) ==
  g[n] = 0 /\ \A i \in 0 .. n - 1 : g[i] = digits[i] + base * g[i + 1]

(* Valued: digits mean the first of the numbers that each are made of a    *)
(* digit and the next number.                                              *)
LEMMA Valued ==
  ASSUME NEW n \in Nat, NEW digits, NEW base \in Int, NEW g \in [0 .. n -> Int],
         Weighted(g, digits, n, base)
  PROVE  ValueOf(digits, n, base) = g[0]
<1>0. g[n] = 0 /\ \A i \in 0 .. n - 1 : g[i] = digits[i] + base * g[i + 1]
  BY DEF Weighted
<1> DEFINE Is(f) == f = [i \in 0 .. n |-> IF i = n THEN 0 ELSE digits[i] + base * f[i + 1]]
           f0 == CHOOSE f : Is(f)
<1>1. Is(g)
  <2> DEFINE h == [i \in 0 .. n |-> IF i = n THEN 0 ELSE digits[i] + base * g[i + 1]]
  <2>1. ASSUME NEW i \in 0 .. n PROVE g[i] = h[i]
    <3>1. CASE i = n
      BY <1>0, <3>1
    <3>2. CASE i # n
      <4>1. i \in 0 .. n - 1
        BY <3>2
      <4>2. h[i] = digits[i] + base * g[i + 1]
        BY <3>2
      <4> QED BY <1>0, <4>1, <4>2
    <3> QED BY <1>0, <3>1, <3>2
  <2>2. h = [i \in 0 .. n |-> h[i]]
    OBVIOUS
  <2> HIDE DEF h
  <2>3. g = h
    BY <2>1, <2>2
  <2> QED BY <2>3 DEF h
<1>2. Is(f0)
  <2> HIDE DEF Is
  <2> QED BY <1>1
<1>3. ValueOf(digits, n, base) = f0[0]
  BY DEF ValueOf
<1> HIDE DEF f0
<1>4. f0[n] = 0
  <2>1. n \in 0 .. n
    OBVIOUS
  <2>2. f0 = [i \in 0 .. n |-> IF i = n THEN 0 ELSE digits[i] + base * f0[i + 1]]
    BY <1>2
  <2> QED BY <2>1, <2>2, Zenon
<1>5. ASSUME NEW i \in 0 .. n - 1 PROVE f0[i] = digits[i] + base * f0[i + 1]
  <2>1. i \in 0 .. n /\ i # n
    OBVIOUS
  <2>2. f0 = [k \in 0 .. n |-> IF k = n THEN 0 ELSE digits[k] + base * f0[k + 1]]
    BY <1>2
  <2> QED BY <2>1, <2>2, Zenon
<1> DEFINE P == {k \in Nat : k <= n => f0[n - k] = g[n - k]}
<1>6. 0 \in P
  <2>1. n - 0 = n
    OBVIOUS
  <2> QED BY <1>0, <1>4, <2>1
<1>7. ASSUME NEW k \in Nat, k \in P PROVE k + 1 \in P
  <2> SUFFICES ASSUME k + 1 <= n PROVE f0[n - (k + 1)] = g[n - (k + 1)]
    OBVIOUS
  <2> DEFINE i == n - (k + 1)
  <2>1. i \in 0 .. n - 1 /\ i + 1 = n - k
    OBVIOUS
  <2>2. f0[n - k] = g[n - k]
    BY <1>7
  <2> HIDE DEF i
  <2>3. f0[i] = g[i]
    BY <1>0, <1>5, <2>1, <2>2
  <2> QED BY <2>3 DEF i
<1>8. Nat \subseteq P
  <2> HIDE DEF P
  <2> QED BY <1>6, <1>7, Upwards
<1>9. f0[0] = g[0]
  <2>1. n \in P
    <3> HIDE DEF P
    <3> QED BY <1>8
  <2>2. n - n = 0 /\ n <= n
    OBVIOUS
  <2>3. f0[n - n] = g[n - n]
    BY <2>1, <2>2
  <2> QED BY <2>2, <2>3
<1> QED BY <1>3, <1>9

(* A scalar below half of the range.                                       *)
Small == 0 .. ScalarRange \div 2 - 1

LEMMA Halved ==
  ASSUME NEW a \in Small
  PROVE  a \in Nat /\ 2 * a <= 2 ^ ScalarBits /\ 2 * a < ScalarRange /\ ScalarRange = 2 ^ ScalarBits
<1>1. ScalarRange = 2 ^ ScalarBits /\ 2 ^ ScalarBits \in Nat
  BY Sizes, Powers DEF ScalarRange
<1> QED BY <1>1 DEF Small

(* SlideExact: each digit is that of what the ones below it have left.     *)
LEMMA SlideExact ==
  ASSUME NEW a \in Small
  PROVE  SlidesExactly(a)
<1> DEFINE N == ScalarBits
           F == [i \in 1 .. N |-> [v \in Nat |-> Above(v)]]
<1>1. N \in Nat /\ N > 0 /\ Bits = 0 .. N - 1 /\ a \in Nat /\ 2 * a <= 2 ^ N
  BY Sizes, Halved
<1>2. F \in [1 .. N -> [Nat -> Nat]]
  BY DigitTaken
<1>3. PICK u \in [0 .. N -> Nat] : Steps(u, N, a, F)
  <2> HIDE DEF F
  <2> QED BY <1>1, <1>2, Iterated
<1>4. u[0] = a /\ \A i \in 1 .. N : u[i - 1] \in Nat /\ u[i] = Above(u[i - 1])
  <2>1. u[0] = a /\ \A i \in 1 .. N : u[i] = F[i][u[i - 1]]
    BY <1>3 DEF Steps
  <2>2. ASSUME NEW i \in 1 .. N PROVE u[i - 1] \in Nat /\ u[i] = Above(u[i - 1])
    <3>1. i - 1 \in 0 .. N
      BY <1>1
    <3>2. u[i - 1] \in Nat
      BY <1>3, <3>1
    <3>3. F[i][u[i - 1]] = Above(u[i - 1])
      BY <3>2
    <3> QED BY <2>1, <3>2, <3>3
  <2> QED BY <2>1, <2>2
<1> HIDE DEF F, N
<1>5. \A i \in 0 .. N : 2 * u[i] <= 2 ^ (N - i)
  <2> DEFINE P == {i \in Nat : i <= N => 2 * u[i] <= 2 ^ (N - i)}
  <2>1. 0 \in P
    <3>1. N - 0 = N
      BY <1>1
    <3> QED BY <1>1, <1>4, <3>1
  <2>2. ASSUME NEW i \in Nat, i \in P PROVE i + 1 \in P
    <3> SUFFICES ASSUME i + 1 <= N PROVE 2 * u[i + 1] <= 2 ^ (N - (i + 1))
      OBVIOUS
    <3> DEFINE m == N - (i + 1)
    <3>1. m \in Nat /\ m + 1 = N - i /\ i + 1 \in 1 .. N /\ (i + 1) - 1 = i /\ i <= N
      BY <1>1
    <3>2. u[i] \in Nat /\ u[i + 1] = Above(u[i]) /\ 2 * u[i] <= 2 ^ (m + 1)
      <4>1. u[(i + 1) - 1] \in Nat /\ u[i + 1] = Above(u[(i + 1) - 1])
        BY <1>4, <3>1
      <4>2. 2 * u[i] <= 2 ^ (N - i)
        BY <2>2, <3>1
      <4> QED BY <3>1, <4>1, <4>2
    <3> HIDE DEF m
    <3>3. 2 * Above(u[i]) <= 2 ^ m
      BY <3>1, <3>2, HalfAgain
    <3> QED BY <3>2, <3>3 DEF m
  <2>3. Nat \subseteq P
    <3> HIDE DEF P
    <3> QED BY <2>1, <2>2, Upwards
  <2> QED BY <1>1, <2>3
<1>6. u[N] = 0
  <2>1. N \in 0 .. N /\ N - N = 0
    BY <1>1
  <2>2. 2 * u[N] <= 1 /\ u[N] \in Nat
    <3>1. 2 * u[N] <= 2 ^ (N - N)
      BY <1>5, <2>1
    <3> QED BY <1>3, <2>1, <3>1, Powers
  <2> QED BY <2>2
<1> DEFINE row(i) == [j \in Bits |-> IF j < i THEN DigitOf(u[j]) ELSE Bit(u[i], j - i)]
           next(r, i) == IF r[i] = 0 THEN r ELSE Absorb(r, i)
<1>7. ASSUME NEW i \in 1 .. N PROVE row(i) = next(row(i - 1), i - 1)
  <2> DEFINE k == i - 1
             v == u[k]
             r == row(k)
  <2>1. k \in Bits /\ k \in Nat /\ v \in Nat /\ u[i] = Above(v) /\ k + 1 = i /\ k < N /\ k \in 0 .. N
    BY <1>1, <1>4
  <2>2. r \in [Bits -> Int] /\ \A j \in Bits : r[j] = IF j < k THEN DigitOf(u[j]) ELSE Bit(v, j - k)
    <3>1. r = [j \in Bits |-> IF j < k THEN DigitOf(u[j]) ELSE Bit(v, j - k)]
      OBVIOUS
    <3> HIDE DEF r, k, v
    <3>2. ASSUME NEW j \in Bits PROVE r[j] \in Int
      <4>1. CASE j < k
        <5>1. u[j] \in Nat
          BY <1>1, <1>3, <2>1, <4>1
        <5>2. DigitOf(u[j]) \in Int
          <6>1. \A x \in Nat : DigitOf(x) \in -15 .. 15
            BY DigitTaken
          <6> QED BY <5>1, <6>1
        <5> QED BY <3>1, <4>1, <5>2
      <4>2. CASE ~(j < k)
        <5>1. j - k \in Nat
          BY <1>1, <2>1, <4>2
        <5>2. Bit(v, j - k) \in {0, 1}
          BY <2>1, <5>1, Halves
        <5> QED BY <3>1, <4>2, <5>2
      <4> QED BY <4>1, <4>2
    <3> QED BY <3>1, <3>2
  <2>3. row(i) = [j \in Bits |-> IF j < i THEN DigitOf(u[j]) ELSE Bit(Above(v), j - i)]
    BY <2>1
  <2> HIDE DEF r, v, row
  <2>4. r[k] = v % 2
    <3>1. ~(k < k) /\ k - k = 0
      BY <2>1
    <3>2. r[k] = Bit(v, 0)
      BY <2>1, <2>2, <3>1
    <3> QED BY <2>1, <3>2, Halves
  <2>5. CASE v % 2 = 0
    <3>1. ASSUME NEW j \in Bits PROVE r[j] = row(i)[j]
      <4>1. DigitOf(v) = 0 /\ Above(v) = v \div 2
        BY <2>5 DEF DigitOf, Above
      <4>2. CASE j < k
        <5>1. j < i /\ j < k
          BY <1>1, <2>1, <4>2
        <5> QED BY <2>2, <2>3, <5>1
      <4>3. CASE j = k
        <5>1. j < i /\ r[j] = 0
          BY <1>1, <2>1, <2>4, <2>5, <4>3
        <5>2. row(i)[j] = DigitOf(u[j])
          BY <2>3, <5>1
        <5> QED BY <4>1, <4>3, <5>1, <5>2 DEF v
      <4>4. CASE j > k
        <5>1. ~(j < i) /\ ~(j < k) /\ j - i \in Nat /\ (j - i) + 1 = j - k
          BY <1>1, <2>1, <4>4
        <5>2. Bit(v, (j - i) + 1) = Bit(v \div 2, j - i)
          BY <2>1, <5>1, Halves
        <5> QED BY <2>2, <2>3, <4>1, <5>1, <5>2
      <4>5. j < k \/ j = k \/ j > k
        BY <1>1, <2>1
      <4> QED BY <4>2, <4>3, <4>4, <4>5
    <3>2. r = row(i)
      BY <2>2, <2>3, <3>1
    <3>3. next(r, k) = r
      BY <2>4, <2>5
    <3> QED BY <3>2, <3>3 DEF r
  <2>6. CASE v % 2 = 1
    <3> DEFINE y == Absorb(r, k)
    <3>1. Window(r, k, v)
      <4>1. 2 * v <= 2 ^ (N - k)
        BY <1>5, <2>1 DEF v
      <4>2. ASSUME NEW j \in k .. N - 1 PROVE r[j] = Bit(v, j - k)
        <5>1. j \in Bits /\ ~(j < k)
          BY <1>1, <2>1
        <5> QED BY <2>2, <5>1
      <4> QED BY <2>1, <2>2, <2>6, <4>1, <4>2 DEF Window, N
    <3>2. Slid(y, r, k, v)
      BY <3>1, Absorbed
    <3> HIDE DEF y
    <3>3. ASSUME NEW j \in Bits PROVE y[j] = row(i)[j]
      <4>1. CASE j < k
        <5>1. j < i
          BY <1>1, <2>1, <4>1
        <5>2. y[j] = r[j]
          BY <3>2, <4>1 DEF Slid
        <5> QED BY <2>2, <2>3, <4>1, <5>1, <5>2
      <4>2. CASE j = k
        <5>1. j < i /\ y[j] = DigitOf(v)
          BY <1>1, <2>1, <3>2, <4>2 DEF Slid
        <5>2. row(i)[j] = DigitOf(u[j])
          BY <2>3, <5>1
        <5> QED BY <4>2, <5>1, <5>2 DEF v
      <4>3. CASE j > k
        <5>1. ~(j < i) /\ j - k - 1 = j - i
          BY <1>1, <2>1, <4>3
        <5>2. y[j] = Bit(Above(v), j - k - 1)
          BY <3>2, <4>3 DEF Slid
        <5> QED BY <2>3, <5>1, <5>2
      <4>4. j < k \/ j = k \/ j > k
        BY <1>1, <2>1
      <4> QED BY <4>1, <4>2, <4>3, <4>4
    <3>4. y = row(i)
      BY <2>3, <3>2, <3>3 DEF Slid
    <3>5. next(r, k) = y
      BY <2>4, <2>6 DEF y
    <3> QED BY <3>4, <3>5 DEF r
  <2> QED BY <2>1, <2>5, <2>6
<1> DEFINE bits == [j \in Bits |-> Bit(a, j)]
           Is(t) == t = [i \in 0 .. N |-> IF i = 0 THEN bits ELSE next(t[i - 1], i - 1)]
           t0 == CHOOSE t : Is(t)
           g == [i \in 0 .. N |-> row(i)]
<1>8. row(0) = bits
  <2>1. \A j \in Bits : ~(j < 0) /\ j - 0 = j
    BY <1>1
  <2> QED BY <1>4, <2>1
<1> HIDE DEF row, next, bits
<1>9. Is(g)
  <2> DEFINE f == [i \in 0 .. N |-> IF i = 0 THEN bits ELSE next(g[i - 1], i - 1)]
  <2>1. ASSUME NEW i \in 0 .. N PROVE g[i] = f[i]
    <3>1. CASE i = 0
      BY <1>8, <3>1
    <3>2. CASE i # 0
      <4>1. i \in 1 .. N /\ i - 1 \in 0 .. N
        BY <1>1, <3>2
      <4>2. f[i] = next(g[i - 1], i - 1) /\ g[i - 1] = row(i - 1) /\ g[i] = row(i)
        BY <3>2, <4>1
      <4> QED BY <1>7, <4>1, <4>2
    <3> QED BY <3>1, <3>2
  <2>2. f = [i \in 0 .. N |-> f[i]] /\ g = [i \in 0 .. N |-> g[i]]
    OBVIOUS
  <2> HIDE DEF f, g
  <2>3. g = f
    BY <2>1, <2>2
  <2> QED BY <2>3 DEF f
<1>10. Is(t0)
  <2> HIDE DEF Is
  <2> QED BY <1>9
<1>11. slide(a) = t0[N]
  BY DEF slide, next, bits, N
<1> HIDE DEF t0
<1>12. t0[0] = bits /\ \A i \in 1 .. N : t0[i] = next(t0[i - 1], i - 1)
  <2>1. t0 = [i \in 0 .. N |-> IF i = 0 THEN bits ELSE next(t0[i - 1], i - 1)]
    BY <1>10
  <2>2. t0[0] = bits
    <3>1. 0 \in 0 .. N
      BY <1>1
    <3> QED BY <2>1, <3>1, Zenon
  <2>3. ASSUME NEW i \in 1 .. N PROVE t0[i] = next(t0[i - 1], i - 1)
    <3>1. i \in 0 .. N /\ i # 0
      BY <1>1
    <3> QED BY <2>1, <3>1, Zenon
  <2> QED BY <2>2, <2>3
<1> DEFINE P == {i \in Nat : i <= N => t0[i] = row(i)}
<1>13. 0 \in P
  BY <1>8, <1>12
<1>14. ASSUME NEW i \in Nat, i \in P PROVE i + 1 \in P
  <2> SUFFICES ASSUME i + 1 <= N PROVE t0[i + 1] = row(i + 1)
    OBVIOUS
  <2>1. i + 1 \in 1 .. N /\ (i + 1) - 1 = i /\ i <= N
    BY <1>1
  <2>2. t0[i + 1] = next(t0[i], i) /\ row(i + 1) = next(row(i), i)
    BY <1>7, <1>12, <2>1
  <2> QED BY <1>14, <2>1, <2>2
<1>15. Nat \subseteq P
  <2> HIDE DEF P
  <2> QED BY <1>13, <1>14, Upwards
<1>16. slide(a) = row(N)
  BY <1>1, <1>11, <1>15
<1>17. \A j \in Bits : slide(a)[j] = DigitOf(u[j])
  <2>1. \A j \in Bits : j < N
    BY <1>1
  <2>2. row(N) = [j \in Bits |-> IF j < N THEN DigitOf(u[j]) ELSE Bit(u[N], j - N)]
    BY DEF row
  <2> QED BY <1>16, <2>1, <2>2
<1>18. ASSUME NEW j \in 0 .. N - 1 PROVE u[j] = slide(a)[j] + 2 * u[j + 1]
  <2>1. j \in Bits /\ j + 1 \in 1 .. N /\ (j + 1) - 1 = j
    BY <1>1
  <2>2. u[j] \in Nat /\ u[j + 1] = Above(u[j])
    BY <1>4, <2>1
  <2>3. u[j] = DigitOf(u[j]) + 2 * Above(u[j])
    BY <2>2, DigitTaken
  <2> QED BY <1>17, <2>1, <2>2, <2>3
<1>19. ValueOf(slide(a), N, 2) = a
  <2> DEFINE d == slide(a)
  <2>1. u \in [0 .. N -> Int] /\ 2 \in Int /\ \A j \in 0 .. N - 1 : u[j] = d[j] + 2 * u[j + 1]
    BY <1>3, <1>18
  <2> HIDE DEF d
  <2>2. ValueOf(d, N, 2) = u[0]
    <3>1. N \in Nat /\ Weighted(u, d, N, 2)
      BY <1>1, <1>6, <2>1 DEF Weighted
    <3> QED BY <2>1, <3>1, Valued
  <2> QED BY <1>4, <2>2 DEF d
<1>20. ASSUME NEW j \in Bits
       PROVE  slide(a)[j] # 0 => slide(a)[j] \in -15 .. 15 /\ slide(a)[j] % 2 = 1
  <2>1. u[j] \in Nat
    BY <1>1, <1>3
  <2> QED BY <1>17, <2>1, DigitTaken
<1> QED BY <1>19, <1>20 DEF SlidesExactly, N

-----------------------------------------------------------------------------
(* The digits of ge_scalarmult_base and of ge_scalarmult.                  *)

(* From byte i on, a is byte i and what is above it.                       *)
ByteFirst(a, i) ==
  /\ a \div 2 ^ (8 * i) = 256 * (a \div 2 ^ (8 * (i + 1))) + Byte(a, i)
  /\ Byte(a, i) \in 0 .. 255 /\ a \div 2 ^ (8 * i) \in Nat

(* Chunks: a number by its nibbles, and by its bytes.                      *)
LEMMA Chunks ==
  ASSUME NEW a \in Nat, NEW i \in Nat
  PROVE  /\ a \div 2 ^ (4 * i) = 16 * (a \div 2 ^ (4 * (i + 1))) + Nibble(a, i)
         /\ Nibble(a, i) \in 0 .. 15 /\ a \div 2 ^ (4 * i) \in Nat
         /\ ByteFirst(a, i)
<1>1. ASSUME NEW n \in Nat PROVE a \div 2 ^ n = 16 * (a \div 2 ^ (n + 4)) + ((a \div 2 ^ n) % 16) /\ a \div 2 ^ n \in Nat
  <2>1. 2 ^ n \in Nat \ {0} /\ 16 \in Nat \ {0} /\ 2 ^ (n + 4) = 16 * 2 ^ n
    BY Powers
  <2>2. (a \div 2 ^ n) \div 16 = a \div (2 ^ n * 16) /\ a \div 2 ^ n \in Nat
    BY <2>1, DivDiv
  <2>3. 2 ^ n * 16 = 2 ^ (n + 4)
    BY <2>1
  <2> DEFINE x == a \div 2 ^ n
  <2>4. x \in Nat /\ x \div 16 = a \div 2 ^ (n + 4)
    BY <2>2, <2>3
  <2> HIDE DEF x
  <2>5. x = 16 * (x \div 16) + (x % 16)
    BY <2>4
  <2> QED BY <2>4, <2>5 DEF x
<1>2. ASSUME NEW n \in Nat PROVE a \div 2 ^ n = 256 * (a \div 2 ^ (n + 8)) + ((a \div 2 ^ n) % 256) /\ a \div 2 ^ n \in Nat
  <2> DEFINE p == 2 ^ n
             k == 256
  <2>1. p \in Nat \ {0} /\ k \in Nat \ {0} /\ 2 ^ (n + 8) = 256 * 2 ^ n
    BY Powers
  <2>2. (a \div 2 ^ n) \div 256 = a \div (2 ^ n * 256) /\ a \div 2 ^ n \in Nat
    <3> HIDE DEF p, k
    <3>1. (a \div p) \div k = a \div (p * k) /\ a \div p \in Nat
      BY <2>1, DivDiv, ZenonT(60)
    <3> QED BY <3>1 DEF p, k
  <2>3. 2 ^ n * 256 = 2 ^ (n + 8)
    BY <2>1
  <2> DEFINE x == a \div 2 ^ n
  <2>4. x \in Nat /\ x \div 256 = a \div 2 ^ (n + 8)
    BY <2>2, <2>3
  <2> HIDE DEF x
  <2>5. x = 256 * (x \div 256) + (x % 256)
    BY <2>4
  <2> QED BY <2>4, <2>5 DEF x
<1>3. 4 * i \in Nat /\ 8 * i \in Nat /\ 4 * (i + 1) = 4 * i + 4 /\ 8 * (i + 1) = 8 * i + 8
  OBVIOUS
<1>4. /\ a \div 2 ^ (4 * i) = 16 * (a \div 2 ^ (4 * i + 4)) + Nibble(a, i) /\ a \div 2 ^ (4 * i) \in Nat
      /\ a \div 2 ^ (8 * i) = 256 * (a \div 2 ^ (8 * i + 8)) + Byte(a, i) /\ a \div 2 ^ (8 * i) \in Nat
  BY <1>1, <1>2, <1>3 DEF Nibble, Byte
<1>5. Nibble(a, i) \in 0 .. 15 /\ Byte(a, i) \in 0 .. 255
  <2>1. \A x \in Nat : x % 16 \in 0 .. 15 /\ x % 256 \in 0 .. 255
    OBVIOUS
  <2> QED BY <1>4, <2>1 DEF Nibble, Byte
<1> QED BY <1>3, <1>4, <1>5 DEF ByteFirst

(* Below: what is less than a multiple is not a number of times in it.     *)
LEMMA Below ==
  ASSUME NEW a \in Nat, NEW p \in Nat, p > 0, NEW m \in Nat, a < m * p
  PROVE  a \div p \in Nat /\ a \div p < m
<1> DEFINE x == a \div p
<1>1. a = p * x + (a % p) /\ 0 <= a % p /\ x \in Int /\ a % p \in Int
  BY DivMod
<1>2. x \in Nat
  BY DivDiv
<1> HIDE DEF x
<1>3. ASSUME x >= m PROVE FALSE
  <2>1. p * x >= p * m
    BY <1>2, <1>3
  <2>2. p * m = m * p /\ p * m \in Int /\ p * x \in Int
    BY <1>2
  <2> QED BY <1>1, <2>1, <2>2
<1> QED BY <1>2, <1>3 DEF x

(* BaseCarries: the carries from nibble to nibble.                         *)
IsBaseCarry(c, a) ==
  /\ c \in [0 .. Nibbles -> {0, 1}] /\ c[0] = 0
  /\ \A i \in 1 .. Nibbles : c[i] = (Nibble(a, i - 1) + c[i - 1] + 8) \div 16

LEMMA BaseCarries ==
  ASSUME NEW a \in Nat
  PROVE  \E c : /\ IsBaseCarry(c, a)
                /\ recode_base(a) = [i \in Digits |-> Nibble(a, i) + c[i]
                                       - (IF i < Nibbles - 1 THEN 16 * c[i + 1] ELSE 0)]
<1> DEFINE n == Nibbles
           next(v, i) == (Nibble(a, i - 1) + v + 8) \div 16
           F == [i \in 1 .. n |-> [v \in {0, 1} |-> next(v, i)]]
           Is(t) == t = [i \in 0 .. n |-> IF i = 0 THEN 0 ELSE (Nibble(a, i - 1) + t[i - 1] + 8) \div 16]
           t0 == CHOOSE t : Is(t)
<1>1. n \in Nat
  BY NibblesAssumption
<1>2. ASSUME NEW i \in 1 .. n, NEW v \in {0, 1} PROVE next(v, i) \in {0, 1}
  <2>1. Nibble(a, i - 1) \in 0 .. 15
    <3>1. i - 1 \in Nat
      BY <1>1
    <3> QED BY <3>1, Chunks
  <2> QED BY <2>1
<1>3. F \in [1 .. n -> [{0, 1} -> {0, 1}]]
  BY <1>2
<1>4. PICK h \in [0 .. n -> {0, 1}] : Steps(h, n, 0, F)
  <2>1. 0 \in {0, 1}
    OBVIOUS
  <2> HIDE DEF F
  <2> QED BY <1>1, <1>3, <2>1, Iterated
<1>5. h[0] = 0 /\ \A i \in 1 .. n : h[i] = (Nibble(a, i - 1) + h[i - 1] + 8) \div 16
  <2>1. h[0] = 0 /\ \A i \in 1 .. n : h[i] = F[i][h[i - 1]]
    BY <1>4 DEF Steps
  <2>2. ASSUME NEW i \in 1 .. n PROVE F[i][h[i - 1]] = (Nibble(a, i - 1) + h[i - 1] + 8) \div 16
    <3>1. h[i - 1] \in {0, 1}
      BY <1>1, <1>4
    <3> QED BY <3>1
  <2> QED BY <2>1, <2>2
<1> HIDE DEF F, next
<1>6. Is(h)
  <2> DEFINE f == [i \in 0 .. n |-> IF i = 0 THEN 0 ELSE (Nibble(a, i - 1) + h[i - 1] + 8) \div 16]
  <2>1. ASSUME NEW i \in 0 .. n PROVE h[i] = f[i]
    <3>1. CASE i = 0
      BY <1>5, <3>1
    <3>2. CASE i # 0
      <4>1. i \in 1 .. n
        BY <1>1, <3>2
      <4>2. f[i] = (Nibble(a, i - 1) + h[i - 1] + 8) \div 16
        BY <3>2
      <4> QED BY <1>5, <4>1, <4>2
    <3> QED BY <3>1, <3>2
  <2>2. f = [i \in 0 .. n |-> f[i]]
    OBVIOUS
  <2> HIDE DEF f
  <2>3. h = f
    BY <1>4, <2>1, <2>2
  <2> QED BY <2>3 DEF f
<1>7. Is(t0)
  <2> HIDE DEF Is
  <2> QED BY <1>6
<1>8. recode_base(a) = [i \in Digits |-> Nibble(a, i) + t0[i] - (IF i < n - 1 THEN 16 * t0[i + 1] ELSE 0)]
  BY DEF recode_base
<1> HIDE DEF t0
<1>9. t0[0] = 0
  <2>1. 0 \in 0 .. n
    BY <1>1
  <2> QED BY <1>7, <2>1, Zenon
<1>10. ASSUME NEW i \in 1 .. n PROVE t0[i] = (Nibble(a, i - 1) + t0[i - 1] + 8) \div 16
  <2>1. i \in 0 .. n /\ i # 0
    BY <1>1
  <2>2. t0 = [k \in 0 .. n |-> IF k = 0 THEN 0 ELSE (Nibble(a, k - 1) + t0[k - 1] + 8) \div 16]
    BY <1>7
  <2> QED BY <2>1, <2>2, Zenon
<1> DEFINE P == {i \in Nat : i <= n => t0[i] = h[i]}
<1>11. 0 \in P
  BY <1>5, <1>9
<1>12. ASSUME NEW i \in Nat, i \in P PROVE i + 1 \in P
  <2> SUFFICES ASSUME i + 1 <= n PROVE t0[i + 1] = h[i + 1]
    OBVIOUS
  <2>1. i + 1 \in 1 .. n /\ (i + 1) - 1 = i /\ i <= n
    BY <1>1
  <2>2. t0[i + 1] = (Nibble(a, i) + t0[i] + 8) \div 16 /\ h[i + 1] = (Nibble(a, i) + h[i] + 8) \div 16
    BY <1>5, <1>10, <2>1
  <2> QED BY <1>12, <2>1, <2>2
<1>13. Nat \subseteq P
  <2> HIDE DEF P
  <2> QED BY <1>11, <1>12, Upwards
<1>14. \A i \in 0 .. n : t0[i] = h[i]
  BY <1>13
<1>15. t0 = h
  <2>1. t0 = [i \in 0 .. n |-> t0[i]]
    <3> DEFINE e(k) == IF k = 0 THEN 0 ELSE (Nibble(a, k - 1) + t0[k - 1] + 8) \div 16
    <3>1. t0 = [k \in 0 .. n |-> e(k)]
      BY <1>7
    <3> HIDE DEF e
    <3> QED BY <3>1
  <2> QED BY <1>4, <1>14, <2>1
<1> QED BY <1>4, <1>5, <1>8, <1>15 DEF IsBaseCarry

(* BaseExact: the digits, with the carry into them, make the scalar again. *)
LEMMA BaseExact ==
  ASSUME NEW a \in Small
  PROVE  RecodesBaseExactly(a)
<1> DEFINE n == Nibbles
           d == recode_base(a)
<1>1. n \in Nat /\ n > 0 /\ Digits = 0 .. n - 1 /\ a \in Nat /\ 2 * a < 2 ^ (4 * n)
  <2>1. a \in Nat /\ 2 * a < 2 ^ ScalarBits
    BY Halved
  <2> QED BY <2>1, NibblesAssumption DEF Digits, ScalarBits
<1>2. PICK c : /\ IsBaseCarry(c, a)
               /\ d = [i \in Digits |-> Nibble(a, i) + c[i] - (IF i < n - 1 THEN 16 * c[i + 1] ELSE 0)]
  BY <1>1, BaseCarries
<1>3. \A i \in 0 .. n : c[i] \in {0, 1}
  BY <1>2 DEF IsBaseCarry
<1>4. c[0] = 0 /\ \A i \in 1 .. n : c[i] = (Nibble(a, i - 1) + c[i - 1] + 8) \div 16
  BY <1>2 DEF IsBaseCarry
<1> HIDE DEF d, n
<1>5. a \div 2 ^ (4 * (n - 1)) \in 0 .. 7 /\ Nibble(a, n - 1) = a \div 2 ^ (4 * (n - 1))
  <2> DEFINE m == 4 * (n - 1)
  <2>1. m \in Nat /\ m + 4 = 4 * n
    BY <1>1
  <2> HIDE DEF m
  <2>2. 2 ^ (m + 4) = 16 * 2 ^ m /\ 2 ^ m \in Nat /\ 2 ^ m > 0
    BY <2>1, Powers
  <2>3. a < 8 * 2 ^ m
    BY <1>1, <2>1, <2>2
  <2>4. a \div 2 ^ m \in Nat /\ a \div 2 ^ m < 8
    BY <1>1, <2>2, <2>3, Below
  <2>5. Nibble(a, n - 1) = (a \div 2 ^ m) % 16
    BY DEF Nibble, m
  <2> QED BY <2>4, <2>5 DEF m
<1>6. ASSUME NEW i \in Digits
      PROVE  /\ d[i] \in -8 .. 8
             /\ i < n - 1 => d[i] = Nibble(a, i) + c[i] - 16 * c[i + 1]
             /\ i = n - 1 => d[i] = Nibble(a, i) + c[i]
  <2>1. i \in Nat /\ i \in 0 .. n /\ i + 1 \in 1 .. n /\ (i + 1) - 1 = i /\ (i < n - 1 \/ i = n - 1)
    BY <1>1
  <2>2. Nibble(a, i) \in 0 .. 15 /\ c[i] \in {0, 1}
    BY <1>1, <1>3, <2>1, Chunks
  <2>3. c[i + 1] = (Nibble(a, i) + c[i] + 8) \div 16
    BY <1>4, <2>1
  <2>4. CASE i < n - 1
    <3>1. d[i] = Nibble(a, i) + c[i] - 16 * c[i + 1]
      BY <1>2, <2>4 DEF n
    <3>2. Nibble(a, i) + c[i] + 8 \in Nat /\ c[i + 1] \in Int
      BY <2>2, <2>3
    <3>3. d[i] \in -8 .. 8
      <4> DEFINE x == Nibble(a, i) + c[i] + 8
      <4>1. x \in Nat /\ d[i] = x - 8 - 16 * (x \div 16)
        BY <2>2, <2>3, <3>1, <3>2
      <4> HIDE DEF x
      <4>2. x - 16 * (x \div 16) \in 0 .. 15
        BY <4>1
      <4> QED BY <4>1, <4>2
    <3> QED BY <1>1, <2>1, <2>4, <3>1, <3>3
  <2>5. CASE i = n - 1
    <3>1. d[i] = Nibble(a, i) + c[i] - 0
      BY <1>1, <1>2, <2>1, <2>5 DEF n
    <3>2. Nibble(a, i) \in 0 .. 7
      BY <1>5, <2>5
    <3> QED BY <1>1, <2>1, <2>2, <2>5, <3>1, <3>2, SMTT(30)
  <2> QED BY <2>1, <2>4, <2>5
<1> DEFINE g == [i \in 0 .. n |-> IF i = n THEN 0 ELSE (a \div 2 ^ (4 * i)) + c[i]]
<1>7. g \in [0 .. n -> Int] /\ g[n] = 0
  <2>1. ASSUME NEW i \in 0 .. n PROVE (a \div 2 ^ (4 * i)) + c[i] \in Int
    <3>1. i \in Nat /\ c[i] \in Int
      BY <1>1, <1>3
    <3>2. a \div 2 ^ (4 * i) \in Nat
      BY <1>1, <3>1, Chunks
    <3> QED BY <3>1, <3>2
  <2> QED BY <1>1, <2>1
<1>8. ASSUME NEW i \in 0 .. n - 1 PROVE g[i] = d[i] + 16 * g[i + 1]
  <2>1. i \in Digits /\ i \in Nat /\ i \in 0 .. n /\ i + 1 \in 0 .. n /\ i # n /\ (i < n - 1 \/ i = n - 1)
    BY <1>1
  <2>2. g[i] = (a \div 2 ^ (4 * i)) + c[i] /\ c[i] \in {0, 1} /\ c[i + 1] \in {0, 1}
    BY <1>3, <2>1
  <2>3. /\ a \div 2 ^ (4 * i) = 16 * (a \div 2 ^ (4 * (i + 1))) + Nibble(a, i)
        /\ Nibble(a, i) \in 0 .. 15
    BY <1>1, <2>1, Chunks
  <2>4. a \div 2 ^ (4 * (i + 1)) \in Nat
    <3>1. \A j \in Nat : a \div 2 ^ (4 * j) \in Nat
      BY <1>1, Chunks
    <3>2. i + 1 \in Nat
      BY <2>1
    <3> QED BY <3>1, <3>2
  <2>5. CASE i < n - 1
    <3>1. g[i + 1] = (a \div 2 ^ (4 * (i + 1))) + c[i + 1]
      BY <1>1, <2>1, <2>5
    <3>2. d[i] = Nibble(a, i) + c[i] - 16 * c[i + 1]
      BY <1>6, <2>1, <2>5
    <3> HIDE DEF g
    <3> QED BY <2>2, <2>3, <2>4, <3>1, <3>2
  <2>6. CASE i = n - 1
    <3>1. g[i + 1] = 0
      BY <1>1, <2>1, <2>6
    <3>2. d[i] = Nibble(a, i) + c[i]
      BY <1>6, <2>1, <2>6
    <3>3. Nibble(a, i) = a \div 2 ^ (4 * i)
      BY <1>5, <2>6
    <3> HIDE DEF g
    <3> QED BY <2>2, <2>3, <3>1, <3>2, <3>3
  <2> QED BY <2>1, <2>5, <2>6
<1>9. g[0] = a
  <2>1. g[0] = (a \div 2 ^ (4 * 0)) + c[0]
    BY <1>1
  <2>2. 4 * 0 = 0 /\ a \div 1 = a
    BY <1>1
  <2> QED BY <1>1, <1>4, <2>1, <2>2, Powers
<1> HIDE DEF g
<1>10. ValueOf(d, n, 16) = g[0]
  <2>1. 16 \in Int
    OBVIOUS
  <2>2. n \in Nat /\ Weighted(g, d, n, 16)
    BY <1>1, <1>7, <1>8 DEF Weighted
  <2> QED BY <1>7, <2>1, <2>2, Valued
<1>11. ValueOf(recode_base(a), Nibbles, 16) = a
  BY <1>9, <1>10 DEF d, n
<1>12. \A i \in Digits : recode_base(a)[i] \in -8 .. 8
  BY <1>6 DEF d
<1> QED BY <1>11, <1>12 DEF RecodesBaseExactly

(* ByteCarries: the carries from byte to byte.                              *)
IsByteCarry(c, a) ==
  /\ c \in [0 .. Nibbles \div 2 -> {0, 1}] /\ c[0] = 0
  /\ \A i \in 1 .. Nibbles \div 2 : c[i] = (((c[i - 1] + Byte(a, i - 1) + 8) \div 16) + 8) \div 16

HighDigit(c, a, i) == (c[i] + Byte(a, i) + 8) \div 16

LEMMA ByteCarries ==
  ASSUME NEW a \in Nat
  PROVE  \E c : /\ IsByteCarry(c, a)
                /\ recode(a) = [n \in Digits |->
                     CASE n % 2 = 0 -> c[n \div 2] + Byte(a, n \div 2) - 16 * HighDigit(c, a, n \div 2)
                       [] n = Nibbles - 1 -> HighDigit(c, a, n \div 2)
                       [] OTHER -> HighDigit(c, a, n \div 2) - 16 * c[n \div 2 + 1]]
<1> DEFINE m == Nibbles \div 2
           next(v, i) == (((v + Byte(a, i - 1) + 8) \div 16) + 8) \div 16
           F == [i \in 1 .. m |-> [v \in {0, 1} |-> next(v, i)]]
           Is(t) == t = [i \in 0 .. m |-> IF i = 0 THEN 0 ELSE (((t[i - 1] + Byte(a, i - 1) + 8) \div 16) + 8) \div 16]
           t0 == CHOOSE t : Is(t)
<1>1. m \in Nat
  BY NibblesAssumption
<1>2. ASSUME NEW i \in 1 .. m, NEW v \in {0, 1} PROVE next(v, i) \in {0, 1}
  <2>1. Byte(a, i - 1) \in 0 .. 255
    <3>1. i - 1 \in Nat
      BY <1>1
    <3> QED BY <3>1, Chunks DEF ByteFirst
  <2> QED BY <2>1
<1>3. F \in [1 .. m -> [{0, 1} -> {0, 1}]]
  BY <1>2
<1>4. PICK h \in [0 .. m -> {0, 1}] : Steps(h, m, 0, F)
  <2>1. 0 \in {0, 1}
    OBVIOUS
  <2> HIDE DEF F
  <2> QED BY <1>1, <1>3, <2>1, Iterated
<1>5. h[0] = 0 /\ \A i \in 1 .. m : h[i] = (((h[i - 1] + Byte(a, i - 1) + 8) \div 16) + 8) \div 16
  <2>1. h[0] = 0 /\ \A i \in 1 .. m : h[i] = F[i][h[i - 1]]
    BY <1>4 DEF Steps
  <2>2. ASSUME NEW i \in 1 .. m PROVE F[i][h[i - 1]] = (((h[i - 1] + Byte(a, i - 1) + 8) \div 16) + 8) \div 16
    <3>1. h[i - 1] \in {0, 1}
      BY <1>1, <1>4
    <3> QED BY <3>1
  <2> QED BY <2>1, <2>2
<1> HIDE DEF F, next
<1>6. Is(h)
  <2> DEFINE f == [i \in 0 .. m |-> IF i = 0 THEN 0 ELSE (((h[i - 1] + Byte(a, i - 1) + 8) \div 16) + 8) \div 16]
  <2>1. ASSUME NEW i \in 0 .. m PROVE h[i] = f[i]
    <3>1. CASE i = 0
      BY <1>5, <3>1
    <3>2. CASE i # 0
      <4>1. i \in 1 .. m
        BY <1>1, <3>2
      <4>2. f[i] = (((h[i - 1] + Byte(a, i - 1) + 8) \div 16) + 8) \div 16
        BY <3>2
      <4> QED BY <1>5, <4>1, <4>2
    <3> QED BY <3>1, <3>2
  <2>2. f = [i \in 0 .. m |-> f[i]]
    OBVIOUS
  <2> HIDE DEF f
  <2>3. h = f
    BY <1>4, <2>1, <2>2
  <2> QED BY <2>3 DEF f
<1>7. Is(t0)
  <2> HIDE DEF Is
  <2> QED BY <1>6
<1>8. recode(a) = [n \in Digits |->
         CASE n % 2 = 0 -> t0[n \div 2] + Byte(a, n \div 2) - 16 * HighDigit(t0, a, n \div 2)
           [] n = Nibbles - 1 -> HighDigit(t0, a, n \div 2)
           [] OTHER -> HighDigit(t0, a, n \div 2) - 16 * t0[n \div 2 + 1]]
  BY DEF recode, HighDigit
<1> HIDE DEF t0
<1>9. t0[0] = 0
  <2>1. 0 \in 0 .. m
    BY <1>1
  <2> QED BY <1>7, <2>1, Zenon
<1>10. ASSUME NEW i \in 1 .. m PROVE t0[i] = (((t0[i - 1] + Byte(a, i - 1) + 8) \div 16) + 8) \div 16
  <2>1. i \in 0 .. m /\ i # 0
    BY <1>1
  <2>2. t0 = [k \in 0 .. m |-> IF k = 0 THEN 0 ELSE (((t0[k - 1] + Byte(a, k - 1) + 8) \div 16) + 8) \div 16]
    BY <1>7
  <2> QED BY <2>1, <2>2, Zenon
<1> DEFINE P == {i \in Nat : i <= m => t0[i] = h[i]}
<1>11. 0 \in P
  BY <1>5, <1>9
<1>12. ASSUME NEW i \in Nat, i \in P PROVE i + 1 \in P
  <2> SUFFICES ASSUME i + 1 <= m PROVE t0[i + 1] = h[i + 1]
    OBVIOUS
  <2>1. i + 1 \in 1 .. m /\ (i + 1) - 1 = i /\ i <= m
    BY <1>1
  <2>2. t0[i + 1] = (((t0[i] + Byte(a, i) + 8) \div 16) + 8) \div 16 /\ h[i + 1] = (((h[i] + Byte(a, i) + 8) \div 16) + 8) \div 16
    BY <1>5, <1>10, <2>1
  <2> QED BY <1>12, <2>1, <2>2
<1>13. Nat \subseteq P
  <2> HIDE DEF P
  <2> QED BY <1>11, <1>12, Upwards
<1>14. \A i \in 0 .. m : t0[i] = h[i]
  BY <1>13
<1>15. t0 = h
  <2>1. t0 = [i \in 0 .. m |-> t0[i]]
    <3> DEFINE e(k) == IF k = 0 THEN 0 ELSE (((t0[k - 1] + Byte(a, k - 1) + 8) \div 16) + 8) \div 16
    <3>1. t0 = [k \in 0 .. m |-> e(k)]
      BY <1>7
    <3> HIDE DEF e
    <3> QED BY <3>1
  <2> QED BY <1>4, <1>14, <2>1
<1>16. IsByteCarry(t0, a)
  BY <1>4, <1>5, <1>15 DEF IsByteCarry
<1> QED BY <1>8, <1>16, Zenon

(* ByteDigits: the two digits a byte gives, and the carry out of it.       *)
LEMMA ByteDigits ==
  ASSUME NEW v \in {0, 1}, NEW b \in 0 .. 255
  PROVE  LET w == (v + b + 8) \div 16
             o == (w + 8) \div 16
         IN  /\ w \in 0 .. 16 /\ o \in {0, 1}
             /\ v + b - 16 * w \in -8 .. 8
             /\ w - 16 * o \in -8 .. 8
             /\ b <= 127 => w \in 0 .. 8
<1> DEFINE x == v + b + 8
           w == x \div 16
           o == (w + 8) \div 16
<1>1. x \in 8 .. 264 /\ (b <= 127 => x <= 136) /\ v + b = x - 8
  OBVIOUS
<1> HIDE DEF x
<1>2. w \in 0 .. 16 /\ x - 16 * w \in 0 .. 15 /\ (b <= 127 => w <= 8)
  BY <1>1
<1> HIDE DEF w
<1>3. o \in {0, 1} /\ (w + 8) - 16 * o \in 0 .. 15
  BY <1>2
<1> HIDE DEF o
<1>4. v + b - 16 * w \in -8 .. 8
  BY <1>1, <1>2
<1>5. w - 16 * o \in -8 .. 8
  BY <1>2, <1>3
<1> QED BY <1>2, <1>3, <1>4, <1>5 DEF x, w, o

(* RecodeExact: as BaseExact, two digits to a byte.                        *)
LEMMA RecodeExact ==
  ASSUME NEW a \in Small
  PROVE  RecodesExactly(a)
<1> DEFINE m == Nibbles \div 2
           d == recode(a)
           Rest(i) == a \div 2 ^ (8 * i)
<1>1. m \in Nat /\ m > 0 /\ Nibbles = 2 * m /\ a \in Nat /\ 2 * a < 2 ^ (8 * m)
  <2>1. a \in Nat /\ 2 * a < 2 ^ ScalarBits
    BY Halved
  <2>2. m \in Nat /\ m > 0 /\ Nibbles = 2 * m
    BY NibblesAssumption
  <2>3. ScalarBits = 8 * m
    BY <2>2 DEF ScalarBits
  <2> QED BY <2>1, <2>2, <2>3
<1>2. PICK c : /\ IsByteCarry(c, a)
               /\ d = [n \in Digits |->
                    CASE n % 2 = 0 -> c[n \div 2] + Byte(a, n \div 2) - 16 * HighDigit(c, a, n \div 2)
                      [] n = Nibbles - 1 -> HighDigit(c, a, n \div 2)
                      [] OTHER -> HighDigit(c, a, n \div 2) - 16 * c[n \div 2 + 1]]
  BY <1>1, ByteCarries
<1>3. c[0] = 0 /\ \A i \in 0 .. m : c[i] \in {0, 1}
  BY <1>2 DEF IsByteCarry
<1>4. \A i \in 1 .. m : c[i] = (((c[i - 1] + Byte(a, i - 1) + 8) \div 16) + 8) \div 16
  BY <1>2 DEF IsByteCarry
<1>5. \A i \in Nat : /\ Rest(i) = 256 * Rest(i + 1) + Byte(a, i)
                     /\ Byte(a, i) \in 0 .. 255 /\ Rest(i) \in Nat
  <2> SUFFICES ASSUME NEW i \in Nat
               PROVE  /\ Rest(i) = 256 * Rest(i + 1) + Byte(a, i)
                      /\ Byte(a, i) \in 0 .. 255 /\ Rest(i) \in Nat
    OBVIOUS
  <2>1. a \in Nat
    BY <1>1
  <2>2. ByteFirst(a, i)
    BY <2>1, Chunks
  <2> HIDE DEF m, d
  <2> QED BY <2>2 DEF ByteFirst
<1>6. Rest(m - 1) \in 0 .. 127 /\ Byte(a, m - 1) = Rest(m - 1)
  <2> DEFINE k == 8 * (m - 1)
  <2>1. k \in Nat /\ k + 8 = 8 * m
    BY <1>1
  <2> HIDE DEF k, m
  <2>2. 2 ^ (k + 8) = 256 * 2 ^ k /\ 2 ^ k \in Nat /\ 2 ^ k > 0
    BY <2>1, Powers
  <2>3. a < 128 * 2 ^ k
    BY <1>1, <2>1, <2>2
  <2>4. a \div 2 ^ k \in Nat /\ a \div 2 ^ k < 128
    BY <1>1, <2>2, <2>3, Below
  <2>5. Byte(a, m - 1) = (a \div 2 ^ k) % 256
    BY DEF Byte, k
  <2> QED BY <2>4, <2>5 DEF k
<1>7. ASSUME NEW i \in 0 .. m - 1
      PROVE  /\ d[2 * i] = c[i] + Byte(a, i) - 16 * HighDigit(c, a, i)
             /\ i < m - 1 => d[2 * i + 1] = HighDigit(c, a, i) - 16 * c[i + 1]
             /\ i = m - 1 => d[2 * i + 1] = HighDigit(c, a, i)
  <2>1. /\ 2 * i \in Digits /\ (2 * i) % 2 = 0 /\ (2 * i) \div 2 = i
        /\ 2 * i + 1 \in Digits /\ (2 * i + 1) % 2 # 0 /\ (2 * i + 1) \div 2 = i
        /\ (2 * i + 1 = Nibbles - 1) = (i = m - 1)
    BY <1>1 DEF Digits
  <2> HIDE DEF d, m
  <2>2. d[2 * i] = c[i] + Byte(a, i) - 16 * HighDigit(c, a, i)
    <3> DEFINE n == 2 * i
    <3>1. n \in Digits /\ n % 2 = 0 /\ n \div 2 = i /\ n # Nibbles - 1
      BY <1>1, <2>1
    <3> HIDE DEF n
    <3>2. d[n] = c[n \div 2] + Byte(a, n \div 2) - 16 * HighDigit(c, a, n \div 2)
      BY <1>2, <3>1
    <3> QED BY <3>1, <3>2 DEF n
  <2>3. ASSUME i < m - 1 PROVE d[2 * i + 1] = HighDigit(c, a, i) - 16 * c[i + 1]
    <3>1. 2 * i + 1 # Nibbles - 1
      BY <1>1, <2>1, <2>3
    <3> QED BY <1>2, <2>1, <3>1
  <2>4. ASSUME i = m - 1 PROVE d[2 * i + 1] = HighDigit(c, a, i)
    BY <1>2, <2>1, <2>4
  <2> QED BY <2>2, <2>3, <2>4
<1> HIDE DEF d, m
<1>8. ASSUME NEW i \in 0 .. m - 1
      PROVE  /\ c[i] \in {0, 1} /\ c[i + 1] \in {0, 1} /\ i \in Nat
             /\ c[i + 1] = (HighDigit(c, a, i) + 8) \div 16
             /\ HighDigit(c, a, i) \in 0 .. 16
             /\ c[i] + Byte(a, i) - 16 * HighDigit(c, a, i) \in -8 .. 8
             /\ HighDigit(c, a, i) - 16 * c[i + 1] \in -8 .. 8
             /\ i = m - 1 => HighDigit(c, a, i) \in 0 .. 8
  <2>1. i \in Nat /\ i \in 0 .. m /\ i + 1 \in 0 .. m /\ i + 1 \in 1 .. m /\ (i + 1) - 1 = i
    BY <1>1
  <2>2. c[i] \in {0, 1} /\ c[i + 1] \in {0, 1} /\ Byte(a, i) \in 0 .. 255
    BY <1>3, <1>5, <2>1
  <2>3. c[i + 1] = (HighDigit(c, a, i) + 8) \div 16
    BY <1>4, <2>1 DEF HighDigit
  <2>4. i = m - 1 => Byte(a, i) <= 127
    BY <1>6
  <2>5. /\ HighDigit(c, a, i) \in 0 .. 16
        /\ c[i] + Byte(a, i) - 16 * HighDigit(c, a, i) \in -8 .. 8
        /\ HighDigit(c, a, i) - 16 * ((HighDigit(c, a, i) + 8) \div 16) \in -8 .. 8
        /\ Byte(a, i) <= 127 => HighDigit(c, a, i) \in 0 .. 8
    BY <2>2, ByteDigits DEF HighDigit
  <2> QED BY <2>1, <2>2, <2>3, <2>4, <2>5
<1>9. ASSUME NEW n \in Digits
      PROVE  \E i \in 0 .. m - 1 : n = 2 * i \/ n = 2 * i + 1
  <2>1. n \in 0 .. 2 * m - 1
    BY <1>1 DEF Digits
  <2>2. n \div 2 \in 0 .. m - 1 /\ (n = 2 * (n \div 2) \/ n = 2 * (n \div 2) + 1)
    BY <1>1, <2>1
  <2> QED BY <2>2
<1>10. \A n \in Digits : d[n] \in -8 .. 8
  <2> SUFFICES ASSUME NEW n \in Digits PROVE d[n] \in -8 .. 8
    OBVIOUS
  <2>1. PICK i \in 0 .. m - 1 : n = 2 * i \/ n = 2 * i + 1
    BY <1>9
  <2>2. d[2 * i] \in -8 .. 8
    BY <1>7, <1>8
  <2>3. d[2 * i + 1] \in -8 .. 8
    <3>1. CASE i < m - 1
      BY <1>7, <1>8, <3>1
    <3>2. CASE i = m - 1
      <4>1. HighDigit(c, a, i) \in 0 .. 8
        BY <1>8, <3>2
      <4> QED BY <1>7, <3>2, <4>1
    <3> QED BY <1>1, <3>1, <3>2
  <2> QED BY <2>1, <2>2, <2>3

(* What is left of the scalar above a digit, with the carry into it.       *)
<1> DEFINE g == [n \in 0 .. 2 * m |->
                   IF n = 2 * m THEN 0
                   ELSE IF n % 2 = 0 THEN Rest(n \div 2) + c[n \div 2]
                   ELSE HighDigit(c, a, n \div 2) + 16 * Rest(n \div 2 + 1)]
<1>11. ASSUME NEW i \in 0 .. m - 1
       PROVE  /\ 2 * i \in 0 .. 2 * m /\ 2 * i + 1 \in 0 .. 2 * m
              /\ g[2 * i] = Rest(i) + c[i]
              /\ g[2 * i + 1] = HighDigit(c, a, i) + 16 * Rest(i + 1)
  <2>1. /\ 2 * i \in 0 .. 2 * m /\ 2 * i # 2 * m /\ (2 * i) % 2 = 0 /\ (2 * i) \div 2 = i
        /\ 2 * i + 1 \in 0 .. 2 * m /\ 2 * i + 1 # 2 * m
        /\ (2 * i + 1) % 2 # 0 /\ (2 * i + 1) \div 2 = i
    BY <1>1
  <2> HIDE DEF Rest
  <2> QED BY <2>1
<1>12. g[2 * m] = 0
  BY <1>1
<1>13. Rest(m) = 0
  <2>1. Rest(m - 1) = 256 * Rest(m) + Byte(a, m - 1) /\ Rest(m) \in Nat /\ Rest(m - 1) \in Nat
    <3>1. m - 1 \in Nat /\ (m - 1) + 1 = m
      BY <1>1
    <3> HIDE DEF Rest
    <3>2. Rest(m - 1) = 256 * Rest((m - 1) + 1) + Byte(a, m - 1) /\ Rest(m - 1) \in Nat
      BY <1>5, <3>1
    <3>3. Rest(m) \in Nat
      BY <1>1, <1>5
    <3> QED BY <3>1, <3>2, <3>3
  <2> HIDE DEF Rest
  <2> QED BY <1>6, <2>1
<1> HIDE DEF g, Rest
<1>14. ASSUME NEW i \in 0 .. m - 1
       PROVE  /\ g[2 * i] \in Int /\ g[2 * i + 1] \in Int
              /\ g[2 * i] = d[2 * i] + 16 * g[2 * i + 1]
              /\ g[2 * i + 1] = d[2 * i + 1] + 16 * g[2 * i + 2]
  <2>1. /\ Rest(i) = 256 * Rest(i + 1) + Byte(a, i) /\ Rest(i) \in Nat /\ Rest(i + 1) \in Nat
        /\ Byte(a, i) \in 0 .. 255
    <3>1. i \in Nat /\ i + 1 \in Nat
      BY <1>1
    <3> QED BY <1>5, <3>1
  <2>2. HighDigit(c, a, i) \in Int /\ c[i] \in Int /\ c[i + 1] \in Int
    <3>1. HighDigit(c, a, i) \in 0 .. 16 /\ c[i] \in {0, 1} /\ c[i + 1] \in {0, 1}
      BY <1>8
    <3> QED BY <3>1
  <2>3. g[2 * i] = Rest(i) + c[i] /\ g[2 * i + 1] = HighDigit(c, a, i) + 16 * Rest(i + 1)
    BY <1>11
  <2>4. d[2 * i] = c[i] + Byte(a, i) - 16 * HighDigit(c, a, i)
    BY <1>7
  <2>5. g[2 * i] \in Int /\ g[2 * i + 1] \in Int
    BY <2>1, <2>2, <2>3
  <2>6. g[2 * i] = d[2 * i] + 16 * g[2 * i + 1]
    BY <2>1, <2>2, <2>3, <2>4
  <2>7. CASE i < m - 1
    <3>1. i + 1 \in 0 .. m - 1 /\ 2 * (i + 1) = 2 * i + 2
      BY <1>1, <2>7
    <3>2. g[2 * i + 2] = Rest(i + 1) + c[i + 1]
      <4>1. g[2 * (i + 1)] = Rest(i + 1) + c[i + 1]
        BY <1>11, <3>1
      <4> QED BY <3>1, <4>1
    <3>3. d[2 * i + 1] = HighDigit(c, a, i) - 16 * c[i + 1]
      BY <1>7, <2>7
    <3> QED BY <2>1, <2>2, <2>3, <2>5, <2>6, <3>2, <3>3
  <2>8. CASE i = m - 1
    <3>1. 2 * i + 2 = 2 * m /\ i + 1 = m
      BY <1>1, <2>8
    <3>2. g[2 * i + 2] = 0 /\ Rest(i + 1) = 0
      BY <1>12, <1>13, <3>1
    <3>3. d[2 * i + 1] = HighDigit(c, a, i)
      BY <1>7, <2>8
    <3> QED BY <2>2, <2>3, <2>5, <2>6, <3>2, <3>3
  <2> QED BY <1>1, <2>7, <2>8
<1>15. ASSUME NEW n \in 0 .. 2 * m - 1 PROVE g[n] \in Int /\ g[n] = d[n] + 16 * g[n + 1]
  <2>1. PICK i \in 0 .. m - 1 : n = 2 * i \/ n = 2 * i + 1
    BY <1>1, <1>9 DEF Digits
  <2>2. (2 * i) + 1 = 2 * i + 1 /\ (2 * i + 1) + 1 = 2 * i + 2
    OBVIOUS
  <2> QED BY <1>14, <2>1, <2>2
<1>16. g \in [0 .. 2 * m -> Int]
  <2>1. ASSUME NEW n \in 0 .. 2 * m PROVE g[n] \in Int
    <3>1. n \in 0 .. 2 * m - 1 \/ n = 2 * m
      BY <1>1
    <3> QED BY <1>12, <1>15, <3>1
  <2>2. g = [n \in 0 .. 2 * m |-> g[n]]
    BY DEF g
  <2> QED BY <2>1, <2>2
<1>17. g[0] = a
  <2>1. 0 \in 0 .. m - 1 /\ 2 * 0 = 0
    BY <1>1
  <2>2. g[0] = Rest(0) + c[0]
    <3>1. g[2 * 0] = Rest(0) + c[0]
      BY <1>11, <2>1
    <3> QED BY <2>1, <3>1
  <2>3. Rest(0) = a
    <3>1. 8 * 0 = 0 /\ a \div 1 = a
      BY <1>1
    <3> QED BY <3>1, Powers DEF Rest
  <2> QED BY <1>1, <1>3, <2>2, <2>3
<1>18. ValueOf(d, 2 * m, 16) = g[0]
  <2> DEFINE n == 2 * m
  <2>1. 16 \in Int /\ n \in Nat
    BY <1>1
  <2>2. g \in [0 .. n -> Int] /\ g[n] = 0 /\ \A i \in 0 .. n - 1 : g[i] = d[i] + 16 * g[i + 1]
    BY <1>12, <1>15, <1>16
  <2> HIDE DEF n
  <2>3. ValueOf(d, n, 16) = g[0]
    <3>1. Weighted(g, d, n, 16)
      BY <2>2 DEF Weighted
    <3> QED BY <2>1, <2>2, <3>1, Valued
  <2> QED BY <2>3 DEF n
<1>19. ValueOf(recode(a), Nibbles, 16) = a
  BY <1>1, <1>17, <1>18 DEF d
<1>20. \A i \in Digits : recode(a)[i] \in -8 .. 8
  BY <1>10 DEF d
<1> QED BY <1>19, <1>20 DEF RecodesExactly

(* ScalarsSmall: a scalar that is recoded is below half of the range.      *)
ScalarsSmall ==
  call.op = "multiply" => /\ call.base \in Small
                          /\ \A k \in DOMAIN call.terms : call.terms[k][1] \in Small

LEMMA SmallStep == ScalarsSmall /\ [Next]_vars => ScalarsSmall'
<1> SUFFICES ASSUME ScalarsSmall, [Next]_vars PROVE ScalarsSmall'
  OBVIOUS
<1>1. 0 \in Small /\ Scalars \subseteq Small /\ FewScalars \subseteq Scalars
  <2>1. Scalars \subseteq Small /\ FewScalars \subseteq Scalars
    BY ScalarsAssumption DEF Small
  <2>2. ScalarRange \in Nat /\ ScalarRange >= 2
    <3>1. ScalarBits \in Nat /\ ScalarBits > 0
      BY Sizes
    <3>2. ScalarRange = 2 * 2 ^ (ScalarBits - 1) /\ 2 ^ (ScalarBits - 1) \in Nat \ {0}
      <4>1. ScalarBits - 1 \in Nat /\ (ScalarBits - 1) + 1 = ScalarBits
        BY <3>1
      <4>2. 2 ^ ((ScalarBits - 1) + 1) = 2 * 2 ^ (ScalarBits - 1) /\ 2 ^ (ScalarBits - 1) \in Nat \ {0}
        BY <4>1, Powers
      <4> QED BY <4>1, <4>2 DEF ScalarRange
    <3> QED BY <3>2
  <2>3. 0 \in Small
    BY <2>2 DEF Small
  <2> QED BY <2>1, <2>3
<1>2. ASSUME NEW base \in Small, NEW terms, \A k \in DOMAIN terms : terms[k][1] \in Small,
             NEW p, Answer(base, terms, p)
      PROVE  ScalarsSmall'
  <2>1. call' = [op |-> "multiply", base |-> base, terms |-> terms]
    BY <1>2 DEF Answer
  <2>2. call'.base = base /\ call'.terms = terms
    BY <2>1
  <2> QED BY <1>2, <2>2 DEF ScalarsSmall
<1>3. ASSUME call'.op # "multiply" PROVE ScalarsSmall'
  BY <1>3 DEF ScalarsSmall
<1>4. ASSUME NEW s, Load(s) \/ Hash(s) \/ Add(s) \/ Subtract(s) PROVE ScalarsSmall'
  <2>1. call'.op \in {"load", "hash", "add", "sub"}
    BY <1>4 DEF Load, Hash, Add, Subtract
  <2> QED BY <1>3, <2>1
<1>5. ASSUME Double \/ MultiplyBy8 \/ \E n \in Moduli : Raise(n) PROVE ScalarsSmall'
  <2>1. call'.op \in {"double", "mul8", "power"}
    BY <1>5 DEF Double, MultiplyBy8, Raise
  <2> QED BY <1>3, <2>1
<1>6. ASSUME NEW a \in Small PROVE \A k \in DOMAIN << >> : << >>[k][1] \in Small
  OBVIOUS
<1>7. ASSUME NEW a \in Small, NEW s
      PROVE  \A k \in DOMAIN <<<<a, s>>>> : <<<<a, s>>>>[k][1] \in Small
  OBVIOUS
<1>8. ASSUME NEW a \in Small, NEW s, NEW b \in Small, NEW t
      PROVE  \A k \in DOMAIN <<<<a, s>>, <<b, t>>>> : <<<<a, s>>, <<b, t>>>>[k][1] \in Small
  OBVIOUS
<1>9. ASSUME NEW a \in Small, NEW s, NEW b \in Small, NEW t, NEW c \in Small
      PROVE  \A k \in DOMAIN <<<<a, s>>, <<b, t>>, <<c, s>>>> :
               <<<<a, s>>, <<b, t>>, <<c, s>>>>[k][1] \in Small
  OBVIOUS
<1>10. ASSUME NEW a \in Scalars, MultiplyBase(a) PROVE ScalarsSmall'
  <2>1. Answer(a, << >>, ge_scalarmult_base(a))
    BY <1>10 DEF MultiplyBase
  <2> QED BY <1>1, <1>2, <1>6, <2>1
<1>11. ASSUME NEW a \in Scalars, NEW s, Multiply(a, s) PROVE ScalarsSmall'
  <2>1. \E p : Answer(0, <<<<a, s>>>>, p)
    BY <1>11 DEF Multiply
  <2> QED BY <1>1, <1>2, <1>7, <2>1
<1>12. ASSUME NEW a \in Scalars, NEW b \in Scalars, NEW s, NEW t,
              MultiplyPair(a, s, b, t) \/ MultiplyPairP3(a, s, b, t)
       PROVE  ScalarsSmall'
  <2>1. \/ call'.op = "nothing"
        \/ \E p : Answer(b, <<<<a, s>>>>, p)
        \/ \E p : Answer(0, <<<<a, s>>, <<b, t>>>>, p)
    <3>1. CASE MultiplyPair(a, s, b, t)
      BY <3>1 DEF MultiplyPair
    <3>2. CASE MultiplyPairP3(a, s, b, t)
      BY <3>2 DEF MultiplyPairP3
    <3> QED BY <1>12, <3>1, <3>2
  <2>2. a \in Small /\ b \in Small
    BY <1>1
  <2>3. CASE call'.op = "nothing"
    BY <1>3, <2>3
  <2>4. CASE \E p : Answer(b, <<<<a, s>>>>, p)
    BY <1>2, <1>7, <2>2, <2>4
  <2>5. CASE \E p : Answer(0, <<<<a, s>>, <<b, t>>>>, p)
    BY <1>1, <1>2, <1>8, <2>2, <2>5
  <2> QED BY <2>1, <2>3, <2>4, <2>5
<1>13. ASSUME NEW a \in FewScalars, NEW b \in FewScalars, NEW c \in FewScalars, NEW s, NEW t,
              MultiplyTriple(a, s, b, t, c)
       PROVE  ScalarsSmall'
  <2>1. \/ \E p : Answer(c, <<<<a, s>>, <<b, t>>>>, p)
        \/ \E p : Answer(0, <<<<a, s>>, <<b, t>>, <<c, s>>>>, p)
    BY <1>13 DEF MultiplyTriple
  <2>2. a \in Small /\ b \in Small /\ c \in Small
    BY <1>1
  <2>3. CASE \E p : Answer(c, <<<<a, s>>, <<b, t>>>>, p)
    BY <1>2, <1>8, <2>2, <2>3
  <2>4. CASE \E p : Answer(0, <<<<a, s>>, <<b, t>>, <<c, s>>>>, p)
    BY <1>1, <1>2, <1>9, <2>2, <2>4
  <2> QED BY <2>1, <2>3, <2>4
<1>14. CASE Next
  BY <1>1, <1>4, <1>5, <1>10, <1>11, <1>12, <1>13, <1>14 DEF Next
<1>15. CASE UNCHANGED vars
  BY <1>15 DEF ScalarsSmall, vars
<1> QED BY <1>14, <1>15

(* RecodingsExact: whichever of the functions multiplies, and by scalars   *)
(* of any even number of nibbles, the digits the three recodings make of a *)
(* scalar below half of the range add up to it, and each is one the tables *)
(* of multiples have an entry for.                                         *)
THEOREM RecodingsExact == Spec => []DigitsExact
<1>1. Init => ScalarsSmall
  BY DEF Init, ScalarsSmall
<1>2. ScalarsSmall => DigitsExact
  <2>1. \A a \in Small : Exact(a)
    BY RecodeExact, BaseExact, SlideExact DEF Exact
  <2> QED BY <2>1 DEF ScalarsSmall, DigitsExact
<1> QED
  BY <1>1, <1>2, SmallStep, PTL DEF Spec
=============================================================================
