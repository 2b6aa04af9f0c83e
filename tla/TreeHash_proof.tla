--------------------------- MODULE TreeHash_proof ---------------------------
(***************************************************************************)
(* The bounds of tree_branch's loops, the root and what branches prove,    *)
(* for blocks of any size.                                                 *)
(***************************************************************************)
EXTENDS TreeHash, FiniteSetTheorems, FunctionTheorems, SequenceTheorems, WellFoundedInduction, TLAPS

(* The power of two being looked for is even, and half of it is short of   *)
(* the number of hashes.                                                   *)
Rounding ==
  /\ pc = "call" => pow = 2
  /\ pc = "round" =>
       /\ count(hashes) >= 3
       /\ \E q \in Nat : q >= 1 /\ pow = 2 * q /\ q < count(hashes)

(* In the loops half of it is the size of the first level, and a tree of   *)
(* two such levels has room for all hashes.                                *)
Allocated ==
  pc \in {"leaves", "nodes"} =>
    /\ DOMAIN ints = 0 .. (pow \div 2) - 1
    /\ pow \div 2 \in Nat
    /\ pow \div 2 >= 2
    /\ pow \div 2 < count(hashes)
    /\ count(hashes) <= 2 * (pow \div 2)

(* The places read run two steps ahead for each step of the place written. *)
FoldingLeaves ==
  pc = "leaves" =>
    /\ cnt = pow \div 2
    /\ 2 * cnt - count(hashes) <= j
    /\ j <= cnt
    /\ i = 2 * j - (2 * cnt - count(hashes))

FoldingNodes ==
  pc = "nodes" =>
    /\ 2 * cnt <= pow \div 2
    /\ j <= cnt
    /\ i = 2 * j

Following == pc \in {"round", "leaves", "nodes"} => idx < count(hashes)

Typed ==
  /\ pc \in {"call", "round", "leaves", "nodes", "true", "false"}
  /\ hashes \in Inputs
  /\ hash \in {Leaf(l) : l \in Label}
  /\ pow \in Nat /\ cnt \in Nat /\ i \in Nat /\ j \in Nat
  /\ idx \in Nat /\ path \in Nat

IInv ==
  /\ Typed /\ Rounding /\ Allocated /\ FoldingLeaves /\ FoldingNodes
  /\ Following

(* What Inputs promises of the array that is folded. *)
LEMMA ArrayOfHashes ==
  ASSUME hashes \in Inputs
  PROVE  count(hashes) \in Nat /\ DOMAIN hashes = 0 .. count(hashes) - 1
BY InputsAssumption

(* Twice a number halves to it.                                            *)
LEMMA Halved ==
  ASSUME NEW q \in Nat
  PROVE  (2 * q) \div 2 = q
BY SMT

(* The search for the power of two starts at two.                          *)
LEMMA InitInvariant == Init => IInv
BY DEF Init, IInv, Typed, Rounding, Allocated, FoldingLeaves, FoldingNodes,
       Following

(* What is said of the pace of the loops keeps reads in bounds.            *)
LEMMA InvariantBounds == IInv => TypeOK /\ ReadsInBounds
<1> SUFFICES ASSUME IInv PROVE TypeOK /\ ReadsInBounds
  OBVIOUS
<1> USE DEF IInv, Typed
<1>0. count(hashes) \in Nat
  BY ArrayOfHashes
<1>1. TypeOK
  <2>1. CASE pc = "leaves"
    BY <1>0, <2>1 DEF TypeOK, Allocated, FoldingLeaves, Following
  <2>2. CASE pc = "nodes"
    BY <1>0, <2>2 DEF TypeOK, Allocated, FoldingNodes, Following
  <2>3. CASE pc \notin {"leaves", "nodes"}
    BY <2>3 DEF TypeOK
  <2> QED BY <2>1, <2>2, <2>3
<1>2. ReadsInBounds
  <2>1. CASE pc = "leaves"
    BY <1>0, <2>1 DEF ReadsInBounds, Allocated, FoldingLeaves
  <2>2. CASE pc = "nodes"
    BY <1>0, <2>2 DEF ReadsInBounds, Allocated, FoldingNodes
  <2>3. CASE pc \notin {"leaves", "nodes"}
    BY <2>3 DEF ReadsInBounds
  <2> QED BY <2>1, <2>2, <2>3
<1> QED BY <1>1, <1>2

(* Every turn of every loop keeps that pace.                               *)
LEMMA StepInvariant == IInv /\ [Next]_vars => IInv'
<1> SUFFICES ASSUME IInv, [Next]_vars PROVE IInv'
  OBVIOUS
<1> USE DEF IInv, Typed
<1>0. count(hashes) \in Nat /\ DOMAIN hashes = 0 .. count(hashes) - 1
  BY ArrayOfHashes
<1>1. CASE NotInTree
  BY <1>1 DEF NotInTree, arguments, outputs, Rounding, Allocated,
              FoldingLeaves, FoldingNodes, Following
<1>2. CASE Find
  <2>1. PICK k \in Places :
          idx' = k /\ (path' = k \/ path' = path)
    BY <1>2 DEF Find
  <2>2. k \in Nat /\ count(hashes) >= 1
    BY <1>0, <2>1 DEF Places
  <2>3. CASE count(hashes) <= 2
    BY <1>0, <1>2, <2>1, <2>2, <2>3
       DEF Find, arguments, outputs, Rounding, Allocated, FoldingLeaves,
           FoldingNodes, Following
  <2>4. CASE ~(count(hashes) <= 2)
    <3>1. pc' = "round" /\ UNCHANGED <<hashes, hash, pow, cnt, ints, i, j>>
      BY <1>2, <2>4 DEF Find, arguments
    <3>2. Typed'
      BY <3>1, <2>1, <2>2
    <3>3. pow' = 2 * 1 /\ count(hashes') >= 3 /\ 1 < count(hashes')
      BY <1>0, <1>2, <2>4, <3>1 DEF Find, Rounding
    <3>4. Rounding'
      BY <3>1, <3>3 DEF Rounding
    <3>5. Following'
      BY <1>0, <2>1, <3>1 DEF Places, Following
    <3> QED
      BY <3>1, <3>2, <3>4, <3>5 DEF Allocated, FoldingLeaves, FoldingNodes
  <2> QED BY <2>3, <2>4
<1>3. CASE Double
  <2>1. PICK q \in Nat : q >= 1 /\ pow = 2 * q /\ q < count(hashes)
    BY <1>3 DEF Double, Rounding
  <2>2. pow' = 2 * pow /\ pow \in Nat /\ pow >= 1 /\ pow < count(hashes)
    BY <1>3, <2>1 DEF Double
  <2>3. Rounding'
    BY <1>3, <2>2 DEF Double, Rounding, arguments
  <2> QED
    BY <1>3, <2>2, <2>3
       DEF Double, arguments, outputs, Allocated, FoldingLeaves, FoldingNodes,
           Following
<1>4. CASE Start
  <2>1. PICK q \in Nat : q >= 1 /\ pow = 2 * q /\ q < count(hashes)
    BY <1>4 DEF Start, Rounding
  <2>2. pow \div 2 = q
    BY <2>1, Halved
  <2>3. /\ count(hashes) >= 3 /\ count(hashes) <= 2 * q
        /\ q >= 2
    BY <1>0, <1>4, <2>1 DEF Start, Rounding
  <2>4. /\ cnt' = q /\ i' = 2 * q - count(hashes) /\ j' = 2 * q - count(hashes)
        /\ DOMAIN ints' = 0 .. q - 1 /\ pc' = "leaves"
        /\ UNCHANGED <<hashes, hash, pow, idx, branch, path>>
    BY <1>4, <2>2 DEF Start, arguments, outputs
  <2>5. pow' \div 2 = q /\ count(hashes') = count(hashes)
    BY <2>2, <2>4
  <2>6. Typed'
    BY <1>0, <2>1, <2>3, <2>4
  <2>7. Allocated'
    BY <1>0, <2>1, <2>3, <2>4, <2>5 DEF Allocated
  <2>8. FoldingLeaves'
    <3>1. /\ cnt' = pow' \div 2
          /\ 2 * cnt' - count(hashes') = j'
          /\ j' <= cnt'
          /\ j' = 2 * j' - j'
      BY <1>0, <2>1, <2>3, <2>4, <2>5
    <3> QED BY <3>1, <2>4, <2>6 DEF FoldingLeaves
  <2>9. Following'
    BY <1>4, <2>4, <2>5 DEF Start, Following
  <2> QED
    BY <2>4, <2>6, <2>7, <2>8, <2>9 DEF Rounding, FoldingNodes
<1>5. ASSUME NEW a, FoldPair(a), pc \in {"leaves", "nodes"}
      PROVE  IInv'
  <2>1. /\ j < cnt /\ i' = i + 2 /\ j' = j + 1
        /\ UNCHANGED <<pc, hashes, hash, pow, cnt>>
        /\ DOMAIN ints' = DOMAIN ints
    BY <1>5 DEF FoldPair, arguments
  <2>2. /\ idx' = idx \/ idx' = j
        /\ path' = path \/ path' = 2 * path \/ path' = 2 * path + 1
    BY <1>5 DEF FoldPair, outputs
  <2>3. Typed'
    BY <2>1, <2>2
  <2>4. Following'
    <3>1. cnt <= pow \div 2
      BY <1>5 DEF FoldingLeaves, FoldingNodes, Allocated
    <3>2. j < count(hashes)
      BY <1>0, <1>5, <2>1, <3>1 DEF Allocated
    <3> QED BY <1>5, <2>1, <2>2, <3>2 DEF Following
  <2>5. FoldingLeaves'
    BY <1>0, <2>1 DEF FoldingLeaves, Allocated
  <2>6. FoldingNodes'
    BY <2>1 DEF FoldingNodes
  <2>7. Rounding' /\ Allocated'
    BY <1>5, <2>1 DEF Rounding, Allocated
  <2> QED BY <2>3, <2>4, <2>5, <2>6, <2>7
<1>6. CASE FoldLeaves
  BY <1>5, <1>6 DEF FoldLeaves
<1>7. CASE FoldNodes
  BY <1>5, <1>7 DEF FoldNodes
<1>8. CASE NextLevel
  <2>1. /\ pc \in {"leaves", "nodes"} /\ cnt > 2 /\ cnt' = cnt \div 2
        /\ i' = 0 /\ j' = 0 /\ pc' = "nodes"
        /\ UNCHANGED <<hashes, hash, pow, ints, idx, branch, path>>
    BY <1>8 DEF NextLevel, arguments, outputs
  <2>2. cnt' \in Nat /\ 2 * cnt' <= cnt
    BY <2>1
  <2>3. cnt <= pow \div 2
    BY <2>1 DEF FoldingLeaves, FoldingNodes, Allocated
  <2> QED
    BY <2>1, <2>2, <2>3
       DEF Rounding, Allocated, FoldingLeaves, FoldingNodes, Following
<1>9. CASE Top
  <2>1. /\ pc' = "true" /\ UNCHANGED <<hashes, hash, pow, cnt, ints, i, j>>
        /\ idx' \in Nat /\ path' \in Nat
    BY <1>9 DEF Top, arguments, outputs
  <2> QED
    BY <2>1 DEF Rounding, Allocated, FoldingLeaves, FoldingNodes, Following
<1>10. CASE Returned
  BY <1>10 DEF Returned, vars, arguments, outputs, Rounding, Allocated,
               FoldingLeaves, FoldingNodes, Following
<1>11. CASE UNCHANGED vars
  BY <1>11 DEF vars, Rounding, Allocated, FoldingLeaves, FoldingNodes, Following
<1> QED
  BY <1>1, <1>2, <1>3, <1>4, <1>6, <1>7, <1>8, <1>9, <1>10, <1>11 DEF Next

(* However many hashes there are, tree_branch's variables keep their types *)
(* and the level being folded lies in the array allocated for the first.   *)
THEOREM BranchTypes == Spec => []TypeOK
<1>1. Spec => []IInv
  BY InitInvariant, StepInvariant, PTL DEF Spec
<1> QED BY <1>1, InvariantBounds, PTL

(* However many hashes there are, tree_branch reads and writes within its  *)
(* arrays and its first loop ends at the last hash, as the code asserts.   *)
THEOREM BranchInBounds == Spec => []ReadsInBounds
<1>1. Spec => []IInv
  BY InitInvariant, StepInvariant, PTL DEF Spec
<1> QED BY <1>1, InvariantBounds, PTL

-----------------------------------------------------------------------------
(* Numbers: induction, powers of two and shifts.  Induction is over a set of*)
(* numbers: a set without a least number that is missing misses none.      *)

(* Upwards: a set that holds 0, and with a number the next one, holds all  *)
(* numbers.                                                                *)
LEMMA Upwards ==
  ASSUME NEW P, 0 \in P, \A n \in Nat : n \in P => n + 1 \in P
  PROVE  Nat \subseteq P
<1> SUFFICES ASSUME NEW n \in Nat, n \notin P PROVE FALSE
  OBVIOUS
<1> DEFINE TT == {1 .. x : x \in (1 .. n) \ P}
<1>1. IsWellFoundedOn(StrictSubsetOrdering(1 .. n), FiniteSubsetsOf(1 .. n))
  BY FS_StrictSubsetOrderingWellFounded
<1>2. TT \subseteq FiniteSubsetsOf(1 .. n) /\ TT # {}
  <2>1. ASSUME NEW x \in (1 .. n) \ P PROVE 1 .. x \in FiniteSubsetsOf(1 .. n)
    BY FS_Interval DEF FiniteSubsetsOf
  <2>2. n \in (1 .. n) \ P
    OBVIOUS
  <2> QED BY <2>1, <2>2
<1>3. PICK z \in TT : \A w \in TT : <<w, z>> \notin StrictSubsetOrdering(1 .. n)
  <2> HIDE DEF TT
  <2> QED BY <1>1, <1>2, WFMin
<1>4. PICK x \in (1 .. n) \ P : z = 1 .. x
  OBVIOUS
<1>5. x - 1 \in Nat /\ x - 1 \notin P /\ x - 1 \in (1 .. n) \ P
  <2>1. x - 1 \in Nat /\ x - 1 + 1 = x
    BY <1>4
  <2>2. x - 1 \notin P
    BY <1>4, <2>1
  <2> QED BY <1>4, <2>1, <2>2
<1>6. 1 .. x - 1 \in TT
  BY <1>5
<1>7. <<1 .. x - 1, 1 .. x>> \in StrictSubsetOrdering(1 .. n)
  <2>1. 1 .. x - 1 \subseteq 1 .. x /\ x \in 1 .. x /\ x \notin 1 .. x - 1
    BY <1>4
  <2>2. 1 .. x - 1 \subseteq 1 .. n /\ 1 .. x \subseteq 1 .. n
    BY <1>4
  <2> QED BY <2>1, <2>2 DEF StrictSubsetOrdering
<1> QED BY <1>3, <1>4, <1>6, <1>7

(* PowerStep: the subsets of n + 1 numbers are twice as many as those of n.*)
LEMMA PowerStep ==
  ASSUME NEW n \in Nat
  PROVE  2 ^ n \in Nat /\ 2 ^ (n + 1) = 2 * 2 ^ n
<1> DEFINE S == 1 .. n
           x == n + 1
           A == SUBSET S
           B == {T \union {x} : T \in A}
<1>1. /\ IsFiniteSet(S) /\ Cardinality(S) = n
      /\ IsFiniteSet(1 .. x) /\ Cardinality(1 .. x) = n + 1
  BY FS_Interval
<1>2. 1 .. x = S \union {x} /\ x \notin S
  OBVIOUS
<1>3. /\ IsFiniteSet(A) /\ Cardinality(A) = 2 ^ n
      /\ IsFiniteSet(SUBSET (1 .. x)) /\ Cardinality(SUBSET (1 .. x)) = 2 ^ (n + 1)
  BY <1>1, FS_SUBSET
<1> HIDE DEF x, S
<1>4. SUBSET (1 .. x) = A \union B
  <2>1. SUBSET (1 .. x) \subseteq A \union B
    <3>1. ASSUME NEW T \in SUBSET (1 .. x), x \in T PROVE T \in B
      <4>1. T \ {x} \in A /\ T = (T \ {x}) \union {x}
        BY <1>2, <3>1
      <4> QED BY <4>1
    <3>2. ASSUME NEW T \in SUBSET (1 .. x), x \notin T PROVE T \in A
      BY <1>2, <3>2
    <3> QED BY <3>1, <3>2
  <2>2. A \union B \subseteq SUBSET (1 .. x)
    BY <1>2
  <2> QED BY <2>1, <2>2
<1>5. A \cap B = {}
  BY <1>2
<1>6. ExistsBijection(A, B)
  <2> DEFINE f == [T \in A |-> T \union {x}]
  <2>1. f \in [A -> B]
    OBVIOUS
  <2>2. \A T, U \in A : f[T] = f[U] => T = U
    BY <1>2
  <2>3. \A U \in B : \E T \in A : f[T] = U
    OBVIOUS
  <2> HIDE DEF f, A, B
  <2>4. f \in Bijection(A, B)
    BY <2>1, <2>2, <2>3 DEF Bijection, Injection, Surjection, IsInjective
  <2> QED BY <2>4 DEF ExistsBijection
<1> HIDE DEF A, B
<1>7. IsFiniteSet(B) /\ Cardinality(B) = Cardinality(A)
  BY <1>3, <1>6, FS_Bijection, FS_SameCardinalityBij, FS_CardinalityType
<1>8. Cardinality(A \union B) = Cardinality(A) + Cardinality(B) - Cardinality(A \cap B)
  BY <1>3, <1>7, FS_Union
<1>9. Cardinality(A \cap B) = 0 /\ Cardinality(A) \in Nat
  BY <1>3, <1>5, FS_EmptySet, FS_CardinalityType
<1> DEFINE c == Cardinality(A)
<1>10. 2 ^ n = c /\ c \in Nat
  BY <1>3, <1>9
<1>11. 2 ^ (n + 1) = Cardinality(A \union B)
  BY <1>3, <1>4
<1>12. Cardinality(A \union B) = c + c - 0
  BY <1>7, <1>8, <1>9
<1> HIDE DEF c
<1>13. c + c - 0 = 2 * c
  BY <1>10
<1> QED BY <1>10, <1>11, <1>12, <1>13

(* PowersFrom: the first powers of two; none is zero.                      *)
LEMMA PowersFrom == 2 ^ 0 = 1 /\ 2 ^ 1 = 2 /\ \A n \in Nat : 2 ^ n \in Nat \ {0}
<1>1. 2 ^ 0 = 1 /\ 2 ^ 1 = 2
  OBVIOUS
<1> DEFINE P == {n \in Nat : 2 ^ n \in Nat \ {0}}
<1>2. 0 \in P
  BY <1>1
<1>3. ASSUME NEW n \in Nat, n \in P PROVE n + 1 \in P
  <2>1. 2 ^ (n + 1) = 2 * 2 ^ n /\ 2 ^ n \in Nat \ {0}
    BY <1>3, PowerStep
  <2>2. 2 * 2 ^ n \in Nat \ {0}
    BY <2>1
  <2> QED BY <2>1, <2>2
<1>4. Nat \subseteq P
  <2> HIDE DEF P
  <2> QED BY <1>2, <1>3, Upwards
<1> QED BY <1>1, <1>4

(* Powers: exponents add when powers multiply.                             *)
LEMMA Powers ==
  ASSUME NEW a \in Nat, NEW b \in Nat
  PROVE  2 ^ (a + b) = 2 ^ a * 2 ^ b
<1> DEFINE P == {n \in Nat : 2 ^ (a + n) = 2 ^ a * 2 ^ n}
<1>1. 0 \in P
  <2>1. a + 0 = a /\ 2 ^ a \in Nat /\ 2 ^ 0 = 1
    BY PowersFrom
  <2>2. 2 ^ (a + 0) = 2 ^ a * 1
    BY <2>1
  <2> QED BY <2>1, <2>2
<1>2. ASSUME NEW n \in Nat, n \in P PROVE n + 1 \in P
  <2> DEFINE x == 2 ^ a
             y == 2 ^ n
  <2>1. 2 ^ (a + n) = x * y /\ x \in Nat /\ y \in Nat
    BY <1>2, PowersFrom
  <2>2. 2 ^ (n + 1) = 2 * y
    BY PowerStep
  <2>3. 2 ^ ((a + n) + 1) = 2 * 2 ^ (a + n)
    <3>1. a + n \in Nat
      OBVIOUS
    <3> QED BY <3>1, PowerStep
  <2>4. (a + n) + 1 = a + (n + 1)
    OBVIOUS
  <2> HIDE DEF x, y
  <2>5. 2 * (x * y) = x * (2 * y)
    BY <2>1
  <2>6. 2 ^ (a + (n + 1)) = x * (2 * y)
    BY <2>1, <2>3, <2>4, <2>5
  <2>7. 2 ^ (a + (n + 1)) = x * 2 ^ (n + 1)
    BY <2>2, <2>6
  <2> QED BY <2>7 DEF x
<1>3. Nat \subseteq P
  <2> HIDE DEF P
  <2> QED BY <1>1, <1>2, Upwards
<1> QED BY <1>3

(* PowersGrow: a greater exponent is at least twice the power.             *)
LEMMA PowersGrow ==
  ASSUME NEW a \in Nat, NEW b \in Nat, a < b
  PROVE  2 * 2 ^ a <= 2 ^ b
<1> DEFINE c == b - (a + 1)
<1>1. c \in Nat /\ b = (a + 1) + c
  OBVIOUS
<1> HIDE DEF c
<1>2. 2 ^ b = 2 ^ (a + 1) * 2 ^ c
  BY <1>1, Powers
<1>3. 2 ^ (a + 1) = 2 * 2 ^ a
  BY PowerStep
<1> DEFINE x == 2 ^ a
           y == 2 ^ c
<1>4. x \in Nat \ {0} /\ y \in Nat \ {0}
  BY <1>1, PowersFrom
<1>5. 2 ^ b = (2 * x) * y
  BY <1>2, <1>3
<1> HIDE DEF x, y
<1>6. 2 * x <= (2 * x) * y
  <2>1. \A z \in Nat : z <= z * y
    BY <1>4
  <2> QED BY <1>4, <2>1
<1> QED BY <1>5, <1>6 DEF x

(* Quotient: what a division gives.                                        *)
LEMMA Quotient ==
  ASSUME NEW a \in Int, NEW b \in Int, b > 0,
         NEW q \in Int, NEW r \in Int, 0 <= r, r < b, a = b * q + r
  PROVE  a \div b = q /\ a % b = r
OBVIOUS

(* DivMod: a number from what its division gives.                          *)
LEMMA DivMod ==
  ASSUME NEW a \in Int, NEW b \in Int, b > 0
  PROVE  /\ a = b * (a \div b) + (a % b) /\ 0 <= a % b /\ a % b < b
         /\ a \div b \in Int /\ a % b \in Int
OBVIOUS

(* HalfShift: shifting right by one bit more.                              *)
LEMMA HalfShift ==
  ASSUME NEW a \in Nat, NEW w \in Nat \ {0}
  PROVE  a \div (2 * w) = (a \div w) \div 2 /\ a \div w \in Nat
<1> DEFINE t == a \div w
           r == a % w
           u == t \div 2
           v == t % 2
<1>1. a = w * t + r /\ 0 <= r /\ r < w /\ t \in Int /\ r \in Int
  BY DivMod
<1> HIDE DEF t, r
<1>2. t = 2 * u + v /\ v \in {0, 1} /\ u \in Int
  BY <1>1
<1> HIDE DEF u, v
<1>3. a = (2 * w) * u + (w * v + r)
  <2>1. w * t = (2 * w) * u + w * v
    BY <1>1, <1>2
  <2>2. w * t \in Int /\ (2 * w) * u \in Int /\ w * v \in Int
    BY <1>1, <1>2
  <2> QED BY <1>1, <2>1, <2>2
<1>4. 0 <= w * v + r /\ w * v + r < 2 * w /\ w * v + r \in Int
  <2>1. CASE v = 0
    BY <1>1, <2>1
  <2>2. CASE v = 1
    BY <1>1, <2>2
  <2> QED BY <1>2, <2>1, <2>2
<1> DEFINE r2 == w * v + r
<1>5. 0 <= r2 /\ r2 < 2 * w /\ r2 \in Int /\ a = (2 * w) * u + r2
  BY <1>3, <1>4
<1> HIDE DEF r2
<1>6. a \div (2 * w) = u
  <2>1. 2 * w \in Int /\ 2 * w > 0
    OBVIOUS
  <2> QED BY <1>2, <1>5, <2>1, Quotient
<1>7. t \in Nat
  <2> SUFFICES ASSUME t <= -1 PROVE FALSE
    BY <1>1
  <2>1. w * t <= -w
    BY <1>1
  <2> QED BY <1>1, <2>1
<1> QED BY <1>6, <1>7 DEF u, t

(* Shifted: shifting right twice is shifting by the sum.                   *)
LEMMA Shifted ==
  ASSUME NEW a \in Nat, NEW x \in Nat, NEW y \in Nat
  PROVE  /\ (a \div 2 ^ x) \div 2 ^ y = a \div 2 ^ (x + y)
         /\ a \div 2 ^ x \in Nat
<1> DEFINE t == a \div 2 ^ x
           P == {n \in Nat : t \div 2 ^ n = a \div 2 ^ (x + n)}
<1>1. t \in Nat
  BY PowersFrom, HalfShift
<1> HIDE DEF t
<1>2. 0 \in P
  <2>1. 2 ^ 0 = 1 /\ x + 0 = x
    BY PowersFrom
  <2>2. t \div 1 = t
    BY <1>1
  <2>3. t \div 2 ^ 0 = a \div 2 ^ (x + 0)
    BY <2>1, <2>2 DEF t
  <2> QED BY <2>3
<1>3. ASSUME NEW n \in Nat, n \in P PROVE n + 1 \in P
  <2>1. t \div 2 ^ n = a \div 2 ^ (x + n)
    BY <1>3
  <2>2. 2 ^ (n + 1) = 2 * 2 ^ n /\ 2 ^ n \in Nat \ {0}
    BY PowerStep, PowersFrom
  <2>3. 2 ^ ((x + n) + 1) = 2 * 2 ^ (x + n) /\ 2 ^ (x + n) \in Nat \ {0}
    <3>1. x + n \in Nat
      OBVIOUS
    <3> QED BY <3>1, PowerStep, PowersFrom
  <2>4. t \div (2 * 2 ^ n) = (t \div 2 ^ n) \div 2
    BY <1>1, <2>2, HalfShift
  <2>5. a \div (2 * 2 ^ (x + n)) = (a \div 2 ^ (x + n)) \div 2
    BY <2>3, HalfShift
  <2>6. (x + n) + 1 = x + (n + 1)
    OBVIOUS
  <2>7. t \div 2 ^ (n + 1) = a \div 2 ^ (x + (n + 1))
    BY <2>1, <2>2, <2>3, <2>4, <2>5, <2>6
  <2> QED BY <2>7
<1>4. Nat \subseteq P
  <2> HIDE DEF P
  <2> QED BY <1>2, <1>3, Upwards
<1> QED BY <1>1, <1>4 DEF t

-----------------------------------------------------------------------------
(* The recursive functions of TreeHash exist: each is built up to its domain*)
(* from the end its recursion starts from.                                 *)

(* The functions that the operators of TreeHash are made of, by name; each *)
(* is defined by its own equation, so it has to be shown to exist.         *)
Doubles(n) == CHOOSE double : double = [p \in 1 .. 2 * n + 2 |-> IF p < n THEN double[2 * p] ELSE p]
Turns(a, n) ==
  CHOOSE turn :
    turn = [t \in 0 .. n |->
              IF t = 0 THEN a
              ELSE [turn[t - 1] EXCEPT ![t - 1] = cn_fast_hash(turn[t - 1][2 * t - 2], turn[t - 1][2 * t - 1])]]
Levels(h) ==
  CHOOSE down :
    down = [c \in 1 .. tree_hash_cnt(count(h)) |->
              IF 2 * c > tree_hash_cnt(count(h)) THEN FirstLevel(h, count(h), tree_hash_cnt(count(h)))
              ELSE FoldLevel(down[2 * c], c)]
Ups(n, k) ==
  CHOOSE up :
    up = [c \in 1 .. tree_hash_cnt(n) |->
            IF 2 * c > tree_hash_cnt(n) THEN Climb([at |-> k, path |-> 0], 2 * tree_hash_cnt(n) - n)
            ELSE Climb(up[2 * c], 0)]
Partials(leaf, siblings, p) ==
  CHOOSE partial :
    partial = [d \in 0 .. Len(siblings) |->
                 IF d = 0 THEN leaf
                 ELSE IF Bit(p, Len(siblings), d) = 1 THEN cn_fast_hash(siblings[d], partial[d - 1])
                 ELSE cn_fast_hash(partial[d - 1], siblings[d])]

(* DoublesExist: tree_hash_cnt's loop.                                     *)
LEMMA DoublesExist ==
  ASSUME NEW n \in Nat
  PROVE  /\ \A p \in 1 .. 2 * n + 2 : Doubles(n)[p] = IF p < n THEN Doubles(n)[2 * p] ELSE p
         /\ tree_hash_cnt(n) = Doubles(n)[2] \div 2
<1> DEFINE N == 2 * n + 2
           Is(f, k) == f = [p \in N - k .. N |-> IF p < n THEN f[2 * p] ELSE p]
           P == {k \in Nat : k < N => \E f : Is(f, k)}
<1>1. 0 \in P
  <2> DEFINE f == [p \in N .. N |-> p]
  <2>1. \A p \in N .. N : ~(p < n)
    OBVIOUS
  <2>2. Is(f, 0)
    BY <2>1
  <2> QED BY <2>2
<1>2. ASSUME NEW k \in Nat, k \in P PROVE k + 1 \in P
  <2> SUFFICES ASSUME k + 1 < N PROVE \E f : Is(f, k + 1)
    OBVIOUS
  <2>1. PICK f : Is(f, k)
    BY <1>2
  <2> DEFINE x == N - (k + 1)
             g == [p \in x .. N |-> IF p = x THEN (IF p < n THEN f[2 * p] ELSE p) ELSE f[p]]
  <2>2. x \in Nat \ {0} /\ N - k = x + 1 /\ n \in Nat /\ N = 2 * n + 2 /\ x < N
    OBVIOUS
  <2>3. \A p \in x + 1 .. N : f[p] = IF p < n THEN f[2 * p] ELSE p
    BY <2>1, <2>2
  <2> HIDE DEF x, N
  <2>4. ASSUME NEW p \in x .. N PROVE g[p] = IF p < n THEN g[2 * p] ELSE p
    <3>1. p < n => 2 * p \in x + 1 .. N /\ 2 * p # x /\ 2 * p \in x .. N
      BY <2>2
    <3>2. p < n => g[2 * p] = f[2 * p]
      BY <3>1
    <3>3. CASE p = x
      BY <3>2, <3>3
    <3>4. CASE p # x
      <4>1. p \in x + 1 .. N
        BY <2>2, <3>4
      <4> QED BY <2>3, <3>2, <3>4, <4>1
    <3> QED BY <3>3, <3>4
  <2>5. g = [p \in x .. N |-> IF p < n THEN g[2 * p] ELSE p]
    BY <2>4
  <2> HIDE DEF g
  <2> QED BY <2>5 DEF x
<1>3. Nat \subseteq P
  <2> HIDE DEF P
  <2> QED BY <1>1, <1>2, Upwards
<1>4. \E f : f = [p \in 1 .. N |-> IF p < n THEN f[2 * p] ELSE p]
  <2>1. N - 1 \in Nat /\ N - 1 < N /\ N - (N - 1) = 1
    OBVIOUS
  <2>2. \E f : Is(f, N - 1)
    BY <1>3, <2>1
  <2> HIDE DEF N
  <2> QED BY <2>1, <2>2
<1>5. Doubles(n) = [p \in 1 .. N |-> IF p < n THEN Doubles(n)[2 * p] ELSE p]
  BY <1>4 DEF Doubles
<1>6. tree_hash_cnt(n) = Doubles(n)[2] \div 2
  BY DEF tree_hash_cnt, Doubles
<1> QED BY <1>5, <1>6

(* TurnsExist: the turns of a level folded in place.                       *)
LEMMA TurnsExist ==
  ASSUME NEW a, NEW n \in Nat
  PROVE  /\ Turns(a, n)[0] = a
         /\ \A t \in 1 .. n :
              Turns(a, n)[t] =
                [Turns(a, n)[t - 1] EXCEPT ![t - 1] = cn_fast_hash(Turns(a, n)[t - 1][2 * t - 2], Turns(a, n)[t - 1][2 * t - 1])]
         /\ FoldLevel(a, n) = Turns(a, n)[n]
<1> DEFINE Turn(b, t) == [b EXCEPT ![t - 1] = cn_fast_hash(b[2 * t - 2], b[2 * t - 1])]
           Is(f, k) == f = [t \in 0 .. k |-> IF t = 0 THEN a ELSE Turn(f[t - 1], t)]
           P == {k \in Nat : \E f : Is(f, k)}
<1> HIDE DEF Turn
<1>1. 0 \in P
  <2> DEFINE f == [t \in 0 .. 0 |-> a]
  <2>1. Is(f, 0)
    OBVIOUS
  <2> QED BY <2>1
<1>2. ASSUME NEW k \in Nat, k \in P PROVE k + 1 \in P
  <2>1. PICK f : Is(f, k)
    BY <1>2
  <2> DEFINE g == [t \in 0 .. k + 1 |-> IF t = k + 1 THEN Turn(f[k], t) ELSE f[t]]
  <2>2. ASSUME NEW t \in 0 .. k + 1 PROVE g[t] = IF t = 0 THEN a ELSE Turn(g[t - 1], t)
    <3>1. t # 0 => t - 1 \in 0 .. k /\ t - 1 # k + 1 /\ g[t - 1] = f[t - 1]
      OBVIOUS
    <3>2. CASE t = k + 1
      <4>1. t # 0 /\ t - 1 = k /\ g[t] = Turn(f[k], t)
        BY <3>2
      <4> QED BY <3>1, <4>1
    <3>3. CASE t # k + 1
      <4>1. t \in 0 .. k /\ g[t] = f[t]
        BY <3>3
      <4>2. f[t] = IF t = 0 THEN a ELSE Turn(f[t - 1], t)
        BY <2>1, <4>1
      <4> QED BY <3>1, <4>1, <4>2
    <3> QED BY <3>2, <3>3
  <2>3. Is(g, k + 1)
    BY <2>2
  <2> HIDE DEF g
  <2>4. \E e : Is(e, k + 1)
    BY <2>3
  <2> HIDE DEF Is
  <2> QED BY <2>4
<1>3. Nat \subseteq P
  <2> HIDE DEF P
  <2> QED BY <1>1, <1>2, Upwards
<1>4. \E f : Is(f, n)
  BY <1>3
<1>5. Is(Turns(a, n), n)
  BY <1>4 DEF Turns, Turn
<1>6. FoldLevel(a, n) = Turns(a, n)[n]
  BY DEF FoldLevel, Turns
<1> DEFINE f == Turns(a, n)
<1>7. \A t \in 0 .. n : f[t] = IF t = 0 THEN a ELSE Turn(f[t - 1], t)
  BY <1>5
<1> HIDE DEF f
<1>8. f[0] = a /\ \A t \in 1 .. n : f[t] = Turn(f[t - 1], t)
  <2>1. 0 \in 0 .. n /\ \A t \in 1 .. n : t \in 0 .. n /\ t # 0
    OBVIOUS
  <2> QED BY <1>7, <2>1
<1> QED BY <1>6, <1>8 DEF f, Turn

(* LevelsExist: the levels of tree_hash.                                   *)
LEMMA LevelsExist ==
  ASSUME NEW h, NEW m \in Nat \ {0}, m = tree_hash_cnt(count(h))
  PROVE  /\ \A c \in 1 .. m :
              Levels(h)[c] = IF 2 * c > m THEN FirstLevel(h, count(h), m) ELSE FoldLevel(Levels(h)[2 * c], c)
         /\ count(h) \notin {1, 2} => tree_hash(h) = cn_fast_hash(Levels(h)[2][0], Levels(h)[2][1])
<1> DEFINE base == FirstLevel(h, count(h), m)
           Is(f, k) == f = [c \in m - k .. m |-> IF 2 * c > m THEN base ELSE FoldLevel(f[2 * c], c)]
           P == {k \in Nat : k < m => \E f : Is(f, k)}
<1>a. m \in Nat \ {0}
  OBVIOUS
<1> HIDE DEF base
<1>1. 0 \in P
  <2> DEFINE f == [c \in m .. m |-> base]
  <2>1. \A c \in m .. m : 2 * c > m
    OBVIOUS
  <2>2. Is(f, 0)
    BY <2>1
  <2> QED BY <2>2
<1>2. ASSUME NEW k \in Nat, k \in P PROVE k + 1 \in P
  <2> SUFFICES ASSUME k + 1 < m PROVE \E f : Is(f, k + 1)
    OBVIOUS
  <2>1. PICK f : Is(f, k)
    BY <1>2
  <2> DEFINE x == m - (k + 1)
             Value(fn, c) == IF 2 * c > m THEN base ELSE FoldLevel(fn[2 * c], c)
             g == [c \in x .. m |-> IF c = x THEN Value(f, c) ELSE f[c]]
  <2>2. x \in Nat \ {0} /\ m - k = x + 1 /\ x < m
    OBVIOUS
  <2>3. \A c \in x + 1 .. m : f[c] = Value(f, c)
    BY <2>1, <2>2
  <2> HIDE DEF x
  <2>4. ASSUME NEW c \in x .. m PROVE g[c] = Value(g, c)
    <3>1. ~(2 * c > m) => 2 * c \in x + 1 .. m /\ 2 * c # x /\ 2 * c \in x .. m
      BY <2>2
    <3>2. ~(2 * c > m) => g[2 * c] = f[2 * c]
      BY <3>1
    <3>3. Value(g, c) = Value(f, c)
      BY <3>2
    <3>4. CASE c = x
      BY <3>3, <3>4
    <3>5. CASE c # x
      <4>1. c \in x + 1 .. m
        BY <2>2, <3>5
      <4>2. g[c] = f[c]
        BY <3>5
      <4> QED BY <2>3, <3>3, <4>1, <4>2
    <3> QED BY <3>4, <3>5
  <2>5. g = [c \in x .. m |-> Value(g, c)]
    BY <2>4
  <2> HIDE DEF g
  <2>6. Is(g, k + 1)
    BY <2>5 DEF x
  <2> QED BY <2>6
<1>3. Nat \subseteq P
  <2> HIDE DEF P
  <2> QED BY <1>1, <1>2, Upwards
<1>4. \E f : f = [c \in 1 .. m |-> IF 2 * c > m THEN base ELSE FoldLevel(f[2 * c], c)]
  <2>1. m - 1 \in Nat /\ m - 1 < m /\ m - (m - 1) = 1
    BY <1>a
  <2>2. \E f : Is(f, m - 1)
    BY <1>3, <2>1
  <2> QED BY <2>1, <2>2
<1>5. Levels(h) = [c \in 1 .. m |-> IF 2 * c > m THEN base ELSE FoldLevel(Levels(h)[2 * c], c)]
  BY <1>4 DEF Levels, base
<1>6. count(h) \notin {1, 2} => tree_hash(h) = cn_fast_hash(Levels(h)[2][0], Levels(h)[2][1])
  BY DEF tree_hash, Levels
<1> QED BY <1>5, <1>6 DEF base

(* UpsExist: the levels of tree_path.                                      *)
LEMMA UpsExist ==
  ASSUME NEW n, NEW k, NEW m \in Nat \ {0}, m = tree_hash_cnt(n)
  PROVE  /\ \A c \in 1 .. m :
              Ups(n, k)[c] = IF 2 * c > m THEN Climb([at |-> k, path |-> 0], 2 * m - n) ELSE Climb(Ups(n, k)[2 * c], 0)
         /\ tree_path(n, k) = IF n <= 2 THEN k ELSE Ups(n, k)[1].path
<1> DEFINE base == Climb([at |-> k, path |-> 0], 2 * m - n)
           Is(f, j0) == f = [c \in m - j0 .. m |-> IF 2 * c > m THEN base ELSE Climb(f[2 * c], 0)]
           P == {j0 \in Nat : j0 < m => \E f : Is(f, j0)}
<1>a. m \in Nat \ {0}
  OBVIOUS
<1> HIDE DEF base
<1>1. 0 \in P
  <2> DEFINE f == [c \in m .. m |-> base]
  <2>1. \A c \in m .. m : 2 * c > m
    OBVIOUS
  <2>2. Is(f, 0)
    BY <2>1
  <2> QED BY <2>2
<1>2. ASSUME NEW j0 \in Nat, j0 \in P PROVE j0 + 1 \in P
  <2> SUFFICES ASSUME j0 + 1 < m PROVE \E f : Is(f, j0 + 1)
    OBVIOUS
  <2>1. PICK f : Is(f, j0)
    BY <1>2
  <2> DEFINE x == m - (j0 + 1)
             Value(fn, c) == IF 2 * c > m THEN base ELSE Climb(fn[2 * c], 0)
             g == [c \in x .. m |-> IF c = x THEN Value(f, c) ELSE f[c]]
  <2>2. x \in Nat \ {0} /\ m - j0 = x + 1 /\ x < m
    OBVIOUS
  <2>3. \A c \in x + 1 .. m : f[c] = Value(f, c)
    BY <2>1, <2>2
  <2> HIDE DEF x
  <2>4. ASSUME NEW c \in x .. m PROVE g[c] = Value(g, c)
    <3>1. ~(2 * c > m) => 2 * c \in x + 1 .. m /\ 2 * c # x /\ 2 * c \in x .. m
      BY <2>2
    <3>2. ~(2 * c > m) => g[2 * c] = f[2 * c]
      BY <3>1
    <3>3. Value(g, c) = Value(f, c)
      BY <3>2
    <3>4. CASE c = x
      BY <3>3, <3>4
    <3>5. CASE c # x
      <4>1. c \in x + 1 .. m
        BY <2>2, <3>5
      <4>2. g[c] = f[c]
        BY <3>5
      <4> QED BY <2>3, <3>3, <4>1, <4>2
    <3> QED BY <3>4, <3>5
  <2>5. g = [c \in x .. m |-> Value(g, c)]
    BY <2>4
  <2> HIDE DEF g
  <2>6. Is(g, j0 + 1)
    BY <2>5 DEF x
  <2> QED BY <2>6
<1>3. Nat \subseteq P
  <2> HIDE DEF P
  <2> QED BY <1>1, <1>2, Upwards
<1>4. \E f : f = [c \in 1 .. m |-> IF 2 * c > m THEN base ELSE Climb(f[2 * c], 0)]
  <2>1. m - 1 \in Nat /\ m - 1 < m /\ m - (m - 1) = 1
    BY <1>a
  <2>2. \E f : Is(f, m - 1)
    BY <1>3, <2>1
  <2> QED BY <2>1, <2>2
<1>5. Ups(n, k) = [c \in 1 .. m |-> IF 2 * c > m THEN base ELSE Climb(Ups(n, k)[2 * c], 0)]
  BY <1>4, ZenonT(60) DEF Ups, base
<1>6. tree_path(n, k) = IF n <= 2 THEN k ELSE Ups(n, k)[1].path
  BY DEF tree_path, Ups
<1> QED BY <1>5, <1>6 DEF base

(* PartialsExist: the turns of tree_branch_hash.                           *)
LEMMA PartialsExist ==
  ASSUME NEW leaf, NEW siblings, Len(siblings) \in Nat, NEW p
  PROVE  /\ Partials(leaf, siblings, p)[0] = leaf
         /\ \A d \in 1 .. Len(siblings) :
              Partials(leaf, siblings, p)[d] =
                IF Bit(p, Len(siblings), d) = 1 THEN cn_fast_hash(siblings[d], Partials(leaf, siblings, p)[d - 1])
                ELSE cn_fast_hash(Partials(leaf, siblings, p)[d - 1], siblings[d])
         /\ tree_branch_hash(leaf, siblings, p) = Partials(leaf, siblings, p)[Len(siblings)]
<1> DEFINE n == Len(siblings)
           Turn(b, d) == IF Bit(p, n, d) = 1 THEN cn_fast_hash(siblings[d], b) ELSE cn_fast_hash(b, siblings[d])
           Is(f, k) == f = [d \in 0 .. k |-> IF d = 0 THEN leaf ELSE Turn(f[d - 1], d)]
           P == {k \in Nat : \E f : Is(f, k)}
<1> HIDE DEF Turn
<1>1. 0 \in P
  <2> DEFINE f == [d \in 0 .. 0 |-> leaf]
  <2>1. Is(f, 0)
    OBVIOUS
  <2> QED BY <2>1
<1>2. ASSUME NEW k \in Nat, k \in P PROVE k + 1 \in P
  <2>1. PICK f : Is(f, k)
    BY <1>2
  <2> DEFINE g == [d \in 0 .. k + 1 |-> IF d = k + 1 THEN Turn(f[k], d) ELSE f[d]]
  <2>2. ASSUME NEW d \in 0 .. k + 1 PROVE g[d] = IF d = 0 THEN leaf ELSE Turn(g[d - 1], d)
    <3>1. d # 0 => d - 1 \in 0 .. k /\ d - 1 # k + 1 /\ g[d - 1] = f[d - 1]
      OBVIOUS
    <3>2. CASE d = k + 1
      <4>1. d # 0 /\ d - 1 = k /\ g[d] = Turn(f[k], d)
        BY <3>2
      <4> QED BY <3>1, <4>1
    <3>3. CASE d # k + 1
      <4>1. d \in 0 .. k /\ g[d] = f[d]
        BY <3>3
      <4>2. f[d] = IF d = 0 THEN leaf ELSE Turn(f[d - 1], d)
        BY <2>1, <4>1
      <4> QED BY <3>1, <4>1, <4>2
    <3> QED BY <3>2, <3>3
  <2>3. Is(g, k + 1)
    BY <2>2
  <2> HIDE DEF g
  <2>4. \E e : Is(e, k + 1)
    BY <2>3
  <2> HIDE DEF Is
  <2> QED BY <2>4
<1>3. Nat \subseteq P
  <2> HIDE DEF P
  <2> QED BY <1>1, <1>2, Upwards
<1>4. \E f : Is(f, n)
  BY <1>3
<1>5. Is(Partials(leaf, siblings, p), n)
  BY <1>4 DEF Partials, Turn
<1>6. tree_branch_hash(leaf, siblings, p) = Partials(leaf, siblings, p)[n]
  BY DEF tree_branch_hash, Partials
<1> DEFINE f == Partials(leaf, siblings, p)
<1>7. \A d \in 0 .. n : f[d] = IF d = 0 THEN leaf ELSE Turn(f[d - 1], d)
  BY <1>5
<1> HIDE DEF f
<1>8. f[0] = leaf /\ \A d \in 1 .. n : f[d] = Turn(f[d - 1], d)
  <2>1. n \in Nat
    OBVIOUS
  <2>2. 0 \in 0 .. n /\ \A d \in 1 .. n : d \in 0 .. n /\ d # 0
    BY <2>1
  <2> QED BY <1>7, <2>2
<1> QED BY <1>6, <1>8 DEF f, Turn

-----------------------------------------------------------------------------
(* Levels: what tree_hash_cnt and one folding of a level give.             *)

(* BelowPower: a number is below its power of two.                         *)
LEMMA BelowPower ==
  ASSUME NEW e \in Nat PROVE e < 2 ^ e
<1> DEFINE P == {x \in Nat : x < 2 ^ x}
<1>1. 0 \in P
  BY PowersFrom
<1>2. ASSUME NEW x \in Nat, x \in P PROVE x + 1 \in P
  <2>1. 2 ^ (x + 1) = 2 * 2 ^ x /\ 2 ^ x \in Nat
    BY PowerStep
  <2> QED BY <1>2, <2>1
<1>3. Nat \subseteq P
  <2> HIDE DEF P
  <2> QED BY <1>1, <1>2, Upwards
<1> QED BY <1>3

(* Rounded: tree_hash_cnt gives the greatest power of two below n.         *)
LEMMA Rounded ==
  ASSUME NEW n \in Nat, n >= 3
  PROVE  \E K \in Nat \ {0} : tree_hash_cnt(n) = 2 ^ K /\ 2 ^ K < n /\ n <= 2 * 2 ^ K
<1> DEFINE D == Doubles(n)
           Q == {e \in Nat : 2 ^ e < n /\ D[2] = D[2 ^ (e + 1)]}
<1>1. \A e \in Nat : e < 2 ^ e
  BY BelowPower
<1>2. PICK e \in Nat : e \in Q /\ e + 1 \notin Q
  <2> SUFFICES ASSUME \A e \in Nat : e \in Q => e + 1 \in Q PROVE FALSE
    OBVIOUS
  <2>1. 0 \in Q
    BY PowersFrom
  <2>2. Nat \subseteq Q
    <3> HIDE DEF Q
    <3> QED BY <2>1, Upwards
  <2>3. 2 ^ n < n /\ n < 2 ^ n /\ 2 ^ n \in Nat
    BY <1>1, <2>2, PowersFrom
  <2> QED BY <2>3
<1> DEFINE w == 2 ^ e
<1>3. w \in Nat \ {0} /\ 2 ^ (e + 1) = 2 * w /\ 2 ^ (e + 2) = 2 * (2 * w)
  <2>1. e + 1 + 1 = e + 2 /\ e + 1 \in Nat
    OBVIOUS
  <2>2. 2 ^ (e + 1 + 1) = 2 * 2 ^ (e + 1)
    BY <2>1, PowerStep
  <2> QED BY <2>1, <2>2, PowerStep, PowersFrom
<1>4. w < n /\ D[2] = D[2 * w]
  BY <1>2, <1>3
<1>5. D[2 * w] = IF 2 * w < n THEN D[2 * (2 * w)] ELSE 2 * w
  <2> HIDE DEF w, D
  <2>1. 2 * w \in 1 .. 2 * n + 2
    BY <1>3, <1>4
  <2> QED BY <2>1, DoublesExist DEF D
<1>6. ~(2 * w < n)
  <2> SUFFICES ASSUME 2 * w < n PROVE FALSE
    OBVIOUS
  <2>1. D[2] = D[2 ^ (e + 2)] /\ 2 ^ (e + 1) < n /\ e + 2 = (e + 1) + 1
    BY <1>3, <1>4, <1>5
  <2>2. e + 1 \in Nat
    OBVIOUS
  <2>3. D[2] = D[2 ^ ((e + 1) + 1)]
    BY <2>1
  <2> HIDE DEF D
  <2>4. e + 1 \in Q
    BY <2>1, <2>2, <2>3
  <2> QED BY <1>2, <2>4
<1>7. tree_hash_cnt(n) = w
  <2>1. tree_hash_cnt(n) = D[2] \div 2
    BY DoublesExist
  <2>2. D[2] = 2 * w
    BY <1>4, <1>5, <1>6
  <2> HIDE DEF D, w
  <2>3. (2 * w) \div 2 = w
    BY <1>3
  <2> QED BY <2>1, <2>2, <2>3
<1>8. e # 0
  <2>1. e = 0 => w = 1
    BY PowersFrom
  <2> HIDE DEF w
  <2> QED BY <1>6, <2>1
<1> QED
  <2>1. n <= 2 * w
    <3> HIDE DEF w
    <3> QED BY <1>3, <1>6
  <2> QED BY <1>4, <1>7, <1>8, <2>1

(* OnePower: no other power of two is the greatest below n.                *)
LEMMA OnePower ==
  ASSUME NEW n \in Nat, NEW a \in Nat, NEW b \in Nat,
         2 ^ a < n, n <= 2 * 2 ^ a, 2 ^ b < n, n <= 2 * 2 ^ b
  PROVE  a = b
<1> DEFINE x == 2 ^ a
           y == 2 ^ b
<1>1. x \in Nat /\ y \in Nat
  BY PowersFrom
<1>2. a < b => 2 * x <= y
  BY PowersGrow
<1>3. b < a => 2 * y <= x
  BY PowersGrow
<1>4. x < n /\ n <= 2 * x /\ y < n /\ n <= 2 * y
  OBVIOUS
<1> HIDE DEF x, y
<1> QED BY <1>1, <1>2, <1>3, <1>4

(* An array of x places, and with its pairs hashed into its first n.       *)
Array(a, x) == a = [t \in 0 .. x - 1 |-> a[t]]
Paired(a, n, x) == [t \in 0 .. x - 1 |-> IF t < n THEN cn_fast_hash(a[2 * t], a[2 * t + 1]) ELSE a[t]]

(* Folded: a level folded in place has the hashes of its pairs in front    *)
(* and what it had behind.                                                 *)
LEMMA Folded ==
  ASSUME NEW x \in Nat, NEW n \in Nat, 2 * n <= x, NEW a, Array(a, x)
  PROVE  FoldLevel(a, n) = Paired(a, n, x)
<1> DEFINE T == Turns(a, n)
           Sofar(k) == [t \in 0 .. x - 1 |-> IF t < k THEN cn_fast_hash(a[2 * t], a[2 * t + 1]) ELSE a[t]]
           P == {k \in Nat : k <= n => T[k] = Sofar(k)}
<1>1. /\ T[0] = a
      /\ \A t \in 1 .. n : T[t] = [T[t - 1] EXCEPT ![t - 1] = cn_fast_hash(T[t - 1][2 * t - 2], T[t - 1][2 * t - 1])]
      /\ FoldLevel(a, n) = T[n]
  BY TurnsExist
<1> HIDE DEF T
<1>2. 0 \in P
  <2>1. \A t \in 0 .. x - 1 : ~(t < 0)
    OBVIOUS
  <2>2. Sofar(0) = [t \in 0 .. x - 1 |-> a[t]]
    BY <2>1
  <2> HIDE DEF Sofar
  <2> QED BY <1>1, <2>2 DEF Array
<1>3. ASSUME NEW k \in Nat, k \in P PROVE k + 1 \in P
  <2> SUFFICES ASSUME k + 1 <= n PROVE T[k + 1] = Sofar(k + 1)
    OBVIOUS
  <2>1. T[k] = Sofar(k)
    BY <1>3
  <2>2. k + 1 \in 1 .. n /\ (k + 1) - 1 = k /\ 2 * (k + 1) - 2 = 2 * k /\ 2 * (k + 1) - 1 = 2 * k + 1
    OBVIOUS
  <2>3. T[k + 1] = [T[k] EXCEPT ![k] = cn_fast_hash(T[k][2 * k], T[k][2 * k + 1])]
    BY <1>1, <2>2
  <2>4. Sofar(k)[2 * k] = a[2 * k] /\ Sofar(k)[2 * k + 1] = a[2 * k + 1]
    OBVIOUS
  <2>5. T[k + 1] = [Sofar(k) EXCEPT ![k] = cn_fast_hash(a[2 * k], a[2 * k + 1])]
    <3> HIDE DEF Sofar
    <3> QED BY <2>1, <2>3, <2>4
  <2>6. [Sofar(k) EXCEPT ![k] = cn_fast_hash(a[2 * k], a[2 * k + 1])] = Sofar(k + 1)
    <3> DEFINE g == [Sofar(k) EXCEPT ![k] = cn_fast_hash(a[2 * k], a[2 * k + 1])]
               pair(t) == cn_fast_hash(a[2 * t], a[2 * t + 1])
    <3>1. g = [t \in 0 .. x - 1 |-> IF t = k THEN pair(k) ELSE Sofar(k)[t]]
      OBVIOUS
    <3>2. ASSUME NEW t \in 0 .. x - 1
          PROVE  (IF t = k THEN pair(k) ELSE Sofar(k)[t]) = IF t < k + 1 THEN pair(t) ELSE a[t]
      <4>1. Sofar(k)[t] = IF t < k THEN pair(t) ELSE a[t]
        OBVIOUS
      <4> HIDE DEF pair, Sofar
      <4> QED BY <4>1
    <3> HIDE DEF g, pair
    <3>3. g = [t \in 0 .. x - 1 |-> IF t < k + 1 THEN pair(t) ELSE a[t]]
      BY <3>1, <3>2
    <3> QED BY <3>3 DEF g, pair
  <2> QED BY <2>5, <2>6
<1>4. Nat \subseteq P
  <2> HIDE DEF P
  <2> QED BY <1>2, <1>3, Upwards
<1>5. T[n] = Sofar(n)
  <2>1. n \in P
    BY <1>4
  <2> HIDE DEF Sofar
  <2> QED BY <2>1
<1> QED BY <1>1, <1>5 DEF Paired

(* The level of c nodes that tree_hash computes, with what is behind it.   *)
LevelShape(h, m, c) == Array(Levels(h)[c], m)

(* LevelsFold: one level of tree_hash from the one below it.               *)
LEMMA LevelsFold ==
  ASSUME NEW h, NEW m \in Nat \ {0}, m = tree_hash_cnt(count(h)), NEW c \in Nat \ {0}, 2 * c <= m,
         LevelShape(h, m, 2 * c)
  PROVE  /\ LevelShape(h, m, c)
         /\ \A t \in 0 .. m - 1 :
              Levels(h)[c][t] =
                IF t < c THEN cn_fast_hash(Levels(h)[2 * c][2 * t], Levels(h)[2 * c][2 * t + 1]) ELSE Levels(h)[2 * c][t]
<1> DEFINE L == Levels(h)
<1>1. L[c] = FoldLevel(L[2 * c], c)
  <2>1. c \in 1 .. m /\ ~(2 * c > m)
    OBVIOUS
  <2>2. L[c] = IF 2 * c > m THEN FirstLevel(h, count(h), m) ELSE FoldLevel(L[2 * c], c)
    BY <2>1, LevelsExist
  <2> QED BY <2>1, <2>2
<1> DEFINE b == L[2 * c]
<1>2. FoldLevel(b, c) = Paired(b, c, m)
  <2>1. Array(b, m) /\ m \in Nat /\ c \in Nat /\ 2 * c <= m
    BY DEF LevelShape
  <2> HIDE DEF b
  <2> QED BY <2>1, Folded
<1>3. L[c] = [t \in 0 .. m - 1 |-> IF t < c THEN cn_fast_hash(b[2 * t], b[2 * t + 1]) ELSE b[t]]
  BY <1>1, <1>2 DEF Paired
<1> HIDE DEF b
<1>4. /\ L[c] = [t \in 0 .. m - 1 |-> L[c][t]]
      /\ \A t \in 0 .. m - 1 : L[c][t] = IF t < c THEN cn_fast_hash(b[2 * t], b[2 * t + 1]) ELSE b[t]
  <2> HIDE DEF L
  <2> QED BY <1>3
<1> QED BY <1>4 DEF LevelShape, Array, b

(* LevelsFirst: the first level of tree_hash.                              *)
LEMMA LevelsFirst ==
  ASSUME NEW h, NEW m \in Nat \ {0}, m = tree_hash_cnt(count(h))
  PROVE  /\ LevelShape(h, m, m)
         /\ Levels(h)[m] = FirstLevel(h, count(h), m)
<1>1. m \in 1 .. m /\ 2 * m > m
  OBVIOUS
<1>2. Levels(h)[m] = IF 2 * m > m THEN FirstLevel(h, count(h), m) ELSE FoldLevel(Levels(h)[2 * m], m)
  BY <1>1, LevelsExist
<1>3. Levels(h)[m] = FirstLevel(h, count(h), m)
  BY <1>1, <1>2
<1>4. FirstLevel(h, count(h), m) = [t \in 0 .. m - 1 |-> FirstLevel(h, count(h), m)[t]]
  BY DEF FirstLevel
<1> QED BY <1>3, <1>4 DEF LevelShape, Array

-----------------------------------------------------------------------------
(* RootIsMerkle, by induction over the levels.                             *)

(* The roots over 2^d nodes that RootIsMerkle defines, from its level up.  *)
Tops(level, depth) ==
  CHOOSE top :
    top = [d \in 0 .. depth |->
             IF d = 0 THEN level
             ELSE [k \in 0 .. 2 ^ depth - 2 ^ d |-> cn_fast_hash(top[d - 1][k], top[d - 1][k + 2 ^ (d - 1)])]]

(* TopsExist: they are defined for each depth.                             *)
LEMMA TopsExist ==
  ASSUME NEW level, NEW depth \in Nat
  PROVE  /\ Tops(level, depth)[0] = level
         /\ \A d \in 1 .. depth :
              Tops(level, depth)[d] =
                [k \in 0 .. 2 ^ depth - 2 ^ d |->
                   cn_fast_hash(Tops(level, depth)[d - 1][k], Tops(level, depth)[d - 1][k + 2 ^ (d - 1)])]
<1> DEFINE Turn(b, d) == [k \in 0 .. 2 ^ depth - 2 ^ d |-> cn_fast_hash(b[k], b[k + 2 ^ (d - 1)])]
           Is(f, k) == f = [d \in 0 .. k |-> IF d = 0 THEN level ELSE Turn(f[d - 1], d)]
           P == {k \in Nat : \E f : Is(f, k)}
<1> HIDE DEF Turn
<1>1. 0 \in P
  <2> DEFINE f == [d \in 0 .. 0 |-> level]
  <2>1. Is(f, 0)
    OBVIOUS
  <2> QED BY <2>1
<1>2. ASSUME NEW k \in Nat, k \in P PROVE k + 1 \in P
  <2>1. PICK f : Is(f, k)
    BY <1>2
  <2> DEFINE g == [d \in 0 .. k + 1 |-> IF d = k + 1 THEN Turn(f[k], d) ELSE f[d]]
  <2>2. ASSUME NEW d \in 0 .. k + 1 PROVE g[d] = IF d = 0 THEN level ELSE Turn(g[d - 1], d)
    <3>1. d # 0 => d - 1 \in 0 .. k /\ d - 1 # k + 1 /\ g[d - 1] = f[d - 1]
      OBVIOUS
    <3>2. CASE d = k + 1
      <4>1. d # 0 /\ d - 1 = k /\ g[d] = Turn(f[k], d)
        BY <3>2
      <4> QED BY <3>1, <4>1
    <3>3. CASE d # k + 1
      <4>1. d \in 0 .. k /\ g[d] = f[d]
        BY <3>3
      <4>2. f[d] = IF d = 0 THEN level ELSE Turn(f[d - 1], d)
        BY <2>1, <4>1
      <4> QED BY <3>1, <4>1, <4>2
    <3> QED BY <3>2, <3>3
  <2>3. Is(g, k + 1)
    BY <2>2
  <2> HIDE DEF g
  <2>4. \E e : Is(e, k + 1)
    BY <2>3
  <2> HIDE DEF Is
  <2> QED BY <2>4
<1>3. Nat \subseteq P
  <2> HIDE DEF P
  <2> QED BY <1>1, <1>2, Upwards
<1>4. \E f : Is(f, depth)
  BY <1>3
<1>5. Is(Tops(level, depth), depth)
  BY <1>4 DEF Tops, Turn
<1> DEFINE f == Tops(level, depth)
<1>6. \A d \in 0 .. depth : f[d] = IF d = 0 THEN level ELSE Turn(f[d - 1], d)
  BY <1>5
<1> HIDE DEF f
<1>7. f[0] = level /\ \A d \in 1 .. depth : f[d] = Turn(f[d - 1], d)
  <2>1. 0 \in 0 .. depth /\ \A d \in 1 .. depth : d \in 0 .. depth /\ d # 0
    OBVIOUS
  <2> QED BY <1>6, <2>1
<1> QED BY <1>7 DEF f, Turn

(* Below: the hashes of the tree's lowest full level.                      *)
Below(h, m) ==
  [k \in 0 .. m - 1 |->
     IF k < m - (count(h) - m) THEN h[k]
     ELSE LET f == 2 * k - (m - (count(h) - m)) IN cn_fast_hash(h[f], h[f + 1])]

(* LevelsAreTops: place t of the level of c nodes that tree_hash computes  *)
(* holds the root over the nodes below it.                                 *)
LEMMA LevelsAreTops ==
  ASSUME NEW h, count(h) \in Nat, NEW K \in Nat \ {0}, tree_hash_cnt(count(h)) = 2 ^ K,
         NEW d \in Nat, d <= K
  PROVE  /\ LevelShape(h, 2 ^ K, 2 ^ (K - d))
         /\ \A t \in 0 .. 2 ^ (K - d) - 1 :
              Levels(h)[2 ^ (K - d)][t] = Tops(Below(h, 2 ^ K), K)[d][t * 2 ^ d]
<1> DEFINE m == 2 ^ K
           L == Levels(h)
           top == Tops(Below(h, m), K)
           Q(x) == /\ LevelShape(h, m, 2 ^ (K - x))
                   /\ \A t \in 0 .. 2 ^ (K - x) - 1 : L[2 ^ (K - x)][t] = top[x][t * 2 ^ x]
           P == {x \in Nat : x <= K => Q(x)}
<1>1. m \in Nat \ {0} /\ m = tree_hash_cnt(count(h))
  BY PowersFrom
<1>2. /\ top[0] = Below(h, m)
      /\ \A x \in 1 .. K : top[x] = [k \in 0 .. m - 2 ^ x |-> cn_fast_hash(top[x - 1][k], top[x - 1][k + 2 ^ (x - 1)])]
  BY TopsExist
<1> HIDE DEF top
<1>3. 0 \in P
  <2>1. 2 ^ (K - 0) = m /\ 2 ^ 0 = 1
    BY PowersFrom
  <2>2. LevelShape(h, m, m) /\ L[m] = FirstLevel(h, count(h), m)
    BY <1>1, LevelsFirst
  <2>3. ASSUME NEW t \in 0 .. m - 1 PROVE L[m][t] = top[0][t * 1]
    <3> HIDE DEF m
    <3>1. t * 1 = t /\ m - (count(h) - m) = 2 * m - count(h)
      BY <1>1
    <3>2. 2 * t - (2 * m - count(h)) = 2 * t - (m - (count(h) - m))
      BY <3>1
    <3>3. Below(h, m)[t] = IF t < 2 * m - count(h) THEN h[t]
                           ELSE cn_fast_hash(h[2 * t - (2 * m - count(h))], h[2 * t - (2 * m - count(h)) + 1])
      BY <3>1, <3>2 DEF Below
    <3>4. FirstLevel(h, count(h), m)[t] =
            IF t < 2 * m - count(h) THEN h[t]
            ELSE cn_fast_hash(h[2 * t - (2 * m - count(h))], h[2 * t - (2 * m - count(h)) + 1])
      BY DEF FirstLevel
    <3> QED BY <1>2, <2>2, <3>1, <3>3, <3>4
  <2> HIDE DEF m, L
  <2>4. Q(0)
    BY <2>1, <2>2, <2>3
  <2> QED BY <2>4
<1>4. ASSUME NEW x \in Nat, x \in P PROVE x + 1 \in P
  <2> SUFFICES ASSUME x + 1 <= K PROVE Q(x + 1)
    OBVIOUS
  <2>1. Q(x)
    BY <1>4
  <2> DEFINE y == K - (x + 1)
             c == 2 ^ y
             w == 2 ^ x
  <2>2. y \in Nat /\ K - x = y + 1 /\ K = y + (x + 1) /\ (x + 1) - 1 = x /\ x + 1 \in 1 .. K
    OBVIOUS
  <2>3. c \in Nat \ {0} /\ w \in Nat \ {0} /\ 2 ^ (K - x) = 2 * c /\ 2 ^ (x + 1) = 2 * w /\ m = c * (2 * w)
    <3>1. m = 2 ^ y * 2 ^ (x + 1)
      BY <2>2, Powers
    <3> HIDE DEF y
    <3>2. 2 ^ (y + 1) = 2 * 2 ^ y /\ 2 ^ (x + 1) = 2 * 2 ^ x
      BY <2>2, PowerStep
    <3> QED BY <2>2, <3>1, <3>2, PowersFrom
  <2> HIDE DEF y, c, w, m
  <2>4. 2 * c <= m
    <3>1. \A u \in Nat \ {0} : c <= c * u
      BY <2>3
    <3>2. c * (2 * w) = 2 * (c * w) /\ c * w \in Nat /\ c <= c * w
      BY <2>3, <3>1
    <3> QED BY <2>3, <3>2
  <2>5. LevelShape(h, m, 2 * c) /\ \A t \in 0 .. 2 * c - 1 : L[2 * c][t] = top[x][t * w]
    BY <2>1, <2>3 DEF w
  <2>6. /\ LevelShape(h, m, c)
        /\ \A t \in 0 .. m - 1 :
             L[c][t] = IF t < c THEN cn_fast_hash(L[2 * c][2 * t], L[2 * c][2 * t + 1]) ELSE L[2 * c][t]
    BY <1>1, <2>3, <2>4, <2>5, LevelsFold
  <2>7. top[x + 1] = [k \in 0 .. m - 2 * w |-> cn_fast_hash(top[x][k], top[x][k + w])]
    BY <1>2, <2>2, <2>3 DEF w
  <2>8. ASSUME NEW t \in 0 .. c - 1 PROVE L[c][t] = top[x + 1][t * (2 * w)]
    <3>1. t \in 0 .. m - 1 /\ 2 * t \in 0 .. 2 * c - 1 /\ 2 * t + 1 \in 0 .. 2 * c - 1
      BY <1>1, <2>3, <2>4
    <3>2. L[c][t] = cn_fast_hash(top[x][(2 * t) * w], top[x][(2 * t + 1) * w])
      <4>1. t < c
        BY <2>3
      <4> QED BY <2>5, <2>6, <3>1, <4>1
    <3>3. (2 * t) * w = t * (2 * w) /\ (2 * t + 1) * w = t * (2 * w) + w
      BY <2>3
    <3>4. t * (2 * w) \in 0 .. m - 2 * w
      <4>1. t * (2 * w) >= 0 /\ t * (2 * w) \in Int
        BY <2>3
      <4>2. (t + 1) * (2 * w) <= c * (2 * w)
        <5>1. \A u \in Nat, v \in Nat, z \in Nat : u <= v => u * z <= v * z
          OBVIOUS
        <5> QED BY <2>3, <5>1
      <4>3. (t + 1) * (2 * w) = t * (2 * w) + 2 * w
        BY <2>3
      <4> QED BY <1>1, <2>3, <4>1, <4>2, <4>3
    <3> QED BY <2>7, <3>2, <3>3, <3>4
  <2> HIDE DEF L
  <2>9. Q(x + 1)
    BY <2>3, <2>6, <2>8 DEF c, y
  <2> QED BY <2>9
<1>5. Nat \subseteq P
  <2> HIDE DEF P
  <2> QED BY <1>3, <1>4, Upwards
<1>6. Q(d)
  <2>1. d \in P
    BY <1>5
  <2> HIDE DEF Q
  <2> QED BY <2>1
<1> QED BY <1>6 DEF top

(* RootOfMany: the root of three hashes or more.                           *)
LEMMA RootOfMany ==
  ASSUME NEW h, count(h) \in Nat, count(h) >= 3, NEW K \in Nat \ {0}, tree_hash_cnt(count(h)) = 2 ^ K
  PROVE  tree_hash(h) = Tops(Below(h, 2 ^ K), K)[K][0]
<1> DEFINE m == 2 ^ K
           L == Levels(h)
           top == Tops(Below(h, m), K)
           d == K - 1
           w == 2 ^ d
<1>1. d \in Nat /\ d <= K /\ K - d = 1 /\ 2 ^ 1 = 2 /\ m = 2 * w /\ w \in Nat \ {0} /\ K \in 1 .. K
  <2>1. d \in Nat /\ d + 1 = K
    OBVIOUS
  <2>2. 2 ^ (d + 1) = 2 * 2 ^ d
    BY <2>1, PowerStep
  <2> QED BY <2>1, <2>2, PowersFrom
<1>2. tree_hash(h) = cn_fast_hash(L[2][0], L[2][1])
  <2>1. m \in Nat \ {0} /\ m = tree_hash_cnt(count(h))
    BY PowersFrom
  <2> QED BY <2>1, LevelsExist
<1>3. \A t \in 0 .. 2 ^ (K - d) - 1 : L[2 ^ (K - d)][t] = top[d][t * 2 ^ d]
  <2>1. \A x \in Nat : x <= K => \A t \in 0 .. 2 ^ (K - x) - 1 : L[2 ^ (K - x)][t] = top[x][t * 2 ^ x]
    BY LevelsAreTops
  <2> HIDE DEF d, L, top
  <2> QED BY <1>1, <2>1
<1>4. L[2][0] = top[d][0] /\ L[2][1] = top[d][w]
  <2>1. \A t \in 0 .. 1 : L[2][t] = top[d][t * w]
    BY <1>1, <1>3
  <2> HIDE DEF L, top, w, d
  <2>2. 0 * w = 0 /\ 1 * w = w
    BY <1>1
  <2> QED BY <2>1, <2>2
<1>5. top[K] = [k \in 0 .. m - 2 ^ K |-> cn_fast_hash(top[K - 1][k], top[K - 1][k + 2 ^ (K - 1)])]
  <2>1. \A x \in 1 .. K : top[x] = [k \in 0 .. m - 2 ^ x |-> cn_fast_hash(top[x - 1][k], top[x - 1][k + 2 ^ (x - 1)])]
    BY TopsExist
  <2> HIDE DEF top
  <2> QED BY <1>1, <2>1
<1>6. top[K][0] = cn_fast_hash(top[d][0], top[d][w])
  <2>1. 0 \in 0 .. m - 2 ^ K /\ 0 + w = w
    BY <1>1
  <2> HIDE DEF top, m
  <2> QED BY <1>5, <2>1
<1> QED BY <1>2, <1>4, <1>6

(* Depth: the number of full levels above the lowest.                      *)
Depth(n) == CHOOSE d \in 0 .. n : n <= 2 ^ (d + 1) /\ (2 ^ d < n \/ d = 0)

(* DepthOfMany: for three hashes or more, the depth tree_hash_cnt rounds to.*)
LEMMA DepthOfMany ==
  ASSUME NEW n \in Nat, n >= 3
  PROVE  Depth(n) \in Nat \ {0} /\ tree_hash_cnt(n) = 2 ^ Depth(n)
<1>1. PICK K \in Nat \ {0} : tree_hash_cnt(n) = 2 ^ K /\ 2 ^ K < n /\ n <= 2 * 2 ^ K
  BY Rounded
<1>2. K \in 0 .. n /\ n <= 2 ^ (K + 1) /\ (2 ^ K < n \/ K = 0)
  <2>1. K < 2 ^ K /\ 2 ^ K \in Nat /\ 2 ^ (K + 1) = 2 * 2 ^ K
    BY BelowPower, PowerStep
  <2> QED BY <1>1, <2>1
<1>3. ASSUME NEW d \in 0 .. n, n <= 2 ^ (d + 1), 2 ^ d < n \/ d = 0 PROVE d = K
  <2>1. d # 0
    <3>1. d = 0 => 2 ^ (d + 1) = 2
      BY PowersFrom
    <3> QED BY <1>3, <3>1
  <2>2. d \in Nat /\ n <= 2 * 2 ^ d /\ 2 ^ d < n
    BY <1>3, <2>1, PowerStep
  <2> QED BY <1>1, <2>2, OnePower
<1>4. Depth(n) = K
  BY <1>2, <1>3 DEF Depth
<1> QED BY <1>1, <1>4

(* DepthOfFew: one pair has no level above it.                             *)
LEMMA DepthOfFew ==
  ASSUME NEW n \in {1, 2}
  PROVE  Depth(n) = 0
<1>1. 0 \in 0 .. n /\ n <= 2 ^ (0 + 1)
  BY PowersFrom
<1>2. ASSUME NEW d \in 0 .. n, 2 ^ d < n \/ d = 0 PROVE d = 0
  <2>1. d \in Nat /\ 2 ^ 0 = 1 /\ 2 ^ d \in Nat
    BY PowersFrom
  <2>2. d > 0 => 2 * 2 ^ 0 <= 2 ^ d
    BY <2>1, PowersGrow
  <2> QED BY <1>2, <2>1, <2>2
<1> QED BY <1>1, <1>2 DEF Depth

(* TypeIsMerkle: the root is the Merkle root whatever the hashes are.      *)
LEMMA TypeIsMerkle == TypeOK => RootIsMerkle
<1> SUFFICES ASSUME TypeOK, count(hashes) > 0
             PROVE  tree_hash(hashes) = Tops(Below(hashes, 2 ^ Depth(count(hashes))), Depth(count(hashes)))[Depth(count(hashes))][0]
  BY DEF RootIsMerkle, Tops, Below, Depth
<1> DEFINE n == count(hashes)
<1>1. n \in Nat
  BY InputsAssumption DEF TypeOK
<1>2. CASE n >= 3
  <2> DEFINE K == Depth(n)
  <2>1. K \in Nat \ {0} /\ tree_hash_cnt(count(hashes)) = 2 ^ K
    BY <1>1, <1>2, DepthOfMany
  <2> HIDE DEF K
  <2>2. tree_hash(hashes) = Tops(Below(hashes, 2 ^ K), K)[K][0]
    BY <1>1, <1>2, <2>1, RootOfMany
  <2> QED BY <2>2 DEF K
<1>3. CASE n \in {1, 2}
  <2>1. Depth(n) = 0 /\ 2 ^ 0 = 1
    BY <1>3, DepthOfFew, PowersFrom
  <2>2. Tops(Below(hashes, 1), 0)[0] = Below(hashes, 1)
    BY TopsExist
  <2>3. Below(hashes, 1)[0] = IF n = 1 THEN hashes[0] ELSE cn_fast_hash(hashes[0], hashes[1])
    <3> HIDE DEF n
    <3>1. n = 1 => 0 < 1 - (n - 1)
      OBVIOUS
    <3>2. n = 2 => ~(0 < 1 - (n - 1)) /\ 2 * 0 - (1 - (n - 1)) = 0 /\ 0 + 1 = 1
      OBVIOUS
    <3>3. 0 \in 0 .. 1 - 1
      OBVIOUS
    <3>4. Below(hashes, 1)[0] =
            IF 0 < 1 - (n - 1) THEN hashes[0]
            ELSE cn_fast_hash(hashes[2 * 0 - (1 - (n - 1))], hashes[2 * 0 - (1 - (n - 1)) + 1])
      BY <3>3 DEF Below, n
    <3> QED BY <1>3, <3>1, <3>2, <3>4
  <2>4. n = 1 => tree_hash(hashes) = hashes[0]
    BY DEF tree_hash
  <2>5. n = 2 => tree_hash(hashes) = cn_fast_hash(hashes[0], hashes[1])
    BY DEF tree_hash
  <2>6. tree_hash(hashes) = Below(hashes, 1)[0]
    BY <1>3, <2>3, <2>4, <2>5
  <2> QED BY <2>1, <2>2, <2>6
<1>4. n >= 3 \/ n \in {1, 2}
  BY <1>1
<1> QED BY <1>2, <1>3, <1>4

(* However many hashes a block has, tree_hash, which folds in place, gives *)
(* the root of the tree that is perfect but for its last level, the hashes *)
(* at the end being the ones paired.                                       *)
THEOREM RootAlwaysMerkle == Spec => []RootIsMerkle
<1>1. TypeOK => RootIsMerkle
  BY TypeIsMerkle
<1> QED BY <1>1, BranchTypes, PTL

-----------------------------------------------------------------------------
(* Branches: what tree_branch_hash tells of its siblings and of its path.  *)

(* Join: one turn of tree_branch_hash's loop.                              *)
Join(bit, b, x) == IF bit = 1 THEN cn_fast_hash(x, b) ELSE cn_fast_hash(b, x)

(* PartialsEnds: it starts with the hash and ends with the answer.         *)
LEMMA PartialsEnds ==
  ASSUME NEW leaf, NEW s, Len(s) \in Nat, NEW p
  PROVE  /\ Partials(leaf, s, p)[0] = leaf
         /\ tree_branch_hash(leaf, s, p) = Partials(leaf, s, p)[Len(s)]
BY PartialsExist

(* PartialsJoin: each turn joins one sibling.                              *)
LEMMA PartialsJoin ==
  ASSUME NEW leaf, NEW s, Len(s) \in Nat, NEW p, NEW d \in Nat, d < Len(s)
  PROVE  Partials(leaf, s, p)[d + 1] = Join(Bit(p, Len(s), d + 1), Partials(leaf, s, p)[d], s[d + 1])
<1> DEFINE f == Partials(leaf, s, p)
<1>1. \A e \in 1 .. Len(s) :
        f[e] = IF Bit(p, Len(s), e) = 1 THEN cn_fast_hash(s[e], f[e - 1]) ELSE cn_fast_hash(f[e - 1], s[e])
  BY PartialsExist
<1> HIDE DEF f
<1>2. d + 1 \in 1 .. Len(s) /\ (d + 1) - 1 = d
  OBVIOUS
<1>3. f[d + 1] = IF Bit(p, Len(s), d + 1) = 1 THEN cn_fast_hash(s[d + 1], f[d]) ELSE cn_fast_hash(f[d], s[d + 1])
  BY <1>1, <1>2
<1> QED BY <1>3 DEF Join, f

(* Agree: the siblings and bits of two branches are the same in 1, ..., N. *)
Agree(s1, p1, s2, p2, N) ==
  \A d \in 1 .. N : s1[d] = s2[d] /\ Bit(p1, Len(s1), d) = Bit(p2, Len(s2), d)

(* SamePartials: the siblings and bits up to d decide what is hashed up to *)
(* d.                                                                      *)
LEMMA SamePartials ==
  ASSUME NEW leaf, NEW s1, NEW s2, Len(s1) \in Nat, Len(s2) \in Nat, NEW p1, NEW p2,
         NEW N \in Nat, N <= Len(s1), N <= Len(s2),
         Agree(s1, p1, s2, p2, N)
  PROVE  Partials(leaf, s1, p1)[N] = Partials(leaf, s2, p2)[N]
<1> DEFINE f == Partials(leaf, s1, p1)
           g == Partials(leaf, s2, p2)
           P == {x \in Nat : x <= N => f[x] = g[x]}
<1>1. 0 \in P
  <2>1. f[0] = leaf /\ g[0] = leaf
    BY PartialsEnds
  <2> HIDE DEF f, g
  <2> QED BY <2>1
<1>2. ASSUME NEW x \in Nat, x \in P PROVE x + 1 \in P
  <2> SUFFICES ASSUME x + 1 <= N PROVE f[x + 1] = g[x + 1]
    OBVIOUS
  <2>1. x < Len(s1) /\ x < Len(s2) /\ x + 1 \in 1 .. N
    OBVIOUS
  <2>2. f[x] = g[x]
    <3> HIDE DEF f, g
    <3> QED BY <1>2
  <2>3. f[x + 1] = Join(Bit(p1, Len(s1), x + 1), f[x], s1[x + 1])
    BY <2>1, PartialsJoin
  <2>4. g[x + 1] = Join(Bit(p2, Len(s2), x + 1), g[x], s2[x + 1])
    BY <2>1, PartialsJoin
  <2>5. s1[x + 1] = s2[x + 1] /\ Bit(p1, Len(s1), x + 1) = Bit(p2, Len(s2), x + 1)
    BY <2>1 DEF Agree
  <2> HIDE DEF f, g
  <2> QED BY <2>2, <2>3, <2>4, <2>5
<1>3. Nat \subseteq P
  <2> HIDE DEF P
  <2> QED BY <1>1, <1>2, Upwards
<1>4. N \in P
  BY <1>3
<1> HIDE DEF f, g
<1>5. f[N] = g[N]
  BY <1>4
<1> QED BY <1>5 DEF f, g

(* JoinSides: only equal hashes can change sides.                          *)
LEMMA JoinSides ==
  ASSUME NEW b, NEW x, NEW bit, NEW other
  PROVE  (bit = 1) # (other = 1) /\ Join(bit, b, x) = Join(other, b, x) => x = b
BY DEF Join, cn_fast_hash

(* JoinOnce: a joined hash tells what it was joined from.                  *)
LEMMA JoinOnce ==
  ASSUME NEW b, NEW c, NEW x, NEW bit, Join(bit, b, x) = Join(bit, c, x)
  PROVE  b = c
BY DEF Join, cn_fast_hash

(* SameEnd: what is hashed up to a place where the siblings and bits that  *)
(* follow are the same is the same when the ends are.                      *)
LEMMA SameEnd ==
  ASSUME NEW leaf1, NEW leaf2, NEW s, Len(s) \in Nat, NEW p1, NEW p2,
         NEW N \in Nat, N <= Len(s),
         \A d \in N + 1 .. Len(s) : Bit(p1, Len(s), d) = Bit(p2, Len(s), d),
         tree_branch_hash(leaf1, s, p1) = tree_branch_hash(leaf2, s, p2)
  PROVE  Partials(leaf1, s, p1)[N] = Partials(leaf2, s, p2)[N]
<1> DEFINE n == Len(s)
           f == Partials(leaf1, s, p1)
           g == Partials(leaf2, s, p2)
           P == {x \in Nat : x <= n - N => f[n - x] = g[n - x]}
<1>1. 0 \in P
  <2>1. f[n] = g[n]
    BY PartialsEnds
  <2> HIDE DEF f, g
  <2> QED BY <2>1
<1>2. ASSUME NEW x \in Nat, x \in P PROVE x + 1 \in P
  <2> SUFFICES ASSUME x + 1 <= n - N PROVE f[n - (x + 1)] = g[n - (x + 1)]
    OBVIOUS
  <2> DEFINE y == n - (x + 1)
  <2>1. y \in Nat /\ y < n /\ y + 1 = n - x /\ y + 1 \in N + 1 .. n
    OBVIOUS
  <2>2. f[y + 1] = g[y + 1]
    <3> HIDE DEF f, g
    <3> QED BY <1>2, <2>1
  <2> HIDE DEF y
  <2>3. f[y + 1] = Join(Bit(p1, n, y + 1), f[y], s[y + 1])
    BY <2>1, PartialsJoin
  <2>4. g[y + 1] = Join(Bit(p2, n, y + 1), g[y], s[y + 1])
    BY <2>1, PartialsJoin
  <2>5. Bit(p1, n, y + 1) = Bit(p2, n, y + 1)
    BY <2>1
  <2> HIDE DEF f, g
  <2>6. Join(Bit(p1, n, y + 1), f[y], s[y + 1]) = Join(Bit(p1, n, y + 1), g[y], s[y + 1])
    BY <2>2, <2>3, <2>4, <2>5
  <2>7. f[y] = g[y]
    BY <2>6, JoinOnce
  <2> QED BY <2>7 DEF y
<1>3. Nat \subseteq P
  <2> HIDE DEF P
  <2> QED BY <1>1, <1>2, Upwards
<1>4. n - N \in P /\ n - (n - N) = N
  <2>1. n - N \in Nat /\ n - (n - N) = N
    OBVIOUS
  <2> HIDE DEF P, n
  <2> QED BY <1>3, <2>1
<1> HIDE DEF f, g
<1>5. f[N] = g[N]
  BY <1>4
<1> QED BY <1>5 DEF f, g

(* OneLeaf: a branch leads to a hash from one hash only.                   *)
LEMMA OneLeaf ==
  ASSUME NEW leaf1, NEW leaf2, NEW s, Len(s) \in Nat, NEW p,
         tree_branch_hash(leaf1, s, p) = tree_branch_hash(leaf2, s, p)
  PROVE  leaf1 = leaf2
<1>1. Partials(leaf1, s, p)[0] = Partials(leaf2, s, p)[0]
  BY SameEnd
<1>2. Partials(leaf1, s, p)[0] = leaf1 /\ Partials(leaf2, s, p)[0] = leaf2
  BY PartialsEnds
<1> QED BY <1>1, <1>2

(* A sequence, whatever its elements are.                                  *)
IsSeq(s) == \E S : s \in Seq(S)

(* Appended: a sibling more is a hash more.                                *)
LEMMA Appended ==
  ASSUME NEW leaf, NEW s, IsSeq(s), NEW x, NEW p \in Nat, NEW bit \in {0, 1}
  PROVE  /\ IsSeq(Append(s, x))
         /\ tree_branch_hash(leaf, Append(s, x), 2 * p + bit) = Join(bit, tree_branch_hash(leaf, s, p), x)
<1>0. PICK S : s \in Seq(S)
  BY DEF IsSeq
<1> DEFINE n == Len(s)
           a == Append(s, x)
           q == 2 * p + bit
<1>1. n \in Nat /\ Len(a) = n + 1 /\ a[n + 1] = x /\ (\A d \in 1 .. n : a[d] = s[d]) /\ IsSeq(a)
  <2>1. s \in Seq(S \cup {x}) /\ x \in S \cup {x}
    BY <1>0, SeqDef
  <2>2. a \in Seq(S \cup {x})
    BY <2>1
  <2> QED BY <2>1, <2>2 DEF IsSeq
<1>2. q \in Nat /\ q \div 2 = p /\ q % 2 = bit
  <2>1. q = 2 * p + bit /\ 0 <= bit /\ bit < 2 /\ q \in Nat
    OBVIOUS
  <2> HIDE DEF q
  <2> QED BY <2>1, Quotient
<1> HIDE DEF a, q
<1>3. ASSUME NEW d \in 1 .. n PROVE Bit(q, n + 1, d) = Bit(p, n, d)
  <2> DEFINE e == n - d
             one == 1
  <2>1. e \in Nat /\ one \in Nat /\ n + 1 - d = one + e /\ 2 ^ one = 2
    BY <1>1, PowersFrom
  <2> HIDE DEF e, one
  <2>2. (q \div 2 ^ one) \div 2 ^ e = q \div 2 ^ (one + e)
    BY <1>2, <2>1, Shifted, ZenonT(60)
  <2>3. p \div 2 ^ e = q \div 2 ^ (one + e)
    BY <1>2, <2>1, <2>2
  <2>4. Bit(q, n + 1, d) = (q \div 2 ^ (one + e)) % 2
    BY <2>1 DEF Bit
  <2> QED BY <2>3, <2>4 DEF Bit, e
<1>4. Bit(q, n + 1, n + 1) = bit
  <2>1. (n + 1) - (n + 1) = 0 /\ 2 ^ 0 = 1 /\ q \div 1 = q
    BY <1>1, <1>2, PowersFrom
  <2> QED BY <1>2, <2>1 DEF Bit
<1>5. Partials(leaf, a, q)[n] = Partials(leaf, s, p)[n]
  <2>1. n \in Nat /\ n <= Len(a) /\ n <= Len(s) /\ Len(a) \in Nat /\ Len(s) \in Nat
    BY <1>1
  <2>2. Agree(a, q, s, p, n)
    BY <1>1, <1>3 DEF Agree
  <2> HIDE DEF n
  <2> QED BY <2>1, <2>2, SamePartials
<1>6. Partials(leaf, a, q)[n + 1] = Join(bit, Partials(leaf, a, q)[n], x)
  <2>1. Len(a) \in Nat /\ n < Len(a)
    BY <1>1
  <2>2. Partials(leaf, a, q)[n + 1] = Join(Bit(q, Len(a), n + 1), Partials(leaf, a, q)[n], a[n + 1])
    BY <1>1, <2>1, PartialsJoin
  <2> QED BY <1>1, <1>4, <2>2
<1>7. tree_branch_hash(leaf, a, q) = Partials(leaf, a, q)[n + 1]
  <2>1. Len(a) \in Nat
    BY <1>1
  <2> QED BY <1>1, <2>1, PartialsEnds
<1>8. tree_branch_hash(leaf, s, p) = Partials(leaf, s, p)[n]
  BY <1>1, PartialsEnds
<1> QED BY <1>1, <1>5, <1>6, <1>7, <1>8 DEF a, q

(* Without: without siblings the hash is the root.                         *)
LEMMA Without ==
  ASSUME NEW leaf, NEW p
  PROVE  tree_branch_hash(leaf, << >>, p) = leaf
<1>1. Len(<< >>) = 0
  OBVIOUS
<1> QED BY <1>1, PartialsEnds

(* ShiftedTwice: two shifts are one.                                        *)
ShiftsTwice(a, x, y) == (a \div 2 ^ x) \div 2 ^ y = a \div 2 ^ (x + y)
LEMMA ShiftedTwice ==
  ASSUME NEW a \in Nat, NEW x \in Nat, NEW y \in Nat
  PROVE  ShiftsTwice(a, x, y)
BY Shifted DEF ShiftsTwice

(* Cut: what is hashed up to a place is what the siblings up to it give.   *)
LEMMA Cut ==
  ASSUME NEW leaf, NEW S, NEW s \in Seq(S), NEW p \in Nat, NEW d \in 1 .. Len(s)
  PROVE  tree_branch_hash(leaf, SubSeq(s, 1, d - 1), p \div (2 ^ (Len(s) - d + 1))) = Partials(leaf, s, p)[d - 1]
<1> DEFINE n == Len(s)
           c == SubSeq(s, 1, d - 1)
           x == n - d + 1
           q == p \div (2 ^ x)
           N == d - 1
<1>1. n \in Nat /\ x \in Nat /\ N \in Nat /\ N <= n /\ 1 <= d /\ d <= n
  OBVIOUS
<1>2. Len(c) = N /\ \A e \in 1 .. N : c[e] = s[e]
  OBVIOUS
<1>3. ASSUME NEW e \in 1 .. N PROVE Bit(q, N, e) = Bit(p, n, e)
  <2> DEFINE y == N - e
  <2>1. y \in Nat /\ n - e = x + y
    BY <1>1
  <2> HIDE DEF y, x
  <2>2. (p \div 2 ^ x) \div 2 ^ y = p \div 2 ^ (x + y)
    <3>1. ShiftsTwice(p, x, y)
      BY <1>1, <2>1, ShiftedTwice
    <3> QED BY <3>1 DEF ShiftsTwice
  <2> QED BY <2>1, <2>2 DEF Bit, y
<1> HIDE DEF c, q, x, N, n
<1>4. Partials(leaf, c, q)[N] = Partials(leaf, s, p)[N]
  <2>1. Len(c) \in Nat /\ Len(s) \in Nat /\ N <= Len(c) /\ N <= Len(s) /\ N \in Nat
    BY <1>1, <1>2 DEF n
  <2>2. Agree(c, q, s, p, N)
    BY <1>2, <1>3 DEF n, Agree
  <2> QED BY <2>1, <2>2, SamePartials
<1>5. tree_branch_hash(leaf, c, q) = Partials(leaf, c, q)[N]
  BY <1>1, <1>2, PartialsEnds
<1> QED BY <1>4, <1>5 DEF c, q, x, N, n

(* Moved: adding multiples of w moves what is shifted by w.                *)
LEMMA Moved ==
  ASSUME NEW a \in Int, NEW w \in Nat \ {0}, NEW k \in Int
  PROVE  (a + w * k) \div w = (a \div w) + k
<1> DEFINE q == a \div w
           r == a % w
<1>1. a = w * q + r /\ 0 <= r /\ r < w /\ q \in Int /\ r \in Int
  BY DivMod
<1> HIDE DEF q, r
<1>2. a + w * k = w * (q + k) + r
  BY <1>1
<1>3. q + k \in Int /\ a + w * k \in Int /\ w \in Int /\ w > 0
  BY <1>1
<1>4. (a + w * k) \div w = q + k
  BY <1>1, <1>2, <1>3, Quotient
<1> QED BY <1>4 DEF q

(* The two ways to shift a past x, one more and y places.                  *)
ShiftsOn(a, x, y) == a \div 2 ^ (x + (1 + y)) = ((a \div 2 ^ x) \div 2) \div 2 ^ y

(* ShiftedOn: Bit by way of another shift.                                 *)
LEMMA ShiftedOn ==
  ASSUME NEW a \in Nat, NEW x \in Nat, NEW y \in Nat
  PROVE  ShiftsOn(a, x, y)
<1> DEFINE t == a \div 2 ^ x
           one == 1
           z == one + y
<1>1. t \in Nat /\ one \in Nat /\ z \in Nat
  BY Shifted
<1>2. 2 ^ one = 2
  BY PowersFrom
<1> HIDE DEF t, one
<1>3. (t \div 2 ^ one) \div 2 ^ y = t \div 2 ^ z
  BY <1>1, Shifted
<1> HIDE DEF z
<1>4. t \div 2 ^ z = a \div 2 ^ (x + z)
  BY <1>1, Shifted DEF t
<1> QED BY <1>2, <1>3, <1>4 DEF t, one, z, ShiftsOn

(* A path with bit d of n turned over.                                     *)
Flipped(p, n, d) == IF Bit(p, n, d) = 1 THEN p - 2 ^ (n - d) ELSE p + 2 ^ (n - d)

(* FlippedBits: turning a bit over leaves the others.                      *)
LEMMA FlippedBits ==
  ASSUME NEW p \in Nat, NEW n \in Nat, NEW d \in 1 .. n
  PROVE  /\ Flipped(p, n, d) \in Nat
         /\ (Bit(Flipped(p, n, d), n, d) = 1) # (Bit(p, n, d) = 1)
         /\ \A e \in 1 .. n : e # d => Bit(Flipped(p, n, d), n, e) = Bit(p, n, e)
<1> DEFINE x == n - d
           w == 2 ^ x
           q == p \div w
           k == IF q % 2 = 1 THEN -1 ELSE 1
           f == p + w * k
<1>1. x \in Nat /\ n - d = x /\ w \in Nat \ {0}
  <2>1. x \in Nat
    OBVIOUS
  <2> QED BY <2>1, PowersFrom
<1>2. q \in Nat
  BY <1>1, Shifted
<1>3. Flipped(p, n, d) = f
  <2>1. Bit(p, n, d) = q % 2
    BY DEF Bit
  <2>2. CASE q % 2 = 1
    <3>1. Flipped(p, n, d) = p - w
      BY <2>1, <2>2 DEF Flipped
    <3>2. f = p + w * (-1)
      BY <2>2
    <3> HIDE DEF w, f, q
    <3>3. p + w * (-1) = p - w
      BY <1>1
    <3> QED BY <3>1, <3>2, <3>3
  <2>3. CASE q % 2 # 1
    <3>1. Flipped(p, n, d) = p + w
      BY <2>1, <2>3 DEF Flipped
    <3>2. f = p + w * 1
      BY <2>3
    <3> HIDE DEF w, f, q
    <3>3. p + w * 1 = p + w
      BY <1>1
    <3> QED BY <3>1, <3>2, <3>3
  <2> QED BY <2>2, <2>3
<1>4. p = w * q + (p % w) /\ p % w \in Nat
  <2> HIDE DEF w
  <2>1. p \in Int /\ w \in Int /\ w > 0
    BY <1>1
  <2> QED BY <2>1, DivMod
<1>5. k \in {-1, 1} /\ (q + k) % 2 # q % 2 /\ (q + k) \div 2 = q \div 2 /\ q + k \in Nat /\ q % 2 \in {0, 1}
                    /\ (q + k) % 2 \in {0, 1}
  <2> HIDE DEF q
  <2> QED BY <1>2
<1> HIDE DEF q, k
<1>6. f \in Nat /\ f \div w = q + k
  <2> HIDE DEF w
  <2>a. p \in Int /\ w \in Nat \ {0} /\ k \in Int
    BY <1>1, <1>5
  <2>b. (p + w * k) \div w = (p \div w) + k
    BY <2>a, Moved
  <2>1. f \div w = q + k
    BY <2>b DEF q
  <2>2. w * q + w * k = w * (q + k) /\ w * q \in Int /\ w * k \in Int /\ w * (q + k) \in Int
    BY <1>1, <1>2, <1>5
  <2>3. w * (q + k) >= 0
    <3>1. \A u \in Nat, v \in Nat : u * v >= 0
      OBVIOUS
    <3> QED BY <1>1, <1>5, <3>1
  <2>4. f = w * (q + k) + (p % w)
    BY <1>4, <2>2
  <2>5. f \in Nat
    BY <1>4, <2>2, <2>3, <2>4
  <2> QED BY <2>1, <2>5
<1>7. Bit(f, n, d) = (q + k) % 2 /\ Bit(p, n, d) = q % 2
  BY <1>6 DEF Bit, q
<1>8. ASSUME NEW e \in 1 .. n, e < d PROVE Bit(f, n, e) = Bit(p, n, e)
  <2> DEFINE y == d - e - 1
  <2>1. y \in Nat /\ n - e = x + (1 + y)
    BY <1>8
  <2> HIDE DEF y, f, x
  <2>2. ShiftsOn(p, x, y)
    BY <1>1, <2>1, ShiftedOn
  <2>3. ShiftsOn(f, x, y)
    BY <1>1, <1>6, <2>1, ShiftedOn
  <2>4. f \div 2 ^ (x + (1 + y)) = p \div 2 ^ (x + (1 + y))
    <3>1. (p \div 2 ^ x) \div 2 = (f \div 2 ^ x) \div 2
      BY <1>5, <1>6 DEF q
    <3> QED BY <2>2, <2>3, <3>1 DEF ShiftsOn
  <2> QED BY <2>1, <2>4 DEF Bit
<1>9. ASSUME NEW e \in 1 .. n, e > d PROVE Bit(f, n, e) = Bit(p, n, e)
  <2> DEFINE z == n - e
             y == e - d - 1
             v == 2 ^ z
             u == 2 ^ y
  <2>1. z \in Nat /\ y \in Nat /\ x = z + (y + 1) /\ y + 1 \in Nat
    BY <1>9
  <2>2. v \in Nat \ {0} /\ u \in Nat \ {0} /\ w = v * (2 * u)
    <3> HIDE DEF y, z, x
    <3>1. 2 ^ (z + (y + 1)) = 2 ^ z * 2 ^ (y + 1) /\ 2 ^ (y + 1) = 2 * 2 ^ y
      BY <2>1, Powers, PowerStep
    <3> QED BY <2>1, <3>1, PowersFrom
  <2> HIDE DEF v, u, w
  <2> DEFINE g == u * k
             g2 == 2 * g
  <2>3. g \in Int /\ g2 \in Int /\ p \in Int /\ f = p + v * g2
    BY <1>5, <2>2
  <2> HIDE DEF g, g2, f
  <2>4. (p + v * g2) \div v = (p \div v) + g2
    BY <2>2, <2>3, Moved
  <2>5. p \div v \in Nat
    BY <2>1, Shifted DEF v
  <2>6. (f \div v) % 2 = (p \div v) % 2
    BY <2>3, <2>4, <2>5 DEF g2
  <2> QED BY <2>6 DEF Bit, v
<1> HIDE DEF f
<1>10. ASSUME NEW e \in 1 .. n, e # d PROVE Bit(f, n, e) = Bit(p, n, e)
  BY <1>8, <1>9, <1>10
<1>11. (Bit(f, n, d) = 1) # (Bit(p, n, d) = 1)
  BY <1>5, <1>7
<1> QED BY <1>3, <1>6, <1>10, <1>11

(* BitFlipped: the same hash with a bit turned over leads to the same root *)
(* only when both children are the same.                                   *)
LEMMA BitFlipped ==
  ASSUME NEW leaf, NEW S, NEW s \in Seq(S), NEW p \in Nat, NEW d \in 1 .. Len(s),
         tree_branch_hash(leaf, s, Flipped(p, Len(s), d)) = tree_branch_hash(leaf, s, p)
  PROVE  s[d] = tree_branch_hash(leaf, SubSeq(s, 1, d - 1), p \div (2 ^ (Len(s) - d + 1)))
<1> DEFINE n == Len(s)
           f == Flipped(p, n, d)
           c == d - 1
           X == Partials(leaf, s, p)[c]
<1>1. n \in Nat /\ Len(s) \in Nat /\ d <= Len(s) /\ d \in Nat /\ c \in Nat /\ c < Len(s) /\ c <= Len(s) /\ c + 1 = d
  OBVIOUS
<1>2. /\ (Bit(f, n, d) = 1) # (Bit(p, n, d) = 1)
      /\ \A e \in 1 .. n : e # d => Bit(f, n, e) = Bit(p, n, e)
  BY FlippedBits
<1> HIDE DEF f
<1>3. Partials(leaf, s, f)[d] = Partials(leaf, s, p)[d]
  <2>1. \A e \in d + 1 .. Len(s) : Bit(f, Len(s), e) = Bit(p, Len(s), e)
    <3>1. \A e \in d + 1 .. Len(s) : e \in 1 .. n /\ e # d
      BY <1>1
    <3> QED BY <1>2, <3>1
  <2>2. tree_branch_hash(leaf, s, f) = tree_branch_hash(leaf, s, p)
    BY DEF f
  <2> QED BY <1>1, <2>1, <2>2, SameEnd
<1>4. Partials(leaf, s, f)[c] = X
  <2>1. Agree(s, f, s, p, c)
    <3>1. \A e \in 1 .. c : e \in 1 .. n /\ e # d
      BY <1>1
    <3> QED BY <1>2, <3>1 DEF Agree
  <2> HIDE DEF c
  <2> QED BY <1>1, <2>1, SamePartials
<1>5. /\ Partials(leaf, s, f)[d] = Join(Bit(f, n, d), Partials(leaf, s, f)[c], s[d])
      /\ Partials(leaf, s, p)[d] = Join(Bit(p, n, d), X, s[d])
  <2> HIDE DEF c
  <2>1. \A y : Partials(leaf, s, y)[c + 1] = Join(Bit(y, Len(s), c + 1), Partials(leaf, s, y)[c], s[c + 1])
    BY <1>1, PartialsJoin
  <2> QED BY <1>1, <2>1
<1>6. s[d] = X
  <2>1. Join(Bit(f, n, d), X, s[d]) = Join(Bit(p, n, d), X, s[d])
    BY <1>3, <1>4, <1>5
  <2> HIDE DEF X, n
  <2> QED BY <1>2, <2>1, JoinSides
<1>7. tree_branch_hash(leaf, SubSeq(s, 1, d - 1), p \div (2 ^ (Len(s) - d + 1))) = X
  BY Cut
<1> QED BY <1>6, <1>7

-----------------------------------------------------------------------------
(* BranchProves, by an invariant of tree_branch's loops.                   *)

(* The place of x in h that tree_branch follows.                           *)
FirstPlace(h, x, k) == k \in DOMAIN h /\ h[k] = x /\ \A o \in DOMAIN h : h[o] = x => k <= o

(* What BranchProves says of a branch that is answered.                    *)
Proven(h, x, s, p) ==
  /\ is_branch_in_tree(x, tree_hash(h), s, p)
  /\ \E k \in {o \in DOMAIN h : h[o] = x} :
       (\A o \in {q \in DOMAIN h : h[q] = x} : k <= o) /\ p = tree_path(count(h), k)
  /\ \A l \in Label : is_branch_in_tree(Leaf(l), tree_hash(h), s, p) => Leaf(l) = x
  /\ \A d \in 1 .. Len(s) :
       is_branch_in_tree(x, tree_hash(h), s, Flipped(p, Len(s), d))
         => s[d] = tree_branch_hash(x, SubSeq(s, 1, d - 1), p \div (2 ^ (Len(s) - d + 1)))

(* Enough: a branch that leads to the root by the path of the first place  *)
(* proves all that.                                                        *)
LEMMA Enough ==
  ASSUME NEW h, NEW x, NEW s, IsSeq(s), NEW p \in Nat,
         tree_branch_hash(x, s, p) = tree_hash(h),
         NEW k, FirstPlace(h, x, k), p = tree_path(count(h), k)
  PROVE  Proven(h, x, s, p)
<1>1. PICK S : s \in Seq(S)
  BY DEF IsSeq
<1>2. Len(s) \in Nat
  BY <1>1
<1>3. \A l \in Label : is_branch_in_tree(Leaf(l), tree_hash(h), s, p) => Leaf(l) = x
  BY <1>2, OneLeaf DEF is_branch_in_tree
<1>4. ASSUME NEW d \in 1 .. Len(s), is_branch_in_tree(x, tree_hash(h), s, Flipped(p, Len(s), d))
      PROVE  s[d] = tree_branch_hash(x, SubSeq(s, 1, d - 1), p \div (2 ^ (Len(s) - d + 1)))
  <2>1. tree_branch_hash(x, s, Flipped(p, Len(s), d)) = tree_branch_hash(x, s, p)
    BY <1>4 DEF is_branch_in_tree
  <2> QED BY <1>1, <2>1, BitFlipped
<1>5. \E o \in {q \in DOMAIN h : h[q] = x} :
        (\A q \in {y \in DOMAIN h : h[y] = x} : o <= q) /\ p = tree_path(count(h), o)
  BY DEF FirstPlace
<1>6. is_branch_in_tree(x, tree_hash(h), s, p)
  BY DEF is_branch_in_tree
<1> QED BY <1>3, <1>4, <1>5, <1>6 DEF Proven

(* Sized: the power of two looked for is one, half of it is the size of    *)
(* the first level, and every level has a power of two of nodes.           *)
Twice(x) == \E e \in Nat : x = 2 * 2 ^ e

Sized ==
  /\ pc = "call" => branch = << >> /\ path = 0
  /\ pc = "round" => Twice(pow)
  /\ pc \in {"leaves", "nodes"} => pow \div 2 = tree_hash_cnt(count(hashes)) /\ Twice(cnt)

(* Contents: before the place being written is the level that tree_hash    *)
(* computes, behind it what it computes it from.                           *)
Contents ==
  /\ pc = "leaves" => \A t \in 0 .. cnt - 1 : t < j => ints[t] = Levels(hashes)[cnt][t]
  /\ pc = "nodes" =>
       /\ LevelShape(hashes, pow \div 2, 2 * cnt)
       /\ \A t \in 0 .. (pow \div 2) - 1 :
            ints[t] = IF t < j THEN Levels(hashes)[cnt][t] ELSE Levels(hashes)[2 * cnt][t]

(* Leads: the branch so far leads from the hash to the node followed.      *)
Leads ==
  /\ IsSeq(branch)
  /\ pc = "round" => branch = << >> /\ path = 0 /\ hash = hashes[idx]
  /\ pc = "leaves" =>
       /\ tree_branch_hash(hash, branch, path) = IF idx < j THEN Levels(hashes)[cnt][idx] ELSE hashes[idx]
       /\ idx < j \/ idx >= i
  /\ pc = "nodes" =>
       /\ tree_branch_hash(hash, branch, path) = IF idx < j THEN Levels(hashes)[cnt][idx] ELSE Levels(hashes)[2 * cnt][idx]
       /\ idx < j \/ (i <= idx /\ idx < 2 * cnt)

(* Climbed: the node followed is the one tree_path has climbed to.         *)
Climbed ==
  pc \in {"round", "leaves", "nodes"} =>
    \E k \in DOMAIN hashes :
      /\ FirstPlace(hashes, hash, k)
      /\ pc = "round" => idx = k
      /\ pc = "leaves" =>
           [at |-> idx, path |-> path] = IF idx < j THEN Ups(count(hashes), k)[cnt] ELSE [at |-> k, path |-> 0]
      /\ pc = "nodes" =>
           [at |-> idx, path |-> path] = IF idx < j THEN Ups(count(hashes), k)[cnt] ELSE Ups(count(hashes), k)[2 * cnt]

BInv == IInv /\ Sized /\ Contents /\ Leads /\ Climbed /\ BranchProves

(* InitBranch: it holds before the call.                                   *)
LEMMA InitBranch == Init => BInv
<1> SUFFICES ASSUME Init PROVE BInv
  OBVIOUS
<1>1. IInv
  BY InitInvariant
<1>2. branch \in Seq({})
  BY DEF Init
<1> QED BY <1>1, <1>2 DEF Init, BInv, Sized, Contents, Leads, Climbed, BranchProves, IsSeq

(* What the loops know of the sizes.                                       *)
LEMMA Sizes ==
  ASSUME BInv, pc \in {"leaves", "nodes"}
  PROVE  /\ count(hashes) \in Nat /\ count(hashes) >= 3 /\ pow \div 2 \in Nat \ {0}
         /\ pow \div 2 = tree_hash_cnt(count(hashes)) /\ cnt \in Nat \ {0} /\ cnt <= pow \div 2
         /\ j \in Nat /\ i \in Nat /\ idx \in Nat /\ path \in Nat /\ DOMAIN ints = 0 .. (pow \div 2) - 1
         /\ j <= cnt /\ IsSeq(branch) /\ hashes \in Inputs
<1>1. PICK e \in Nat : cnt = 2 * 2 ^ e
  BY DEF BInv, Sized, Twice
<1>2. cnt \in Nat \ {0}
  BY <1>1, PowersFrom
<1>3. count(hashes) \in Nat
  BY ArrayOfHashes DEF BInv, IInv, Typed
<1>4. /\ pow \div 2 \in Nat /\ pow \div 2 >= 2 /\ pow \div 2 < count(hashes)
      /\ DOMAIN ints = 0 .. (pow \div 2) - 1
  BY DEF BInv, IInv, Allocated
<1>5. cnt <= pow \div 2 /\ j <= cnt
  <2>1. CASE pc = "leaves"
    BY <2>1, <1>2, <1>4 DEF BInv, IInv, FoldingLeaves, Typed
  <2>2. CASE pc = "nodes"
    BY <2>2, <1>2, <1>4 DEF BInv, IInv, FoldingNodes, Typed
  <2> QED BY <2>1, <2>2
<1> QED BY <1>2, <1>3, <1>4, <1>5 DEF BInv, IInv, Typed, Sized, Leads

(* UpsFold: a level of tree_path from the one below.                       *)
LEMMA UpsFold ==
  ASSUME NEW n, NEW k, NEW m \in Nat \ {0}, m = tree_hash_cnt(n), NEW c \in Nat \ {0}, 2 * c <= m
  PROVE  Ups(n, k)[c] = Climb(Ups(n, k)[2 * c], 0)
<1>1. c \in 1 .. m /\ ~(2 * c > m)
  OBVIOUS
<1>2. Ups(n, k)[c] = IF 2 * c > m THEN Climb([at |-> k, path |-> 0], 2 * m - n) ELSE Climb(Ups(n, k)[2 * c], 0)
  BY <1>1, UpsExist
<1> QED BY <1>1, <1>2

(* UpsFirst: the first level of tree_path.                                 *)
LEMMA UpsFirst ==
  ASSUME NEW n, NEW k, NEW m \in Nat \ {0}, m = tree_hash_cnt(n)
  PROVE  Ups(n, k)[m] = Climb([at |-> k, path |-> 0], 2 * m - n)
<1>1. m \in 1 .. m /\ 2 * m > m
  OBVIOUS
<1>2. Ups(n, k)[m] = IF 2 * m > m THEN Climb([at |-> k, path |-> 0], 2 * m - n) ELSE Climb(Ups(n, k)[2 * m], 0)
  BY <1>1, UpsExist
<1> QED BY <1>1, <1>2

(* UpsLast: the answer of tree_path.                                       *)
LEMMA UpsLast ==
  ASSUME NEW n \in Nat, n > 2, NEW k
  PROVE  tree_path(n, k) = Ups(n, k)[1].path
<1>1. PICK K \in Nat \ {0} : tree_hash_cnt(n) = 2 ^ K
  BY Rounded
<1>2. tree_hash_cnt(n) \in Nat \ {0}
  BY <1>1, PowersFrom
<1>3. tree_path(n, k) = IF n <= 2 THEN k ELSE Ups(n, k)[1].path
  BY <1>2, UpsExist
<1> QED BY <1>3

(* Node at of the pair that goes to place to climbs there, adding its bit. *)
PairClimbs(at, p, s, to, bit) ==
  at = 2 * to - s + bit /\ s <= at => Climb([at |-> at, path |-> p], s) = [at |-> to, path |-> 2 * p + bit]

(* ClimbPair: what Climb does to a node of the pair that goes to place to. *)
LEMMA ClimbPair ==
  ASSUME NEW at \in Nat, NEW p \in Nat, NEW s \in Int, NEW to \in Int, NEW bit \in {0, 1}
  PROVE  PairClimbs(at, p, s, to, bit)
<1> SUFFICES ASSUME at = 2 * to - s + bit, s <= at
             PROVE  Climb([at |-> at, path |-> p], s) = [at |-> to, path |-> 2 * p + bit]
  BY DEF PairClimbs
<1> DEFINE u == [at |-> at, path |-> p]
<1>1. u.at = at /\ u.path = p
  OBVIOUS
<1>2. (at + s) \div 2 = to
  <2>1. at + s = 2 * to + bit
    OBVIOUS
  <2>2. CASE bit = 0
    BY <2>1, <2>2
  <2>3. CASE bit = 1
    BY <2>1, <2>3
  <2> QED BY <2>2, <2>3
<1>3. (at - s) % 2 = bit
  <2>1. at - s = 2 * (to - s) + bit
    OBVIOUS
  <2> DEFINE z == to - s
  <2>2. z \in Int /\ at - s = 2 * z + bit
    BY <2>1
  <2> HIDE DEF z
  <2>3. CASE bit = 0
    BY <2>2, <2>3
  <2>4. CASE bit = 1
    BY <2>2, <2>4
  <2> QED BY <2>3, <2>4
<1> HIDE DEF u
<1>4. Climb(u, s) = [at |-> (u.at + s) \div 2, path |-> (2 * u.path) + ((u.at - s) % 2)]
  BY <1>1 DEF Climb
<1> QED BY <1>1, <1>2, <1>3, <1>4 DEF u

(* FoldPairIs: what one turn of either loop does, to the node it writes    *)
(* and to the branch when it meets the node that is followed.              *)
LEMMA FoldPairIs ==
  ASSUME NEW a, FoldPair(a), BInv
  PROVE  /\ j < cnt /\ UNCHANGED <<pc, hashes, hash, pow, cnt>> /\ i' = i + 2 /\ j' = j + 1
         /\ ints' = [ints EXCEPT ![j] = cn_fast_hash(a[i], a[i + 1])]
         /\ idx \notin {i, i + 1} => UNCHANGED <<idx, branch, path>>
         /\ idx = i =>
              /\ idx' = j /\ path' = 2 * path + 0 /\ IsSeq(branch')
              /\ tree_branch_hash(hash, branch', path') = cn_fast_hash(tree_branch_hash(hash, branch, path), a[i + 1])
         /\ idx = i + 1 =>
              /\ idx' = j /\ path' = 2 * path + 1 /\ IsSeq(branch')
              /\ tree_branch_hash(hash, branch', path') = cn_fast_hash(a[i], tree_branch_hash(hash, branch, path))
<1>1. /\ j < cnt /\ UNCHANGED <<pc, hashes, hash, pow, cnt>> /\ i' = i + 2 /\ j' = j + 1
      /\ ints' = [ints EXCEPT ![j] = cn_fast_hash(a[i], a[i + 1])]
      /\ idx \notin {i, i + 1} => UNCHANGED <<idx, branch, path>>
  BY DEF FoldPair, arguments, outputs
<1>2. IsSeq(branch) /\ path \in Nat /\ i \in Nat
  BY DEF BInv, Leads, IInv, Typed
<1>3. CASE idx = i
  <2>1. idx' = j /\ branch' = Append(branch, a[i + 1]) /\ path' = 2 * path + 0
    BY <1>3 DEF FoldPair
  <2>2. /\ IsSeq(Append(branch, a[i + 1]))
        /\ tree_branch_hash(hash, Append(branch, a[i + 1]), 2 * path + 0) = Join(0, tree_branch_hash(hash, branch, path), a[i + 1])
    <3> DEFINE z == 0
    <3>1. z \in {0, 1}
      OBVIOUS
    <3> HIDE DEF z
    <3>2. /\ IsSeq(Append(branch, a[i + 1]))
          /\ tree_branch_hash(hash, Append(branch, a[i + 1]), 2 * path + z) = Join(z, tree_branch_hash(hash, branch, path), a[i + 1])
      BY <1>2, <3>1, Appended
    <3> QED BY <3>2 DEF z
  <2>3. tree_branch_hash(hash, branch', path') = cn_fast_hash(tree_branch_hash(hash, branch, path), a[i + 1])
    BY <2>1, <2>2 DEF Join
  <2>4. i # i + 1
    BY <1>2
  <2> QED BY <1>1, <1>3, <2>1, <2>2, <2>3, <2>4
<1>4. CASE idx = i + 1
  <2>1. idx' = j /\ branch' = Append(branch, a[i]) /\ path' = 2 * path + 1
    BY <1>2, <1>4 DEF FoldPair
  <2>2. /\ IsSeq(Append(branch, a[i]))
        /\ tree_branch_hash(hash, Append(branch, a[i]), 2 * path + 1) = Join(1, tree_branch_hash(hash, branch, path), a[i])
    <3> DEFINE z == 1
    <3>1. z \in {0, 1}
      OBVIOUS
    <3> HIDE DEF z
    <3>2. /\ IsSeq(Append(branch, a[i]))
          /\ tree_branch_hash(hash, Append(branch, a[i]), 2 * path + z) = Join(z, tree_branch_hash(hash, branch, path), a[i])
      BY <1>2, <3>1, Appended
    <3> QED BY <3>2 DEF z
  <2>3. tree_branch_hash(hash, branch', path') = cn_fast_hash(a[i], tree_branch_hash(hash, branch, path))
    BY <2>1, <2>2 DEF Join
  <2>4. i # i + 1
    BY <1>2
  <2> QED BY <1>1, <1>4, <2>1, <2>2, <2>3, <2>4
<1> QED BY <1>1, <1>3, <1>4

(* LeavesStep: the first loop keeps it.                                    *)
LEMMA LeavesStep ==
  ASSUME BInv, FoldLeaves
  PROVE  Sized' /\ Contents' /\ Leads' /\ Climbed'
<1> DEFINE n == count(hashes)
           m == pow \div 2
           L == Levels(hashes)[m]
<1>1. pc = "leaves" /\ FoldPair(hashes)
  BY DEF FoldLeaves
<1>2. /\ n \in Nat /\ n >= 3 /\ m \in Nat \ {0} /\ m = tree_hash_cnt(n)
      /\ j \in Nat /\ i \in Nat /\ idx \in Nat /\ path \in Nat /\ DOMAIN ints = 0 .. m - 1
      /\ IsSeq(branch) /\ hashes \in Inputs
  BY <1>1, Sizes
<1>3. cnt = m /\ 2 * m - n <= j /\ i = 2 * j - (2 * m - n) /\ n <= 2 * m
  BY <1>1 DEF BInv, IInv, FoldingLeaves, Allocated
<1>4. /\ j < cnt /\ UNCHANGED <<pc, hashes, hash, pow, cnt>> /\ i' = i + 2 /\ j' = j + 1
      /\ ints' = [ints EXCEPT ![j] = cn_fast_hash(hashes[i], hashes[i + 1])]
      /\ idx \notin {i, i + 1} => UNCHANGED <<idx, branch, path>>
      /\ idx = i =>
           /\ idx' = j /\ path' = 2 * path + 0 /\ IsSeq(branch')
           /\ tree_branch_hash(hash, branch', path') = cn_fast_hash(tree_branch_hash(hash, branch, path), hashes[i + 1])
      /\ idx = i + 1 =>
           /\ idx' = j /\ path' = 2 * path + 1 /\ IsSeq(branch')
           /\ tree_branch_hash(hash, branch', path') = cn_fast_hash(hashes[i], tree_branch_hash(hash, branch, path))
  BY <1>1, FoldPairIs
<1>5. i >= j /\ j \in 0 .. m - 1
  <2>1. j < cnt
    BY <1>4
  <2> HIDE DEF m, n
  <2> QED BY <1>2, <1>3, <2>1, SMTT(30)
<1>6. L[j] = cn_fast_hash(hashes[i], hashes[i + 1])
  <2>1. L = FirstLevel(hashes, n, m)
    BY <1>2, LevelsFirst
  <2> HIDE DEF m, n, L
  <2>2. i = 2 * j - (2 * m - n) /\ ~(j < 2 * m - n)
    BY <1>2, <1>3
  <2>3. FirstLevel(hashes, n, m)[j] = cn_fast_hash(hashes[2 * j - (2 * m - n)], hashes[2 * j - (2 * m - n) + 1])
    BY <1>5, <2>2 DEF FirstLevel
  <2> QED BY <2>1, <2>2, <2>3
<1>7. Sized'
  BY <1>1, <1>4 DEF BInv, Sized, Twice
<1>8. Contents'
  <2>1. \A t \in 0 .. cnt - 1 : t < j => ints[t] = L[t]
    BY <1>1, <1>3 DEF BInv, Contents
  <2>2. ASSUME NEW t \in 0 .. cnt - 1, t < j + 1 PROVE ints'[t] = L[t]
    <3> HIDE DEF m, n, L
    <3>1. CASE t = j
      BY <1>2, <1>4, <1>5, <1>6, <3>1
    <3>2. CASE t # j
      <4>1. t < j
        BY <1>2, <2>2, <3>2
      <4>2. ints'[t] = ints[t]
        BY <1>4, <3>2
      <4> QED BY <2>1, <4>1, <4>2
    <3> QED BY <3>1, <3>2
  <2>3. \A t \in 0 .. cnt' - 1 : t < j' => ints'[t] = Levels(hashes')[cnt'][t]
    BY <1>3, <1>4, <2>2
  <2>4. pc' = "leaves"
    BY <1>1, <1>4
  <2> QED BY <2>3, <2>4 DEF Contents
<1>9. /\ tree_branch_hash(hash, branch, path) = IF idx < j THEN L[idx] ELSE hashes[idx]
      /\ idx < j \/ idx >= i
  BY <1>1, <1>3 DEF BInv, Leads
<1>10. PICK k \in DOMAIN hashes :
         /\ FirstPlace(hashes, hash, k)
         /\ [at |-> idx, path |-> path] = IF idx < j THEN Ups(n, k)[m] ELSE [at |-> k, path |-> 0]
  BY <1>1, <1>3 DEF BInv, Climbed
<1>11. k \in Nat /\ Ups(n, k)[m] = Climb([at |-> k, path |-> 0], 2 * m - n)
  BY <1>2, UpsFirst, ArrayOfHashes
<1> DEFINE New == /\ tree_branch_hash(hash, branch', path') = IF idx' < j + 1 THEN L[idx'] ELSE hashes[idx']
                  /\ idx' < j + 1 \/ idx' >= i + 2
                  /\ IsSeq(branch')
                  /\ [at |-> idx', path |-> path'] = IF idx' < j + 1 THEN Ups(n, k)[m] ELSE [at |-> k, path |-> 0]
<1>12. New
  <2> HIDE DEF m, n, L
  <2>1. CASE idx < j
    <3>1. idx \notin {i, i + 1} /\ idx < j + 1
      BY <1>2, <1>5, <2>1
    <3> QED BY <1>2, <1>4, <1>9, <1>10, <2>1, <3>1
  <2>2. CASE ~(idx < j)
    <3>1. /\ tree_branch_hash(hash, branch, path) = hashes[idx] /\ idx >= i
          /\ idx = k /\ path = 0
      BY <1>9, <1>10, <2>2
    <3>2. CASE idx \notin {i, i + 1}
      <4>1. idx >= i + 2 /\ ~(idx < j + 1)
        BY <1>2, <1>5, <3>1, <3>2
      <4> QED BY <1>2, <1>4, <1>9, <1>10, <2>2, <3>2, <4>1
    <3>3. ASSUME NEW bit \in {0, 1}, idx = i + bit,
                 /\ idx' = j /\ path' = 2 * path + bit /\ IsSeq(branch')
                 /\ tree_branch_hash(hash, branch', path') = cn_fast_hash(hashes[i], hashes[i + 1])
          PROVE  New
      <4>1. idx' < j + 1
        BY <1>2, <3>3
      <4>2. Climb([at |-> idx, path |-> path], 2 * m - n) = [at |-> j, path |-> 2 * path + bit]
        <5> DEFINE s == 2 * m - n
        <5>1. s \in Int /\ idx = 2 * j - s + bit /\ s <= idx /\ idx \in Nat /\ path \in Nat /\ j \in Int
          <6>1. i = 2 * j - (2 * m - n) /\ 2 * m - n <= j /\ j <= i /\ idx = i + bit
            BY <1>3, <1>5, <3>3
          <6>2. m \in Int /\ n \in Int /\ i \in Int /\ j \in Int /\ idx \in Nat /\ path \in Nat
            BY <1>2
          <6> HIDE DEF m, n
          <6> QED BY <6>1, <6>2
        <5> HIDE DEF s
        <5>2. PairClimbs(idx, path, s, j, bit)
          BY <5>1, ClimbPair
        <5> QED BY <5>1, <5>2 DEF PairClimbs, s
      <4>3. [at |-> idx', path |-> path'] = Ups(n, k)[m]
        BY <1>11, <3>1, <3>3, <4>2
      <4> QED BY <1>6, <3>3, <4>1, <4>3
    <3>4. CASE idx = i
      <4>1. idx = i + 0
        BY <1>2, <3>4
      <4> QED BY <1>4, <3>1, <3>3, <3>4, <4>1
    <3>5. CASE idx = i + 1
      BY <1>4, <3>1, <3>3, <3>5
    <3> QED BY <3>2, <3>4, <3>5
  <2> QED BY <2>1, <2>2
<1>13. Leads'
  <2>1. pc' = "leaves" /\ hash' = hash /\ hashes' = hashes /\ cnt' = m /\ j' = j + 1 /\ i' = i + 2
    BY <1>1, <1>3, <1>4
  <2> HIDE DEF m
  <2> QED BY <1>12, <2>1 DEF Leads
<1>14. Climbed'
  <2>1. pc' = "leaves" /\ hash' = hash /\ hashes' = hashes /\ cnt' = m /\ j' = j + 1 /\ i' = i + 2
    BY <1>1, <1>3, <1>4
  <2> HIDE DEF m
  <2>2. FirstPlace(hashes', hash', k) /\ k \in DOMAIN hashes'
    BY <1>10, <2>1
  <2>3. [at |-> idx', path |-> path'] = IF idx' < j' THEN Ups(count(hashes'), k)[cnt'] ELSE [at |-> k, path |-> 0]
    BY <1>12, <2>1
  <2> QED BY <2>1, <2>2, <2>3 DEF Climbed
<1> QED BY <1>7, <1>8, <1>13, <1>14

(* NodesStep: the loop over a later level keeps it.                        *)
LEMMA NodesStep ==
  ASSUME BInv, FoldNodes
  PROVE  Sized' /\ Contents' /\ Leads' /\ Climbed'
<1> DEFINE n == count(hashes)
           m == pow \div 2
           L == Levels(hashes)[cnt]
           B == Levels(hashes)[2 * cnt]
<1>1. pc = "nodes" /\ FoldPair(ints)
  BY DEF FoldNodes
<1>2. /\ n \in Nat /\ n >= 3 /\ m \in Nat \ {0} /\ m = tree_hash_cnt(n)
      /\ j \in Nat /\ i \in Nat /\ idx \in Nat /\ path \in Nat /\ DOMAIN ints = 0 .. m - 1
      /\ IsSeq(branch) /\ hashes \in Inputs /\ cnt \in Nat \ {0}
  BY <1>1, Sizes
<1>3. 2 * cnt <= m /\ i = 2 * j
  BY <1>1 DEF BInv, IInv, FoldingNodes
<1>4. /\ j < cnt /\ UNCHANGED <<pc, hashes, hash, pow, cnt>> /\ i' = i + 2 /\ j' = j + 1
      /\ ints' = [ints EXCEPT ![j] = cn_fast_hash(ints[i], ints[i + 1])]
      /\ idx \notin {i, i + 1} => UNCHANGED <<idx, branch, path>>
      /\ idx = i =>
           /\ idx' = j /\ path' = 2 * path + 0 /\ IsSeq(branch')
           /\ tree_branch_hash(hash, branch', path') = cn_fast_hash(tree_branch_hash(hash, branch, path), ints[i + 1])
      /\ idx = i + 1 =>
           /\ idx' = j /\ path' = 2 * path + 1 /\ IsSeq(branch')
           /\ tree_branch_hash(hash, branch', path') = cn_fast_hash(ints[i], tree_branch_hash(hash, branch, path))
  BY <1>1, FoldPairIs
<1>5. i >= j /\ j \in 0 .. m - 1 /\ i \in 0 .. m - 1 /\ i + 1 \in 0 .. m - 1
  <2>1. j < cnt
    BY <1>4
  <2> HIDE DEF m, n
  <2> QED BY <1>2, <1>3, <2>1
<1>6. /\ LevelShape(hashes, m, 2 * cnt)
      /\ \A t \in 0 .. m - 1 : ints[t] = IF t < j THEN L[t] ELSE B[t]
  BY <1>1 DEF BInv, Contents
<1>7. \A t \in 0 .. m - 1 : L[t] = IF t < cnt THEN cn_fast_hash(B[2 * t], B[2 * t + 1]) ELSE B[t]
  BY <1>2, <1>3, <1>6, LevelsFold
<1>8. ints[i] = B[i] /\ ints[i + 1] = B[i + 1] /\ L[j] = cn_fast_hash(B[i], B[i + 1])
  <2>1. ~(i < j) /\ ~(i + 1 < j) /\ j < cnt
    BY <1>2, <1>4, <1>5
  <2> HIDE DEF m, n, L, B
  <2>2. L[j] = cn_fast_hash(B[2 * j], B[2 * j + 1])
    BY <1>5, <1>7, <2>1
  <2> QED BY <1>3, <1>5, <1>6, <2>1, <2>2
<1>9. Sized'
  BY <1>1, <1>4 DEF BInv, Sized, Twice
<1>10. Contents'
  <2>1. ASSUME NEW t \in 0 .. m - 1 PROVE ints'[t] = IF t < j + 1 THEN L[t] ELSE B[t]
    <3> HIDE DEF m, n, L, B
    <3>1. CASE t = j
      <4>1. ints'[t] = cn_fast_hash(ints[i], ints[i + 1])
        BY <1>2, <1>4, <1>5, <3>1
      <4>2. t < j + 1
        BY <1>2, <3>1
      <4> QED BY <1>8, <3>1, <4>1, <4>2
    <3>2. CASE t # j
      <4>1. t < j + 1 <=> t < j
        BY <1>2, <3>2
      <4>2. ints'[t] = ints[t]
        BY <1>4, <3>2
      <4> QED BY <1>6, <4>1, <4>2
    <3> QED BY <3>1, <3>2
  <2>2. pc' = "nodes" /\ hashes' = hashes /\ cnt' = cnt /\ pow' = pow /\ j' = j + 1
    BY <1>1, <1>4
  <2>3. LevelShape(hashes', pow' \div 2, 2 * cnt')
    BY <1>6, <2>2
  <2>4. \A t \in 0 .. (pow' \div 2) - 1 :
           ints'[t] = IF t < j' THEN Levels(hashes')[cnt'][t] ELSE Levels(hashes')[2 * cnt'][t]
    BY <2>1, <2>2
  <2> QED BY <2>2, <2>3, <2>4 DEF Contents
<1>11. /\ tree_branch_hash(hash, branch, path) = IF idx < j THEN L[idx] ELSE B[idx]
       /\ idx < j \/ (i <= idx /\ idx < 2 * cnt)
  BY <1>1 DEF BInv, Leads
<1>12. PICK k \in DOMAIN hashes :
         /\ FirstPlace(hashes, hash, k)
         /\ [at |-> idx, path |-> path] = IF idx < j THEN Ups(n, k)[cnt] ELSE Ups(n, k)[2 * cnt]
  BY <1>1 DEF BInv, Climbed
<1>13. Ups(n, k)[cnt] = Climb(Ups(n, k)[2 * cnt], 0)
  BY <1>2, <1>3, UpsFold
<1> DEFINE New == /\ tree_branch_hash(hash, branch', path') = IF idx' < j + 1 THEN L[idx'] ELSE B[idx']
                  /\ idx' < j + 1 \/ (i + 2 <= idx' /\ idx' < 2 * cnt)
                  /\ IsSeq(branch')
                  /\ [at |-> idx', path |-> path'] = IF idx' < j + 1 THEN Ups(n, k)[cnt] ELSE Ups(n, k)[2 * cnt]
<1>14. New
  <2> HIDE DEF m, n, L, B
  <2>1. CASE idx < j
    <3>1. idx \notin {i, i + 1} /\ idx < j + 1
      BY <1>2, <1>5, <2>1
    <3> QED BY <1>2, <1>4, <1>11, <1>12, <2>1, <3>1
  <2>2. CASE ~(idx < j)
    <3>1. /\ tree_branch_hash(hash, branch, path) = B[idx] /\ idx >= i /\ idx < 2 * cnt
          /\ [at |-> idx, path |-> path] = Ups(n, k)[2 * cnt]
      BY <1>2, <1>11, <1>12, <2>2
    <3>2. CASE idx \notin {i, i + 1}
      <4>1. i + 2 <= idx /\ ~(idx < j + 1)
        BY <1>2, <1>5, <3>1, <3>2, SMTT(30)
      <4> QED BY <1>2, <1>4, <3>1, <3>2, <4>1
    <3>3. ASSUME NEW bit \in {0, 1}, idx = i + bit,
                 /\ idx' = j /\ path' = 2 * path + bit /\ IsSeq(branch')
                 /\ tree_branch_hash(hash, branch', path') = cn_fast_hash(B[i], B[i + 1])
          PROVE  New
      <4>1. idx' < j + 1
        BY <1>2, <3>3
      <4>2. Climb([at |-> idx, path |-> path], 0) = [at |-> j, path |-> 2 * path + bit]
        <5> DEFINE s == 0
        <5>1. s \in Int /\ idx = 2 * j - s + bit /\ s <= idx /\ idx \in Nat /\ path \in Nat /\ j \in Int
          BY <1>2, <1>3, <3>3
        <5> HIDE DEF s
        <5>2. PairClimbs(idx, path, s, j, bit)
          BY <5>1, ClimbPair
        <5> QED BY <5>1, <5>2 DEF PairClimbs, s
      <4>3. [at |-> idx', path |-> path'] = Ups(n, k)[cnt]
        BY <1>13, <3>1, <3>3, <4>2
      <4> QED BY <1>8, <3>3, <4>1, <4>3
    <3>4. CASE idx = i
      <4>1. idx = i + 0
        BY <1>2, <3>4
      <4> QED BY <1>4, <1>8, <3>1, <3>3, <3>4, <4>1
    <3>5. CASE idx = i + 1
      BY <1>4, <1>8, <3>1, <3>3, <3>5
    <3> QED BY <3>2, <3>4, <3>5
  <2> QED BY <2>1, <2>2
<1>15. pc' = "nodes" /\ hash' = hash /\ hashes' = hashes /\ cnt' = cnt /\ j' = j + 1 /\ i' = i + 2
  BY <1>1, <1>4
<1>16. Leads'
  BY <1>14, <1>15 DEF Leads
<1>17. Climbed'
  <2>1. FirstPlace(hashes', hash', k) /\ k \in DOMAIN hashes'
    BY <1>12, <1>15
  <2>2. [at |-> idx', path |-> path'] = IF idx' < j' THEN Ups(count(hashes'), k)[cnt'] ELSE Ups(count(hashes'), k)[2 * cnt']
    BY <1>14, <1>15
  <2> QED BY <1>15, <2>1, <2>2 DEF Climbed
<1> QED BY <1>9, <1>10, <1>16, <1>17

(* AtEnd: at the end of either loop the level is folded, the node followed *)
(* is in it and was climbed to.                                            *)
LEMMA AtEnd ==
  ASSUME BInv, pc \in {"leaves", "nodes"}, j >= cnt
  PROVE  /\ LevelShape(hashes, pow \div 2, cnt)
         /\ \A t \in 0 .. (pow \div 2) - 1 : ints[t] = Levels(hashes)[cnt][t]
         /\ tree_branch_hash(hash, branch, path) = Levels(hashes)[cnt][idx]
         /\ idx < cnt
         /\ \E k \in DOMAIN hashes :
              FirstPlace(hashes, hash, k) /\ [at |-> idx, path |-> path] = Ups(count(hashes), k)[cnt]
<1> DEFINE n == count(hashes)
           m == pow \div 2
           L == Levels(hashes)[cnt]
           B == Levels(hashes)[2 * cnt]
<1>1. /\ n \in Nat /\ n >= 3 /\ m \in Nat \ {0} /\ m = tree_hash_cnt(n)
      /\ j \in Nat /\ i \in Nat /\ idx \in Nat /\ path \in Nat /\ DOMAIN ints = 0 .. m - 1
      /\ cnt \in Nat \ {0} /\ j <= cnt
  BY Sizes
<1>2. CASE pc = "leaves"
  <2>1. cnt = m /\ i = 2 * j - (2 * m - n)
    BY <1>2 DEF BInv, IInv, FoldingLeaves
  <2>2. LevelShape(hashes, m, m)
    BY <1>1, LevelsFirst
  <2>3. \A t \in 0 .. cnt - 1 : t < j => ints[t] = L[t]
    BY <1>2 DEF BInv, Contents
  <2>4. \A t \in 0 .. m - 1 : ints[t] = L[t]
    <3> HIDE DEF m, n, L
    <3> QED BY <1>1, <2>1, <2>3
  <2>5. idx < count(hashes)
    BY <1>2 DEF BInv, IInv, Following
  <2>6. i = n
    <3> HIDE DEF m, n
    <3> QED BY <1>1, <2>1
  <2>7. /\ tree_branch_hash(hash, branch, path) = IF idx < j THEN L[idx] ELSE hashes[idx]
        /\ idx < j \/ idx >= i
    BY <1>2 DEF BInv, Leads
  <2>8. idx < j
    <3> HIDE DEF m
    <3> QED BY <1>1, <2>5, <2>6, <2>7
  <2>9. \E k \in DOMAIN hashes :
           FirstPlace(hashes, hash, k) /\ [at |-> idx, path |-> path] = Ups(count(hashes), k)[cnt]
    BY <1>2, <2>8 DEF BInv, Climbed
  <2>10. idx < cnt
    BY <1>1, <2>8
  <2> QED BY <2>1, <2>2, <2>4, <2>7, <2>8, <2>9, <2>10
<1>3. CASE pc = "nodes"
  <2>1. 2 * cnt <= m /\ i = 2 * j
    BY <1>3 DEF BInv, IInv, FoldingNodes
  <2>2. /\ LevelShape(hashes, m, 2 * cnt)
        /\ \A t \in 0 .. m - 1 : ints[t] = IF t < j THEN L[t] ELSE B[t]
    BY <1>3 DEF BInv, Contents
  <2>3. /\ LevelShape(hashes, m, cnt)
        /\ \A t \in 0 .. m - 1 : L[t] = IF t < cnt THEN cn_fast_hash(B[2 * t], B[2 * t + 1]) ELSE B[t]
    <3>1. m = tree_hash_cnt(count(hashes)) /\ cnt \in Nat \ {0} /\ m \in Nat \ {0}
      BY <1>1
    <3>2. 2 * cnt <= m /\ LevelShape(hashes, m, 2 * cnt)
      BY <2>1, <2>2
    <3> HIDE DEF m, n
    <3> QED BY <3>1, <3>2, LevelsFold, Zenon
  <2>4. \A t \in 0 .. m - 1 : ints[t] = L[t]
    <3> HIDE DEF m, n, L, B
    <3> QED BY <1>1, <2>2, <2>3
  <2>5. /\ tree_branch_hash(hash, branch, path) = IF idx < j THEN L[idx] ELSE B[idx]
        /\ idx < j \/ (i <= idx /\ idx < 2 * cnt)
    BY <1>3 DEF BInv, Leads
  <2>6. idx < j
    <3> HIDE DEF m
    <3> QED BY <1>1, <2>1, <2>5
  <2>7. \E k \in DOMAIN hashes :
           FirstPlace(hashes, hash, k) /\ [at |-> idx, path |-> path] = Ups(count(hashes), k)[cnt]
    BY <1>3, <2>6 DEF BInv, Climbed
  <2>8. idx < cnt
    BY <1>1, <2>6
  <2> QED BY <2>3, <2>4, <2>5, <2>6, <2>7, <2>8
<1> QED BY <1>2, <1>3

(* LevelStep: so does going up a level.                                    *)
LEMMA LevelStep ==
  ASSUME BInv, NextLevel
  PROVE  Sized' /\ Contents' /\ Leads' /\ Climbed'
<1> DEFINE m == pow \div 2
<1>1. /\ pc \in {"leaves", "nodes"} /\ j >= cnt /\ cnt > 2 /\ cnt' = cnt \div 2 /\ i' = 0 /\ j' = 0 /\ pc' = "nodes"
      /\ UNCHANGED <<hashes, hash, pow, ints, idx, branch, path>>
  BY DEF NextLevel, arguments, outputs
<1>2. /\ m = tree_hash_cnt(count(hashes)) /\ idx \in Nat /\ IsSeq(branch)
  BY <1>1, Sizes
<1>3. PICK e \in Nat : cnt = 2 * 2 ^ e
  BY <1>1 DEF BInv, Sized, Twice
<1>4. e # 0
  <2>1. e = 0 => cnt = 2
    BY <1>3, PowersFrom
  <2> QED BY <1>1, <2>1
<1>5. cnt' = 2 ^ e /\ cnt = 2 * cnt' /\ cnt' = 2 * 2 ^ (e - 1) /\ cnt' \in Nat
  <2>1. e - 1 \in Nat /\ e = (e - 1) + 1
    BY <1>4
  <2>2. 2 ^ ((e - 1) + 1) = 2 * 2 ^ (e - 1) /\ 2 ^ e \in Nat
    BY <2>1, PowerStep, PowersFrom
  <2> DEFINE x == 2 ^ e
  <2>3. x \in Nat /\ cnt = 2 * x
    BY <1>3, <2>2
  <2> HIDE DEF x
  <2>4. cnt' = x
    BY <1>1, <2>3, Halved
  <2>5. x = 2 * 2 ^ (e - 1)
    BY <2>1, <2>2 DEF x
  <2> QED BY <2>3, <2>4, <2>5 DEF x
<1>6. Sized'
  <2>1. Twice(cnt')
    <3>1. e - 1 \in Nat
      BY <1>4
    <3> QED BY <1>5, <3>1 DEF Twice
  <2>2. pow' \div 2 = tree_hash_cnt(count(hashes'))
    BY <1>1, <1>2
  <2>3. pc' = "nodes"
    BY <1>1
  <2> QED BY <2>1, <2>2, <2>3 DEF Sized
<1>7. /\ LevelShape(hashes, m, cnt)
      /\ \A t \in 0 .. m - 1 : ints[t] = Levels(hashes)[cnt][t]
      /\ tree_branch_hash(hash, branch, path) = Levels(hashes)[cnt][idx]
      /\ idx < cnt
      /\ \E k \in DOMAIN hashes :
           FirstPlace(hashes, hash, k) /\ [at |-> idx, path |-> path] = Ups(count(hashes), k)[cnt]
  BY <1>1, AtEnd
<1>8. \A t \in 0 .. m - 1 : ~(t < 0)
  OBVIOUS
<1>9. ~(idx < 0)
  BY <1>2
<1>10. Contents'
  <2>1. LevelShape(hashes', pow' \div 2, 2 * cnt')
    BY <1>1, <1>5, <1>7
  <2>2. \A t \in 0 .. (pow' \div 2) - 1 :
          ints'[t] = IF t < j' THEN Levels(hashes')[cnt'][t] ELSE Levels(hashes')[2 * cnt'][t]
    BY <1>1, <1>5, <1>7, <1>8
  <2> QED BY <1>1, <2>1, <2>2 DEF Contents
<1>11. Leads'
  <2>1. tree_branch_hash(hash', branch', path') = IF idx' < j' THEN Levels(hashes')[cnt'][idx'] ELSE Levels(hashes')[2 * cnt'][idx']
    BY <1>1, <1>5, <1>7, <1>9
  <2>2. i' <= idx' /\ idx' < 2 * cnt' /\ IsSeq(branch') /\ pc' = "nodes"
    BY <1>1, <1>2, <1>5, <1>7
  <2> QED BY <2>1, <2>2 DEF Leads
<1>12. Climbed'
  <2>1. PICK k \in DOMAIN hashes :
           FirstPlace(hashes, hash, k) /\ [at |-> idx, path |-> path] = Ups(count(hashes), k)[cnt]
    BY <1>7
  <2>2. FirstPlace(hashes', hash', k) /\ k \in DOMAIN hashes' /\ pc' = "nodes"
    BY <1>1, <2>1
  <2>3. [at |-> idx', path |-> path'] = IF idx' < j' THEN Ups(count(hashes'), k)[cnt'] ELSE Ups(count(hashes'), k)[2 * cnt']
    BY <1>1, <1>5, <1>9, <2>1
  <2> QED BY <2>2, <2>3 DEF Climbed
<1> QED BY <1>6, <1>10, <1>11, <1>12

(* ClimbTop: the bit that Climb adds for the last pair.                    *)
LEMMA ClimbTop ==
  ASSUME NEW at \in {0, 1}, NEW p \in Nat
  PROVE  Climb([at |-> at, path |-> p], 0).path = 2 * p + at
<1> DEFINE u == [at |-> at, path |-> p]
<1>1. u.at = at /\ u.path = p
  OBVIOUS
<1> HIDE DEF u
<1>2. Climb(u, 0) = [at |-> (u.at + 0) \div 2, path |-> (2 * u.path) + ((u.at - 0) % 2)]
  BY <1>1 DEF Climb
<1>3. (at - 0) % 2 = at
  OBVIOUS
<1> QED BY <1>1, <1>2, <1>3 DEF u

(* TopStep: the last pair leads to the root.                               *)
LEMMA TopStep ==
  ASSUME BInv, Top
  PROVE  Sized' /\ Contents' /\ Leads' /\ Climbed' /\ BranchProves'
<1> DEFINE n == count(hashes)
           m == pow \div 2
           L == Levels(hashes)[2]
<1>1. /\ pc \in {"leaves", "nodes"} /\ j >= cnt /\ cnt <= 2 /\ pc' = "true"
      /\ UNCHANGED <<hashes, hash>>
  BY DEF Top, arguments
<1>2. /\ n \in Nat /\ n >= 3 /\ m \in Nat \ {0} /\ m = tree_hash_cnt(n)
      /\ idx \in Nat /\ path \in Nat /\ IsSeq(branch) /\ pow \div 2 >= 2
  BY <1>1, Sizes DEF BInv, IInv, Allocated
<1>3. cnt = 2
  <2>1. PICK e \in Nat : cnt = 2 * 2 ^ e
    BY <1>1 DEF BInv, Sized, Twice
  <2>2. 2 ^ e \in Nat \ {0}
    BY PowersFrom
  <2> DEFINE x == 2 ^ e
  <2>3. x \in Nat \ {0} /\ cnt = 2 * x
    BY <2>1, <2>2
  <2> HIDE DEF x
  <2> QED BY <1>1, <2>3
<1>4. /\ \A t \in 0 .. m - 1 : ints[t] = Levels(hashes)[cnt][t]
      /\ tree_branch_hash(hash, branch, path) = Levels(hashes)[cnt][idx]
      /\ idx < cnt
      /\ \E k \in DOMAIN hashes :
           FirstPlace(hashes, hash, k) /\ [at |-> idx, path |-> path] = Ups(count(hashes), k)[cnt]
  BY <1>1, AtEnd
<1>5. PICK k \in DOMAIN hashes :
        FirstPlace(hashes, hash, k) /\ [at |-> idx, path |-> path] = Ups(n, k)[2]
  BY <1>3, <1>4
<1>6. idx \in {0, 1} /\ ints[0] = L[0] /\ ints[1] = L[1]
  <2> HIDE DEF m
  <2>1. idx \in {0, 1} /\ 0 \in 0 .. m - 1 /\ 1 \in 0 .. m - 1
    BY <1>2, <1>3, <1>4 DEF m
  <2> QED BY <1>3, <1>4, <2>1
<1>7. branch' = Append(branch, ints[1 - idx]) /\ path' = 2 * path + idx
  BY <1>6 DEF Top
<1>8. /\ IsSeq(branch')
      /\ tree_branch_hash(hash, branch', path') = Join(idx, tree_branch_hash(hash, branch, path), ints[1 - idx])
  <2>1. /\ IsSeq(Append(branch, ints[1 - idx]))
        /\ tree_branch_hash(hash, Append(branch, ints[1 - idx]), 2 * path + idx) =
             Join(idx, tree_branch_hash(hash, branch, path), ints[1 - idx])
    BY <1>2, <1>6, Appended
  <2> QED BY <1>7, <2>1
<1>9. tree_branch_hash(hash, branch', path') = tree_hash(hashes)
  <2>1. tree_hash(hashes) = cn_fast_hash(L[0], L[1])
    <3>1. n \notin {1, 2}
      BY <1>2
    <3> QED BY <1>2, <3>1, LevelsExist
  <2>2. Join(idx, L[idx], ints[1 - idx]) = cn_fast_hash(L[0], L[1])
    <3>1. CASE idx = 0
      BY <1>6, <3>1 DEF Join
    <3>2. CASE idx = 1
      BY <1>6, <3>2 DEF Join
    <3> QED BY <1>6, <3>1, <3>2
  <2> QED BY <1>3, <1>4, <1>8, <2>1, <2>2
<1>10. path' = tree_path(n, k) /\ path' \in Nat
  <2> DEFINE one == 1
  <2>1. one \in Nat \ {0} /\ 2 * one <= m /\ 2 * one = 2 /\ one = 1
    BY <1>2
  <2> HIDE DEF one
  <2>2. Ups(n, k)[one] = Climb(Ups(n, k)[2 * one], 0)
    BY <1>2, <2>1, UpsFold
  <2>3. Climb([at |-> idx, path |-> path], 0).path = 2 * path + idx
    BY <1>2, <1>6, ClimbTop
  <2>5. Ups(n, k)[1].path = 2 * path + idx
    BY <1>5, <2>1, <2>2, <2>3
  <2>6. tree_path(n, k) = Ups(n, k)[1].path
    BY <1>2, UpsLast
  <2>7. 2 * path + idx \in Nat
    BY <1>2, <1>6
  <2> QED BY <1>7, <2>5, <2>6, <2>7
<1>11. Proven(hashes, hash, branch', path')
  BY <1>5, <1>8, <1>9, <1>10, Enough
<1>12. BranchProves'
  <2>1. Proven(hashes', hash', branch', path')
    BY <1>1, <1>11
  <2> QED BY <2>1 DEF BranchProves, Proven, Places, Flipped
<1> QED BY <1>1, <1>8, <1>12 DEF Sized, Contents, Leads, Climbed

(* StartStep: the loops start with the leaves that are not paired.         *)
LEMMA StartStep ==
  ASSUME BInv, Start
  PROVE  Sized' /\ Contents' /\ Leads' /\ Climbed'
<1> DEFINE n == count(hashes)
           m == pow \div 2
           s == 2 * m - n
           L == Levels(hashes)[m]
<1>1. /\ pc = "round" /\ pow >= n /\ cnt' = m /\ i' = s /\ j' = s /\ pc' = "leaves"
      /\ ints' = [t \in 0 .. m - 1 |-> IF t < s THEN hashes[t] ELSE zero]
      /\ UNCHANGED <<hashes, hash, pow, idx, branch, path>>
  BY DEF Start, arguments, outputs
<1>2. n \in Nat /\ n >= 3 /\ idx \in Nat /\ idx < n /\ hashes \in Inputs /\ DOMAIN hashes = 0 .. n - 1
  BY <1>1, ArrayOfHashes DEF BInv, IInv, Typed, Rounding, Following
<1>3. PICK e \in Nat : pow = 2 * 2 ^ e
  BY <1>1 DEF BInv, Sized, Twice
<1>4. PICK q \in Nat : pow = 2 * q /\ q < n
  BY <1>1 DEF BInv, IInv, Rounding
<1>5. m = 2 ^ e /\ m \in Nat \ {0} /\ m < n /\ n <= 2 * m
  <2> DEFINE x == 2 ^ e
  <2>1. x \in Nat \ {0} /\ pow = 2 * x
    BY <1>3, PowersFrom
  <2> HIDE DEF x, n
  <2>2. pow \div 2 = x /\ x = q
    BY <1>4, <2>1, Halved
  <2>3. n <= 2 * x
    BY <1>1, <2>1
  <2> QED BY <1>4, <2>1, <2>2, <2>3 DEF x
<1>6. m = tree_hash_cnt(n)
  <2>1. PICK K \in Nat \ {0} : tree_hash_cnt(n) = 2 ^ K /\ 2 ^ K < n /\ n <= 2 * 2 ^ K
    BY <1>2, Rounded
  <2>2. 2 ^ e < n /\ n <= 2 * 2 ^ e /\ n \in Nat /\ e \in Nat /\ K \in Nat
    BY <1>2, <1>5
  <2>3. e = K
    BY <2>1, <2>2, OnePower
  <2> QED BY <1>5, <2>1, <2>3
<1>7. Twice(m)
  <2>1. e # 0
    <3>1. e = 0 => m = 1
      BY <1>5, PowersFrom
    <3> HIDE DEF m
    <3> QED BY <1>2, <1>5, <3>1
  <2>2. e - 1 \in Nat /\ e = (e - 1) + 1
    BY <2>1
  <2>3. 2 ^ ((e - 1) + 1) = 2 * 2 ^ (e - 1)
    BY <2>2, PowerStep
  <2>4. m = 2 * 2 ^ (e - 1)
    BY <1>5, <2>2, <2>3
  <2> QED BY <2>2, <2>4 DEF Twice
<1>8. Sized'
  <2>1. Twice(cnt') /\ pow' \div 2 = tree_hash_cnt(count(hashes'))
    BY <1>1, <1>6, <1>7
  <2> QED BY <1>1, <2>1 DEF Sized
<1>9. \A t \in 0 .. m - 1 : t < s => ints'[t] = L[t] /\ L[t] = hashes[t]
  <2>1. L = FirstLevel(hashes, n, m)
    BY <1>5, <1>6, LevelsFirst
  <2> HIDE DEF m, n, L
  <2>2. \A t \in 0 .. m - 1 : t < 2 * m - n => L[t] = hashes[t]
    BY <2>1 DEF FirstLevel
  <2> QED BY <1>1, <2>2
<1>10. Contents'
  <2>1. \A t \in 0 .. cnt' - 1 : t < j' => ints'[t] = Levels(hashes')[cnt'][t]
    BY <1>1, <1>9
  <2> QED BY <1>1, <2>1 DEF Contents
<1>11. IsSeq(branch) /\ branch = << >> /\ path = 0 /\ hash = hashes[idx]
  BY <1>1 DEF BInv, Leads
<1>12. idx < s => L[idx] = hashes[idx]
  <2> HIDE DEF m, n, L
  <2>1. idx < s => idx \in 0 .. m - 1
    BY <1>2, <1>5
  <2> QED BY <1>9, <2>1
<1>13. Leads'
  <2>1. tree_branch_hash(hash, branch, path) = hashes[idx]
    BY <1>11, Without
  <2>2. tree_branch_hash(hash', branch', path') = IF idx' < j' THEN Levels(hashes')[cnt'][idx'] ELSE hashes'[idx']
    BY <1>1, <1>12, <2>1
  <2>3. idx' < j' \/ idx' >= i'
    <3> HIDE DEF m, n
    <3>1. s \in Int
      BY <1>2, <1>5
    <3> HIDE DEF s
    <3> QED BY <1>1, <1>2, <3>1
  <2> QED BY <1>1, <1>11, <2>2, <2>3 DEF Leads
<1>14. Climbed'
  <2>1. PICK k \in DOMAIN hashes : FirstPlace(hashes, hash, k) /\ idx = k
    BY <1>1 DEF BInv, Climbed
  <2>2. Ups(n, k)[m] = Climb([at |-> k, path |-> 0], s)
    BY <1>5, <1>6, UpsFirst
  <2>3. idx < s => Climb([at |-> k, path |-> 0], s) = [at |-> k, path |-> 0]
    <3> HIDE DEF s
    <3> QED BY <2>1 DEF Climb
  <2>4. [at |-> idx', path |-> path'] = IF idx' < j' THEN Ups(count(hashes'), k)[cnt'] ELSE [at |-> k, path |-> 0]
    BY <1>1, <1>11, <2>1, <2>2, <2>3
  <2>5. FirstPlace(hashes', hash', k) /\ k \in DOMAIN hashes'
    BY <1>1, <2>1
  <2> QED BY <1>1, <2>4, <2>5 DEF Climbed
<1> QED BY <1>8, <1>10, <1>13, <1>14

(* FindStep: one hash is its own root, and two are paired.                 *)
LEMMA FindStep ==
  ASSUME BInv, Find
  PROVE  Sized' /\ Contents' /\ Leads' /\ Climbed' /\ BranchProves'
<1> DEFINE n == count(hashes)
<1>1. PICK k \in Places :
        /\ \A o \in Places : k <= o
        /\ idx' = k
        /\ n = 2 => branch' = <<hashes[1 - k]>> /\ path' = k
        /\ n # 2 => branch' = branch /\ path' = path
  BY DEF Find
<1>2. /\ pc = "call" /\ pc' = (IF n <= 2 THEN "true" ELSE "round")
      /\ UNCHANGED <<hashes, hash, pow, cnt, ints, i, j>>
  BY DEF Find, arguments
<1>3. branch = << >> /\ path = 0 /\ pow = 2 /\ IsSeq(branch)
  BY <1>2 DEF BInv, Sized, Leads, IInv, Rounding
<1>4. n \in Nat /\ DOMAIN hashes = 0 .. n - 1
  BY ArrayOfHashes DEF BInv, IInv, Typed
<1>5. k \in DOMAIN hashes /\ hashes[k] = hash /\ FirstPlace(hashes, hash, k) /\ k \in Nat /\ k < n
  BY <1>1, <1>4 DEF Places, FirstPlace
<1>6. CASE n <= 2
  <2>1. n \in {1, 2}
    BY <1>4, <1>5, <1>6
  <2>2. IsSeq(branch') /\ path' \in Nat /\ tree_branch_hash(hash, branch', path') = tree_hash(hashes) /\ path' = tree_path(n, k)
    <3>1. tree_path(n, k) = k
      BY <1>6 DEF tree_path
    <3>2. CASE n = 1
      <4>1. branch' = << >> /\ path' = 0 /\ k = 0
        BY <1>1, <1>3, <1>5, <3>2
      <4>2. tree_hash(hashes) = hashes[0]
        BY <3>2 DEF tree_hash
      <4>3. tree_branch_hash(hash, << >>, 0) = hash
        BY Without
      <4> QED BY <1>3, <1>5, <3>1, <4>1, <4>2, <4>3
    <3>3. CASE n = 2
      <4>1. branch' = <<hashes[1 - k]>> /\ path' = k /\ k \in {0, 1}
        BY <1>1, <1>4, <1>5, <3>3
      <4>2. tree_hash(hashes) = cn_fast_hash(hashes[0], hashes[1])
        BY <3>3 DEF tree_hash
      <4>3. /\ IsSeq(Append(branch, hashes[1 - k]))
            /\ tree_branch_hash(hash, Append(branch, hashes[1 - k]), 2 * path + k) =
                 Join(k, tree_branch_hash(hash, branch, path), hashes[1 - k])
        <5>1. path \in Nat /\ IsSeq(branch) /\ k \in {0, 1}
          BY <1>3, <4>1
        <5> QED BY <5>1, Appended
      <4>4. Append(branch, hashes[1 - k]) = branch' /\ 2 * path + k = path'
        BY <1>3, <4>1
      <4>5. tree_branch_hash(hash, branch, path) = hash
        BY <1>3, Without
      <4>6. Join(k, hash, hashes[1 - k]) = cn_fast_hash(hashes[0], hashes[1])
        <5>1. CASE k = 0
          BY <1>5, <5>1 DEF Join
        <5>2. CASE k = 1
          BY <1>5, <5>2 DEF Join
        <5> QED BY <4>1, <5>1, <5>2
      <4> QED BY <1>5, <3>1, <4>1, <4>2, <4>3, <4>4, <4>5, <4>6
    <3> QED BY <2>1, <3>2, <3>3
  <2>3. Proven(hashes, hash, branch', path')
    BY <1>5, <2>2, Enough
  <2>4. BranchProves'
    <3>1. Proven(hashes', hash', branch', path')
      BY <1>2, <2>3
    <3> QED BY <3>1 DEF BranchProves, Proven, Places, Flipped
  <2>5. pc' = "true"
    BY <1>2, <1>6
  <2> QED BY <2>2, <2>4, <2>5 DEF Sized, Contents, Leads, Climbed
<1>7. CASE ~(n <= 2)
  <2>1. pc' = "round" /\ branch' = << >> /\ path' = 0 /\ idx' = k /\ pow' = 2 /\ IsSeq(branch')
    BY <1>1, <1>2, <1>3, <1>7
  <2>2. Twice(pow')
    <3>1. 2 = 2 * 2 ^ 0
      BY PowersFrom
    <3> QED BY <2>1, <3>1 DEF Twice
  <2>3. Climbed'
    <3>1. FirstPlace(hashes', hash', k) /\ k \in DOMAIN hashes'
      BY <1>2, <1>5
    <3> QED BY <2>1, <3>1 DEF Climbed
  <2>4. Leads'
    BY <1>2, <1>5, <2>1 DEF Leads
  <2> QED BY <2>1, <2>2, <2>3, <2>4 DEF Sized, Contents, BranchProves
<1> QED BY <1>6, <1>7

(* StepBranch: every turn of every loop keeps all of it.                   *)
LEMMA StepBranch == BInv /\ [Next]_vars => BInv'
<1> SUFFICES ASSUME BInv, [Next]_vars PROVE BInv'
  OBVIOUS
<1>1. IInv'
  BY StepInvariant DEF BInv
<1>2. SUFFICES Sized' /\ Contents' /\ Leads' /\ Climbed' /\ BranchProves'
  BY <1>1 DEF BInv
<1>3. CASE NotInTree
  <2>1. pc' = "false" /\ branch' = branch
    BY <1>3 DEF NotInTree, outputs
  <2> QED BY <2>1 DEF BInv, Sized, Contents, Leads, Climbed, BranchProves
<1>4. CASE Find
  BY <1>4, FindStep
<1>5. CASE Double
  <2>1. /\ pc = "round" /\ pc' = "round" /\ pow' = 2 * pow
        /\ UNCHANGED <<hashes, hash, cnt, ints, i, j, idx, branch, path>>
    BY <1>5 DEF Double, arguments, outputs
  <2>2. Twice(pow')
    <3>1. PICK e \in Nat : pow = 2 * 2 ^ e
      BY <2>1 DEF BInv, Sized, Twice
    <3>2. 2 ^ (e + 1) = 2 * 2 ^ e /\ e + 1 \in Nat
      BY PowerStep
    <3>3. pow' = 2 * 2 ^ (e + 1)
      BY <2>1, <3>1, <3>2
    <3> QED BY <3>2, <3>3 DEF Twice
  <2> QED BY <2>1, <2>2 DEF BInv, Sized, Contents, Leads, Climbed, BranchProves
<1>6. CASE Start
  <2>1. pc' = "leaves"
    BY <1>6 DEF Start
  <2> QED BY <1>6, <2>1, StartStep DEF BranchProves
<1>7. CASE FoldLeaves
  <2>1. pc' = "leaves"
    BY <1>7 DEF FoldLeaves, FoldPair
  <2> QED BY <1>7, <2>1, LeavesStep DEF BranchProves
<1>8. CASE FoldNodes
  <2>1. pc' = "nodes"
    BY <1>8 DEF FoldNodes, FoldPair
  <2> QED BY <1>8, <2>1, NodesStep DEF BranchProves
<1>9. CASE NextLevel
  <2>1. pc' = "nodes"
    BY <1>9 DEF NextLevel
  <2> QED BY <1>9, <2>1, LevelStep DEF BranchProves
<1>10. CASE Top
  BY <1>10, TopStep
<1>11. CASE UNCHANGED vars
  BY <1>11 DEF vars, BInv, Sized, Contents, Leads, Climbed, BranchProves, Places
<1>12. CASE Returned
  BY <1>11, <1>12 DEF Returned
<1> QED
  BY <1>3, <1>4, <1>5, <1>6, <1>7, <1>8, <1>9, <1>10, <1>11, <1>12 DEF Next

(* However many hashes there are, the branch tree_branch answers leads     *)
(* from the hash to the root, from no other hash, and by no path that      *)
(* differs in one bit unless both children are the same; it is the path    *)
(* that tree_path gives for the first place of the hash.                   *)
THEOREM BranchAlwaysProves == Spec => []BranchProves
<1>1. BInv => BranchProves
  BY DEF BInv
<1> QED BY <1>1, InitBranch, StepBranch, PTL DEF Spec
=============================================================================
