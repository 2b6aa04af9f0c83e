------------------------------ MODULE MCCurve ------------------------------
(* Values for TLC: the curve over the integers modulo 61, of order 56. *)
EXTENDS CurveCalls

TwoScalars == {0, 4096 * 7 + 15}

(* Scalars of four nibbles, each about to carry or just having done so. *)
EdgeScalars ==
  {a * 4096 + b * 256 + c * 16 + d :
     a \in {0, 7}, b \in {0, 15}, c, d \in {0, 7, 8, 15}}

(* A point of order 8 and one of the whole group. *)
SomeKeys ==
  LET order(s, n) == Times(n, AffineOf[s]) = <<0, 1>>
  IN  {CHOOSE s \in Keys : order(s, 8) /\ ~order(s, 4),
       CHOOSE s \in Keys : ~order(s, 8) /\ ~order(s, 28)}

(* Primes whose product is beyond 2^257. *)
Primes ==
  {32609, 32611, 32621, 32633, 32647, 32653, 32687, 32693, 32707, 32713, 32717,
   32719, 32749, 32771, 32779, 32783, 32789, 32797}

Exponents(n) == INSTANCE FieldPower WITH m <- n

(* l - 2 of the real curve, 2^252 + 27742317777372353535851937790883648491, *)
(* modulo n: digits by thousands, the highest first.                       *)
OrderLessTwo(n) ==
  LET low == <<27, 742, 317, 777, 372, 353, 535, 851, 937, 790, 883, 648, 491>>
      value[i \in Nat] == IF i = 0 THEN 0 ELSE (value[i - 1] * 1000 + low[i]) % n
  IN  (Exponents(n)!PowerOfTwo(252) + value[13]) % n

(* ChainsExact: the chains end at 2^255 - 21, at 2^252 - 3 and at l - 2: no *)
(* squaring of the two hundred and fifty is missing and no product is by   *)
(* the wrong register.                                                     *)
ChainsExact ==
  call.op = "power" =>
    LET n == call.modulus
    IN  /\ Exponents(n)!fe_invert(1) = (Exponents(n)!PowerOfTwo(255) - 21) % n
        /\ Exponents(n)!fe_pow22523(1) = (Exponents(n)!PowerOfTwo(252) - 3) % n
        /\ Exponents(n)!invert(1) = OrderLessTwo(n)
=============================================================================
