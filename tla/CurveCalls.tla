----------------------------- MODULE CurveCalls -----------------------------
(***************************************************************************)
(* A caller of crypto-ops.c that holds one point: it decodes, adds,        *)
(* doubles, multiplies and hashes, in any order, and the point keeps the   *)
(* coordinates the formulas left it with.                                  *)
(***************************************************************************)
EXTENDS Edwards

CONSTANTS
  Scalars,     \* scalars multiplied by, below half of ScalarRange
  FewScalars,  \* those all pairs and triples are made with
  FewKeys,     \* encodings of the points of pairs and triples
  Moduli       \* primes the exponents of a chain are taken by

ASSUME CurveAssumption ==
  /\ q % 8 = 5 /\ \A n \in 2 .. q - 1 : q % n # 0
  /\ q < YRange
  /\ \A f \in Fe : fe_sq(f) # fe_d /\ fe_sq(f) # A_A_plus_2
ASSUME NibblesAssumption == Nibbles \in Nat \ {0} /\ Nibbles % 2 = 0
ASSUME ScalarsAssumption ==
  Scalars \subseteq 0 .. ScalarRange \div 2 - 1 /\ FewScalars \subseteq Scalars

VARIABLES
  call,        \* the last call
  point        \* what it wrote: a ge_p3, or a ge_p2 from a function that gives one
vars == <<call, point>>

Decoded == [s \in Encoding |-> ge_frombytes_vartime(s)]
Keys == {s \in Encoding : Decoded[s].ok}
AffineOf == [s \in Keys |-> Affine(Decoded[s].h)]

ASSUME FewKeysAssumption == FewKeys \subseteq Keys

Init == call = [op |-> "none"] /\ point = ge_p3_0

HoldsP3 == "T" \in DOMAIN point

(* A caller decodes before it adds. *)
Load(s) ==
  /\ call.op \in {"none", "load"}
  /\ call' = [op |-> "load", key |-> s, ok |-> Decoded[s].ok]
  /\ point' = IF Decoded[s].ok THEN Decoded[s].h ELSE point

Add(s) ==
  /\ HoldsP3
  /\ call' = [op |-> "add", key |-> s]
  /\ point' = ge_p1p1_to_p3(ge_add(point, ge_p3_to_cached(Decoded[s].h)))

Subtract(s) ==
  /\ HoldsP3
  /\ call' = [op |-> "sub", key |-> s]
  /\ point' = ge_p1p1_to_p3(ge_sub(point, ge_p3_to_cached(Decoded[s].h)))

Double ==
  /\ call' = [op |-> "double"]
  /\ point' = ge_p1p1_to_p3(ge_p2_dbl(ge_p3_to_p2(point)))

MultiplyBy8 ==
  /\ call' = [op |-> "mul8"]
  /\ point' = ge_p1p1_to_p3(ge_mul8(ge_p3_to_p2(point)))

(* A multiple is made of points that have just been decoded and does not   *)
(* read the point held, so one state to call from is enough.               *)
Answer(base, terms, p) ==
  /\ call.op = "none"
  /\ call' = [op |-> "multiply", base |-> base, terms |-> terms]
  /\ point' = p

MultiplyBase(a) == Answer(a, << >>, ge_scalarmult_base(a))

Multiply(a, s) ==
  \/ Answer(0, <<<<a, s>>>>, ge_scalarmult(a, Decoded[s].h))
  \/ Answer(0, <<<<a, s>>>>, ge_scalarmult_p3(a, Decoded[s].h))

MultiplyPair(a, s, b, t) ==
  LET S == Decoded[s].h
      Ti == ge_dsm_precomp(Decoded[t].h)
  IN  \/ Answer(b, <<<<a, s>>>>, ge_double_scalarmult_base_vartime(a, S, b))
      \/ Answer(0, <<<<a, s>>, <<b, t>>>>, ge_double_scalarmult_precomp_vartime(a, S, b, Ti))

(* What r3 holds when nothing is written to it is any point. *)
MultiplyPairP3(a, s, b, t) ==
  LET Si == ge_dsm_precomp(Decoded[s].h)
      Ti == ge_dsm_precomp(Decoded[t].h)
  IN  IF a = 0 /\ b = 0
      THEN /\ call.op = "none"
           /\ call' = [op |-> "nothing"]
           /\ \E r3 \in {Decoded[s].h, Decoded[t].h} :
                point' = ge_double_scalarmult_precomp_vartime2_p3(a, Si, b, Ti, r3)
      ELSE \/ Answer(b, <<<<a, s>>>>,
                     ge_double_scalarmult_base_vartime_p3(a, Decoded[s].h, b, ge_p3_0))
           \/ Answer(0, <<<<a, s>>, <<b, t>>>>,
                     ge_double_scalarmult_precomp_vartime2_p3(a, Si, b, Ti, ge_p3_0))

MultiplyTriple(a, s, b, t, c) ==
  LET Si == ge_dsm_precomp(Decoded[s].h)
      Ti == ge_dsm_precomp(Decoded[t].h)
  IN  \/ Answer(c, <<<<a, s>>, <<b, t>>>>, ge_triple_scalarmult_base_vartime(c, a, Si, b, Ti))
      \/ Answer(0, <<<<a, s>>, <<b, t>>, <<c, s>>>>,
                ge_triple_scalarmult_precomp_vartime(a, Si, b, Ti, c, Si))

(* hash_to_ec: the bytes of a hash, to a point, times the cofactor. *)
Hash(s) ==
  /\ call.op = "none"
  /\ call' = [op |-> "hash", bytes |-> s]
  /\ point' = ge_p1p1_to_p3(ge_mul8(ge_fromfe_frombytes_vartime(s).h))

Raise(n) ==
  /\ call.op = "none"
  /\ call' = [op |-> "power", modulus |-> n]
  /\ UNCHANGED point

Next ==
  \/ \E s \in Encoding : Load(s) \/ Hash(s)
  \/ \E s \in FewKeys : Add(s) \/ Subtract(s)
  \/ Double
  \/ MultiplyBy8
  \/ \E a \in Scalars : MultiplyBase(a)
  \/ \E a \in Scalars, s \in Keys : Multiply(a, s)
  \/ \E a \in Scalars, b \in FewScalars, s, t \in FewKeys :
       MultiplyPair(a, s, b, t) \/ MultiplyPair(b, s, a, t)
         \/ MultiplyPairP3(a, s, b, t)
  \/ \E a, b, c \in FewScalars, s, t \in FewKeys : MultiplyTriple(a, s, b, t, c)
  \/ \E n \in Moduli : Raise(n)

Spec == Init /\ [][Next]_vars

-----------------------------------------------------------------------------
(* HashingAsserted: the assertions of the map to the curve hold for all    *)
(* bytes: each value has the root that is looked for, and a root whose     *)
(* sign must be changed is not zero.                                       *)
HashingAsserted ==
  call.op = "hash" => ge_fromfe_frombytes_vartime(call.bytes).asserted

(* OnCurve (the type invariant): a point held is projective, on the curve, *)
(* and its T is XY/Z; the additions without inversions rely on all three.  *)
(* One that was hashed to has met the assertions on the way.               *)
OnCurve ==
  LET xx == fe_sq(point.X)
      yy == fe_sq(point.Y)
      zz == fe_sq(point.Z)
  IN  /\ {point.X, point.Y, point.Z} \subseteq Fe
      /\ fe_isnonzero(point.Z)
      /\ fe_mul(fe_sub(yy, xx), zz) = fe_add(fe_sq(zz), fe_mul(fe_d, fe_mul(xx, yy)))
      /\ HoldsP3 => fe_mul(point.T, point.Z) = fe_mul(point.X, point.Y)
      /\ HashingAsserted

(* The group by its definition: points of the plane, the law with its      *)
(* divisions, an encoding as y and the parity of x.                        *)
Points == {P \in Fe \X Fe : fe_sub(fe_sq(P[2]), fe_sq(P[1]))
                              = fe_add(1, fe_mul(fe_d, fe_sq(fe_mul(P[1], P[2]))))}
Reciprocal == [f \in Fe \ {0} |-> CHOOSE g \in Fe : (f * g) % q = 1]
Plus(P, Q) ==
  LET dxy == fe_mul(fe_d, fe_mul(P[1] * Q[1], P[2] * Q[2]))
  IN  <<fe_mul(P[1] * Q[2] + Q[1] * P[2], Reciprocal[fe_add(1, dxy)]),
        fe_mul(P[2] * Q[2] + P[1] * Q[1], Reciprocal[fe_sub(1, dxy)])>>
Times(n, P) ==
  LET times[k \in Nat] == IF k = 0 THEN <<0, 1>> ELSE Plus(times[k - 1], P) IN times[n]
Minus(P) == <<fe_neg(P[1]), P[2]>>
PointsEncoded == [s \in Encoding |-> {P \in Points : P[2] = s % YRange /\ P[1] % 2 = s \div YRange}]
PointOf(s) == PointsEncoded[s]
AffineB == Affine(B)

Group == INSTANCE CurveGroup
         WITH Group <- Points, Zero <- <<0, 1>>, B <- AffineB, element <- Affine(point)

(* ComputesInGroup: whatever coordinates a point has, in whichever form it *)
(* is and whichever of the nine functions multiplies it, the code computes *)
(* in the group of the curve: decoding accepts exactly the canonical       *)
(* encodings, and hashing ends in the subgroup.                            *)
ComputesInGroup == Group!Spec

(* CanonicalBytes: a point has one encoding that is accepted, the one it   *)
(* is given, and the test for infinity knows the neutral point by any of   *)
(* its coordinates and no other; comparing all the words of a number at    *)
(* once accepts exactly the numbers below the order as scalars.            *)
PointsCanonical ==
  call.op \in {"none", "load", "add", "sub", "double", "mul8"} =>
    /\ \A s \in Keys : AffineOf[s] = Affine(point) <=> s = ge_p3_tobytes(point)
    /\ HoldsP3 => (ge_p3_is_point_at_infinity_vartime(point) <=> Affine(point) = <<0, 1>>)
ScalarsCanonical ==
  call.op = "power" =>
    \A order \in 1 .. 63, s \in 0 .. 63 : sc_check(order, s, 3, 2) = 0 <=> s < order
CanonicalBytes == PointsCanonical /\ ScalarsCanonical

(* What n digits of a base mean. *)
ValueOf(digits, n, base) ==
  LET from[i \in 0 .. n] == IF i = n THEN 0 ELSE digits[i] + base * from[i + 1]
  IN  from[0]

(* DigitsExact: the three recodings of a scalar add up to it, each within  *)
(* the tables it indexes.  slide is exact because a carry always ends      *)
(* below the last bit, which is so below half of the range.                *)
RecodesExactly(a) ==
  /\ ValueOf(recode(a), Nibbles, 16) = a
  /\ \A i \in Digits : recode(a)[i] \in -8 .. 8
RecodesBaseExactly(a) ==
  /\ ValueOf(recode_base(a), Nibbles, 16) = a
  /\ \A i \in Digits : recode_base(a)[i] \in -8 .. 8
SlidesExactly(a) ==
  /\ ValueOf(slide(a), ScalarBits, 2) = a
  /\ \A i \in Bits : slide(a)[i] # 0 => slide(a)[i] \in -15 .. 15 /\ slide(a)[i] % 2 = 1
Exact(a) == RecodesExactly(a) /\ RecodesBaseExactly(a) /\ SlidesExactly(a)
DigitsExact ==
  call.op = "multiply" => Exact(call.base) /\ \A k \in DOMAIN call.terms : Exact(call.terms[k][1])
=============================================================================
