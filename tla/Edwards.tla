------------------------------ MODULE Edwards ------------------------------
(***************************************************************************)
(* The curve of crypto-ops.c, -x^2 + y^2 = 1 + d*x^2*y^2 over the integers *)
(* modulo a prime, with the formulas, recodings, tables and loops of the   *)
(* code over a small prime.  The field is the integers modulo q: that      *)
(* fe_mul and the others compute in ten limbs of 25.5 bits is abstracted,  *)
(* and so is the constant time of cmov.  What the code needs of 2^255 - 19 *)
(* and of l is assumed of the small prime in CurveAssumption.              *)
(***************************************************************************)
EXTENDS Integers, Sequences, FiniteSets

CONSTANTS
  q,           \* the field's prime
  Montgomery,  \* A of the Montgomery form
  l,           \* the order of the base point
  FieldBits,   \* bits of an encoded y; one more for the sign of x
  Nibbles      \* nibbles of a scalar, an even number; 64 in the code

Fe == 0 .. q - 1

-----------------------------------------------------------------------------
(* Field elements. *)
fe_add(f, g) == (f + g) % q
fe_sub(f, g) == (f - g) % q
fe_mul(f, g) == (f * g) % q
fe_neg(f)    == (-f) % q
fe_sq(f)     == (f * f) % q
fe_sq2(f)    == (2 * f * f) % q

fe_isnonzero(f)  == f # 0
fe_isnegative(f) == f % 2

Power(f, n) ==
  LET pow[k \in Nat] ==
        IF k = 0 THEN 1
        ELSE LET h == pow[k \div 2]
             IN  IF k % 2 = 0 THEN fe_sq(h) ELSE fe_mul(f, fe_sq(h))
  IN  pow[n]

Inverses == [f \in Fe |-> Power(f, q - 2)]
fe_invert(f) == Inverses[f]

(* (u/v)^((q+3)/8), without a division. *)
fe_divpowm1(u, v) ==
  LET v3  == fe_mul(fe_sq(v), v)
      uv7 == fe_mul(fe_mul(fe_sq(v3), v), u)
  IN  fe_mul(fe_mul(Power(uv7, (q - 5) \div 8), v3), u)

(* The even square root. *)
sqrt(n) == CHOOSE r \in Fe : fe_sq(r) = n % q /\ fe_isnegative(r) = 0

fe_d  == fe_mul((2 - Montgomery) % q, fe_invert(Montgomery + 2))
fe_d2 == fe_add(fe_d, fe_d)
fe_sqrtm1 == sqrt(-1)
fe_ma     == fe_neg(Montgomery)
fe_ma2    == fe_neg(fe_sq(Montgomery))
A_A_plus_2 == fe_mul(Montgomery, Montgomery + 2)
fe_fffb1  == sqrt(-2 * A_A_plus_2)
fe_fffb2  == sqrt(2 * A_A_plus_2)
fe_fffb3_Swapped == sqrt(fe_sqrtm1 * A_A_plus_2)
fe_fffb3  == sqrt(-(fe_sqrtm1 * A_A_plus_2))
fe_fffb4  == sqrt(fe_sqrtm1 * A_A_plus_2)

-----------------------------------------------------------------------------
(* Points: ge_p2 is (X:Y:Z), ge_p3 has T = XY/Z too, ge_p1p1 is the pair   *)
(* (X:Z, Y:T), ge_cached and ge_precomp are what an addition needs of its  *)
(* second operand, ge_precomp with Z = 1.                                  *)
ge_p2_0 == [X |-> 0, Y |-> 1, Z |-> 1]
ge_p3_0 == [X |-> 0, Y |-> 1, Z |-> 1, T |-> 0]
ge_p3_to_p2(p) == [X |-> p.X, Y |-> p.Y, Z |-> p.Z]

ge_p1p1_to_p2(p) ==
  [X |-> fe_mul(p.X, p.T), Y |-> fe_mul(p.Y, p.Z), Z |-> fe_mul(p.Z, p.T)]
ge_p1p1_to_p3_NotT(p) ==
  [X |-> fe_mul(p.X, p.T), Y |-> fe_mul(p.Y, p.Z), Z |-> fe_mul(p.Z, p.T),
   T |-> fe_mul(p.X, p.T)]
ge_p1p1_to_p3(p) ==
  [X |-> fe_mul(p.X, p.T), Y |-> fe_mul(p.Y, p.Z), Z |-> fe_mul(p.Z, p.T),
   T |-> fe_mul(p.X, p.Y)]

ge_p3_to_cached(p) ==
  [YplusX |-> fe_add(p.Y, p.X), YminusX |-> fe_sub(p.Y, p.X), Z |-> p.Z,
   T2d |-> fe_mul(p.T, fe_d2)]

ge_cached_0  == [YplusX |-> 1, YminusX |-> 1, Z |-> 1, T2d |-> 0]
ge_precomp_0 == ge_cached_0

(* -c, as select and ge_scalarmult make it. *)
minus(c) ==
  [YplusX |-> c.YminusX, YminusX |-> c.YplusX, Z |-> c.Z, T2d |-> fe_neg(c.T2d)]

ge_add(p, c) ==
  LET a == fe_mul(fe_add(p.Y, p.X), c.YplusX)
      b == fe_mul(fe_sub(p.Y, p.X), c.YminusX)
      t == fe_mul(c.T2d, p.T)
      z == fe_mul(p.Z, c.Z)
      t0 == fe_add(z, z)
  IN  [X |-> fe_sub(a, b), Y |-> fe_add(a, b), Z |-> fe_add(t0, t), T |-> fe_sub(t0, t)]

ge_sub(p, c) ==
  LET a == fe_mul(fe_add(p.Y, p.X), c.YminusX)
      b == fe_mul(fe_sub(p.Y, p.X), c.YplusX)
      t == fe_mul(c.T2d, p.T)
      z == fe_mul(p.Z, c.Z)
      t0 == fe_add(z, z)
  IN  [X |-> fe_sub(a, b), Y |-> fe_add(a, b), Z |-> fe_sub(t0, t), T |-> fe_add(t0, t)]

(* With Z = 1 on the right, one multiplication less. *)
ge_madd(p, c) == ge_add(p, [c EXCEPT !.Z = 1])
ge_msub(p, c) == ge_sub(p, [c EXCEPT !.Z = 1])

ge_p2_dbl(p) ==
  LET xx == fe_sq(p.X)
      yy == fe_sq(p.Y)
      y  == fe_add(yy, xx)
      z  == fe_sub(yy, xx)
  IN  [X |-> fe_sub(fe_sq(fe_add(p.X, p.Y)), y), Y |-> y, Z |-> z,
       T |-> fe_sub(fe_sq2(p.Z), z)]
ge_p3_dbl(p) == ge_p2_dbl(ge_p3_to_p2(p))

ge_mul8(p) ==
  ge_p2_dbl(ge_p1p1_to_p2(ge_p2_dbl(ge_p1p1_to_p2(ge_p2_dbl(p)))))

(* X and T are zero and Y/Z is one. *)
ge_p3_is_point_at_infinity_vartime(p) == p.X = 0 /\ p.T = 0 /\ p.Y = p.Z /\ p.Y # 0

-----------------------------------------------------------------------------
(* Encodings: y, and the parity of x above it. *)
YRange == 2 ^ FieldBits
Encoding == 0 .. 2 * YRange - 1

ge_tobytes(p) ==
  LET recip == fe_invert(p.Z)
  IN  fe_mul(p.Y, recip) + YRange * fe_isnegative(fe_mul(p.X, recip))
ge_p3_tobytes(p) == ge_tobytes(p)

NotAPoint == [ok |-> FALSE, h |-> ge_p3_0]

ge_frombytes_vartime_SignOfZero(s) ==
  LET y == s % YRange
      u == fe_sub(fe_sq(y), 1)
      v == fe_add(fe_mul(fe_d, fe_sq(y)), 1)
      r == fe_divpowm1(u, v)
      vxx == fe_mul(v, fe_sq(r))
      x == IF vxx = u THEN r ELSE fe_mul(r, fe_sqrtm1)
      signed == IF fe_isnegative(x) = s \div YRange THEN x ELSE fe_neg(x)
  IN  IF y >= q \/ (vxx # u /\ vxx # fe_neg(u)) THEN NotAPoint
      ELSE [ok |-> TRUE,
            h |-> [X |-> signed, Y |-> y, Z |-> 1, T |-> fe_mul(signed, y)]]

(* Refused: y not below q, no x, and a zero x with its sign set. *)
ge_frombytes_vartime(s) ==
  LET y == s % YRange
      u == fe_sub(fe_sq(y), 1)
      v == fe_add(fe_mul(fe_d, fe_sq(y)), 1)
      r == fe_divpowm1(u, v)
      vxx == fe_mul(v, fe_sq(r))
      x == IF vxx = u THEN r ELSE fe_mul(r, fe_sqrtm1)
      differs == fe_isnegative(x) # s \div YRange
      signed == IF differs THEN fe_neg(x) ELSE x
  IN  IF y >= q \/ (vxx # u /\ vxx # fe_neg(u)) \/ (differs /\ x = 0) THEN NotAPoint
      ELSE [ok |-> TRUE,
            h |-> [X |-> signed, Y |-> y, Z |-> 1, T |-> fe_mul(signed, y)]]

(* A point for any bytes, by Elligator; all bits of s are the number. *)
(* "asserted" is the conjunction of the assertions on the way.        *)
ge_fromfe_frombytes_vartime(s) ==
  LET u == s % q
      v == fe_sq2(u)
      w == fe_add(v, 1)
      x == fe_add(fe_sq(w), fe_mul(fe_ma2, v))
      r == fe_divpowm1(w, x)
      wx == fe_mul(fe_sq(r), x)
      square == wx = w \/ fe_add(w, wx) = 0
      wxi == fe_mul(wx, fe_sqrtm1)
      z == IF square THEN fe_mul(fe_ma, v) ELSE fe_ma
      root == CASE wx = w                      -> fe_mul(fe_mul(r, fe_fffb2), u)
                [] square /\ wx # w            -> fe_mul(fe_mul(r, fe_fffb1), u)
                [] ~square /\ wxi # w          -> fe_mul(r, fe_fffb3)
                [] OTHER                       -> fe_mul(r, fe_fffb4)
      sign == IF square THEN 0 ELSE 1
      flips == fe_isnegative(root) # sign
      Z == fe_add(z, w)
      Y == fe_sub(z, w)
      X == fe_mul(IF flips THEN fe_neg(root) ELSE root, Z)
      xx == fe_sq(fe_mul(X, fe_invert(Z)))
      yy == fe_sq(fe_mul(Y, fe_invert(Z)))
  IN  [h |-> [X |-> X, Y |-> Y, Z |-> Z],
       asserted |-> /\ square \/ wxi = w \/ fe_add(w, wxi) = 0
                    /\ flips => fe_isnonzero(root)
                    /\ fe_add(fe_sub(fe_add(fe_mul(fe_d, fe_mul(xx, yy)), xx), yy), 1) = 0]

-----------------------------------------------------------------------------
(* Scalars. *)
ScalarBits == 4 * Nibbles
ScalarRange == 2 ^ ScalarBits
Bit(a, i)    == (a \div 2 ^ i) % 2
Nibble(a, i) == (a \div 2 ^ (4 * i)) % 16
Byte(a, i)   == (a \div 2 ^ (8 * i)) % 256
Digits == 0 .. Nibbles - 1
Bits   == 0 .. ScalarBits - 1

signum(n) == CASE n > 0 -> 1 [] n < 0 -> -1 [] OTHER -> 0

sc_check(order, s, words, width) ==
  LET word(n, i) == (n \div 2 ^ (width * i)) % 2 ^ width
      sum[i \in Nat] ==
        IF i = 0 THEN 0
        ELSE sum[i - 1] + 2 ^ (i - 1) * signum(word(order - 1, i - 1) - word(s, i - 1))
  IN  sum[words] \div 2 ^ words

(* ge_scalarmult_base's digits, -8 .. 8: a carry from nibble to nibble,    *)
(* none out of the last.                                                   *)
recode_base(a) ==
  LET carry[i \in 0 .. Nibbles] ==
        IF i = 0 THEN 0 ELSE (Nibble(a, i - 1) + carry[i - 1] + 8) \div 16
  IN  [i \in Digits |-> Nibble(a, i) + carry[i]
                          - (IF i < Nibbles - 1 THEN 16 * carry[i + 1] ELSE 0)]

(* ge_scalarmult's: the same by bytes. *)
recode(a) ==
  LET carry[i \in 0 .. Nibbles \div 2] ==
        IF i = 0 THEN 0
        ELSE (((carry[i - 1] + Byte(a, i - 1) + 8) \div 16) + 8) \div 16
      carry2(i) == (carry[i] + Byte(a, i) + 8) \div 16
  IN  [n \in Digits |->
         CASE n % 2 = 0       -> carry[n \div 2] + Byte(a, n \div 2) - 16 * carry2(n \div 2)
           [] n = Nibbles - 1 -> carry2(n \div 2)
           [] OTHER           -> carry2(n \div 2) - 16 * carry[n \div 2 + 1]]

Propagate_OneBit(r, k) == [r EXCEPT ![k] = 1 - r[k]]

(* The carry of a window: the ones from bit k on become zeros, the zero    *)
(* above them a one; past the last bit it is lost.                         *)
Propagate(r, k) ==
  LET zeros == {z \in k .. ScalarBits - 1 : r[z] = 0}
      z == IF zeros = {} THEN ScalarBits ELSE CHOOSE m \in zeros : \A o \in zeros : m <= o
  IN  [i \in Bits |-> IF i < k \/ i > z THEN r[i] ELSE IF i = z THEN 1 ELSE 0]

(* A turn of the inner loop of slide: bit i takes in bit i + b while it is *)
(* odd and at most 15 either way; s.on until the loop is left.             *)
Turn(s, i, b) ==
  LET r == s.r
      w == r[i + b] * 2 ^ b
      takes == s.on /\ i + b < ScalarBits /\ w # 0
  IN  CASE takes /\ r[i] + w <= 15 ->
             [r |-> [r EXCEPT ![i] = r[i] + w, ![i + b] = 0], on |-> TRUE]
        [] takes /\ r[i] + w > 15 /\ r[i] - w >= -15 ->
             [r |-> Propagate([r EXCEPT ![i] = r[i] - w], i + b), on |-> TRUE]
        [] takes /\ r[i] + w > 15 /\ r[i] - w < -15 -> [r |-> r, on |-> FALSE]
        [] ~takes -> s

Absorb(r, i) ==
  LET turn[b \in 0 .. 6] ==
        IF b = 0 THEN [r |-> r, on |-> TRUE] ELSE Turn(turn[b - 1], i, b)
  IN  turn[6].r

slide(a) ==
  LET upto[i \in 0 .. ScalarBits] ==
        IF i = 0 THEN [j \in Bits |-> Bit(a, j)]
        ELSE LET r == upto[i - 1] IN IF r[i - 1] = 0 THEN r ELSE Absorb(r, i - 1)
  IN  upto[ScalarBits]

-----------------------------------------------------------------------------
(* Multiples. *)
Affine(p) == LET recip == fe_invert(p.Z) IN <<fe_mul(p.X, recip), fe_mul(p.Y, recip)>>

FromAffine(P) == [X |-> P[1], Y |-> P[2], Z |-> 1, T |-> fe_mul(P[1], P[2])]

Sum(P, Q) == Affine(ge_p1p1_to_p3(ge_add(P, ge_p3_to_cached(Q))))

MultipleOf(P, n) ==
  LET of[k \in Nat] ==
        IF k = 0 THEN ge_p3_0 ELSE ge_p1p1_to_p3(ge_add(of[k - 1], ge_p3_to_cached(P)))
  IN  of[n]

(* The base point: any of order l will do. *)
B ==
  LET s == CHOOSE s \in Encoding :
             LET d == ge_frombytes_vartime(s)
             IN  /\ d.ok
                 /\ ~ge_p3_is_point_at_infinity_vartime(d.h)
                 /\ ge_p3_is_point_at_infinity_vartime(MultipleOf(d.h, l))
  IN  ge_frombytes_vartime(s).h

precomp(P) == ge_p3_to_cached(FromAffine(Affine(P)))

(* base[i][j] = (j+1)*256^i*B, and B, 3B, 5B, ... 15B. *)
ge_base ==
  [i \in 0 .. (Nibbles \div 2) - 1 |->
     [j \in 0 .. 7 |-> precomp(MultipleOf(B, ((j + 1) * 256 ^ i) % l))]]
ge_Bi == [j \in 0 .. 7 |-> precomp(MultipleOf(B, 2 * j + 1))]

(* Entry |b| of a table of multiples, negated when b is negative. *)
Pick(neutral, table, b) ==
  LET babs == IF b < 0 THEN -b ELSE b
      t == IF babs \in 1 .. 8 THEN table[babs - 1] ELSE neutral
  IN  IF b < 0 THEN minus(t) ELSE t

select(pos, b) == Pick(ge_precomp_0, ge_base[pos], b)

ge_scalarmult_base(a) ==
  LET e == recode_base(a)
      take(h, i) == ge_p1p1_to_p3(ge_madd(h, select(i \div 2, e[i])))
      odd[i \in Nat] == IF i = 0 THEN ge_p3_0 ELSE take(odd[i - 1], 2 * i - 1)
      two == ge_p1p1_to_p2(ge_p3_dbl(odd[Nibbles \div 2]))
      sixteen == ge_p1p1_to_p3(ge_mul8(two))
      even[i \in Nat] == IF i = 0 THEN sixteen ELSE take(even[i - 1], 2 * i - 2)
  IN  even[Nibbles \div 2]

(* The table of ge_scalarmult: A, 2A, ... 8A. *)
Multiples(A) ==
  LET u[i \in Nat] ==
        IF i = 0 THEN A ELSE ge_p1p1_to_p3(ge_add(A, ge_p3_to_cached(u[i - 1])))
  IN  [i \in 0 .. 7 |-> ge_p3_to_cached(u[i])]

(* The sum after the last digit. *)
ScalarmultLoop(a, A) ==
  LET e == recode(a)
      Ai == Multiples(A)
      turn(r, i) ==
        ge_add(ge_p1p1_to_p3(ge_p2_dbl(ge_p1p1_to_p2(ge_mul8(r)))), Pick(ge_cached_0, Ai, e[i]))
      t[i \in Nat] ==
        turn(IF i = Nibbles - 1 THEN ge_p2_0 ELSE ge_p1p1_to_p2(t[i + 1]), i)
  IN  t[0]

ge_scalarmult(a, A)    == ge_p1p1_to_p2(ScalarmultLoop(a, A))
ge_scalarmult_p3(a, A) == ge_p1p1_to_p3(ScalarmultLoop(a, A))

(* A, 3A, ... 15A. *)
ge_dsm_precomp(s) ==
  LET s2 == ge_p1p1_to_p3(ge_p3_dbl(s))
      r[i \in Nat] ==
        IF i = 0 THEN ge_p3_to_cached(s)
        ELSE ge_p3_to_cached(ge_p1p1_to_p3(ge_add(s2, r[i - 1])))
  IN  [i \in 0 .. 7 |-> r[i]]

(* A term of a vartime multiple: the digits of its scalar, the table of its *)
(* point.                                                                   *)
Term(a, table) == [digits |-> slide(a), table |-> table]

AddDigit_SignLost(t, d, table) ==
  CASE d > 0 -> ge_add(ge_p1p1_to_p3(t), table[d \div 2])
    [] d < 0 -> ge_add(ge_p1p1_to_p3(t), table[(-d) \div 2])
    [] OTHER -> t

AddDigit(t, d, table) ==
  CASE d > 0 -> ge_add(ge_p1p1_to_p3(t), table[d \div 2])
    [] d < 0 -> ge_sub(ge_p1p1_to_p3(t), table[(-d) \div 2])
    [] OTHER -> t

(* The loop all the vartime multiples share, down to bit i; "none" before  *)
(* the highest digit.                                                      *)
VartimeLoop(terms) ==
  LET used(i) == \E k \in DOMAIN terms : terms[k].digits[i] # 0
      first == {i \in Bits : used(i)}
      top == CHOOSE i \in first : \A o \in first : o <= i
      add(t, i) ==
        LET sum[k \in Nat] ==
              IF k = 0 THEN t
              ELSE AddDigit(sum[k - 1], terms[k].digits[i], terms[k].table)
        IN  sum[Len(terms)]
      at[i \in Nat] ==
        add(ge_p2_dbl(IF i = top THEN ge_p2_0 ELSE ge_p1p1_to_p2(at[i + 1])), i)
  IN  [ran |-> first # {}, t |-> IF first = {} THEN ge_p2_0 ELSE at[0]]

VartimeP2(terms) ==
  LET loop == VartimeLoop(terms) IN IF loop.ran THEN ge_p1p1_to_p2(loop.t) ELSE ge_p2_0

(* Nothing is written when no digit is used: what r3 held is kept. *)
VartimeP3(terms, r3) ==
  LET loop == VartimeLoop(terms) IN IF loop.ran THEN ge_p1p1_to_p3(loop.t) ELSE r3

ge_double_scalarmult_base_vartime(a, A, b) ==
  VartimeP2(<<Term(a, ge_dsm_precomp(A)), Term(b, ge_Bi)>>)
ge_double_scalarmult_base_vartime_p3(a, A, b, r3) ==
  VartimeP3(<<Term(a, ge_dsm_precomp(A)), Term(b, ge_Bi)>>, r3)
ge_triple_scalarmult_base_vartime(a, b, Bi, c, Ci) ==
  VartimeP2(<<Term(a, ge_Bi), Term(b, Bi), Term(c, Ci)>>)
ge_double_scalarmult_precomp_vartime2(a, Ai, b, Bi) ==
  VartimeP2(<<Term(a, Ai), Term(b, Bi)>>)
ge_double_scalarmult_precomp_vartime(a, A, b, Bi) ==
  ge_double_scalarmult_precomp_vartime2(a, ge_dsm_precomp(A), b, Bi)
ge_double_scalarmult_precomp_vartime2_p3(a, Ai, b, Bi, r3) ==
  VartimeP3(<<Term(a, Ai), Term(b, Bi)>>, r3)
ge_triple_scalarmult_precomp_vartime(a, Ai, b, Bi, c, Ci) ==
  VartimeP2(<<Term(a, Ai), Term(b, Bi), Term(c, Ci)>>)
=============================================================================
