----------------------------- MODULE FieldPower -----------------------------
(***************************************************************************)
(* The chains of squarings and products by which crypto-ops.c raises a     *)
(* field element to 2^255 - 21, its inverse, and to 2^252 - 3, on the way  *)
(* to a square root.  A value is the exponent it is a power by, modulo m:  *)
(* a chain that is right modulo primes with a product beyond 2^257 is      *)
(* right.                                                                  *)
(***************************************************************************)
EXTENDS Integers

CONSTANT m

PowerOfTwo(n) ==
  LET pow[k \in Nat] == IF k = 0 THEN 1 % m ELSE (2 * pow[k - 1]) % m IN pow[n]

(* n squarings. *)
fe_sq(e, n) == (e * PowerOfTwo(n)) % m
fe_mul(e, f) == (e + f) % m

fe_invert_ShortLoop(z) ==
  LET z2    == fe_sq(z, 1)
      z9    == fe_mul(z, fe_sq(z2, 2))
      z11   == fe_mul(z2, z9)
      ones5 == fe_mul(z9, fe_sq(z11, 1))
      ones10  == fe_mul(fe_sq(ones5, 1 + 4), ones5)
      ones20  == fe_mul(fe_sq(ones10, 1 + 9), ones10)
      ones40  == fe_mul(fe_sq(ones20, 1 + 19), ones20)
      ones50  == fe_mul(fe_sq(ones40, 9), ones10)
      ones100 == fe_mul(fe_sq(ones50, 1 + 49), ones50)
      ones200 == fe_mul(fe_sq(ones100, 1 + 99), ones100)
      ones250 == fe_mul(fe_sq(ones200, 1 + 49), ones50)
  IN  fe_mul(fe_sq(ones250, 1 + 4), z11)

(* "1 + n" is a squaring and a loop of n more. *)
fe_invert(z) ==
  LET z2    == fe_sq(z, 1)
      z9    == fe_mul(z, fe_sq(z2, 2))
      z11   == fe_mul(z2, z9)
      ones5 == fe_mul(z9, fe_sq(z11, 1))
      ones10  == fe_mul(fe_sq(ones5, 1 + 4), ones5)
      ones20  == fe_mul(fe_sq(ones10, 1 + 9), ones10)
      ones40  == fe_mul(fe_sq(ones20, 1 + 19), ones20)
      ones50  == fe_mul(fe_sq(ones40, 1 + 9), ones10)
      ones100 == fe_mul(fe_sq(ones50, 1 + 49), ones50)
      ones200 == fe_mul(fe_sq(ones100, 1 + 99), ones100)
      ones250 == fe_mul(fe_sq(ones200, 1 + 49), ones50)
  IN  fe_mul(fe_sq(ones250, 1 + 4), z11)

fe_pow22523(z) ==
  LET z2    == fe_sq(z, 1)
      z9    == fe_mul(z, fe_sq(z2, 2))
      z22   == fe_sq(fe_mul(z2, z9), 1)
      ones5 == fe_mul(z9, z22)
      ones10  == fe_mul(fe_sq(ones5, 1 + 4), ones5)
      ones20  == fe_mul(fe_sq(ones10, 1 + 9), ones10)
      ones40  == fe_mul(fe_sq(ones20, 1 + 19), ones20)
      ones50  == fe_mul(fe_sq(ones40, 10), ones10)
      ones100 == fe_mul(fe_sq(ones50, 1 + 49), ones50)
      ones200 == fe_mul(fe_sq(ones100, 1 + 99), ones100)
      ones250 == fe_mul(fe_sq(ones200, 50), ones50)
  IN  fe_mul(fe_sq(ones250, 2), z)

-----------------------------------------------------------------------------
(* The same for scalars, in bulletproofs.cc: windows of up to six squarings *)
(* and one product by an odd power of at most 15.                          *)
sm(y, n, x) == fe_mul(fe_sq(y, n), x)

Windows ==
  <<<<4, 3>>, <<5, 15>>, <<5, 15>>, <<4, 9>>, <<2, 3>>, <<5, 15>>, <<4, 5>>, <<6, 5>>, <<3, 7>>, <<5, 15>>,
    <<5, 7>>, <<4, 3>>, <<5, 11>>, <<6, 11>>, <<10, 9>>, <<4, 3>>, <<5, 3>>, <<5, 3>>, <<5, 9>>, <<4, 7>>,
    <<6, 15>>, <<5, 11>>, <<3, 5>>, <<6, 15>>, <<3, 5>>, <<3, 3>>>>

invert(x) ==
  LET times(k) == (k * x) % m
      inv[i \in Nat] ==
        IF i = 0 THEN sm(times(16), 126, times(5))
        ELSE LET w == Windows[i] IN sm(inv[i - 1], w[1], times(w[2]))
  IN  inv[26]
=============================================================================
