------------------------------- MODULE RctOps -------------------------------
(***************************************************************************)
(* rctOps.cpp, rctTypes.cpp and the scalars of crypto-ops.c, in a group of *)
(* prime order l in which a point is written as its logarithm to the base  *)
(* G.  An equation between points that the code relies on is one between   *)
(* logarithms; one it must not rely on holds for one in l by accident.     *)
(* Every key decodes and is in the subgroup.                               *)
(*                                                                         *)
(* A hash is a fixed function that mixes what it is given, and tells a     *)
(* scalar from the same scalar not reduced; what skGen draws is the hash   *)
(* of a list that names the draw.                                          *)
(*                                                                         *)
(* Vectors that the code counts from 0 are sequences and count from 1.     *)
(***************************************************************************)
EXTENDS Integers, Sequences

CONSTANTS
  l,           \* the order of the group
  ATOMS        \* bits of an amount

ASSUME OrderAssumption == l \in Nat /\ l > 2
ASSUME PrimeAssumption == \A n \in 2 .. l - 1 : l % n # 0
ASSUME AtomsAssumption == ATOMS \in Nat \ {0} /\ 4 * 2 ^ ATOMS < l

Scalar == 0 .. l - 1
Atom == 1 .. ATOMS

-----------------------------------------------------------------------------
(* Scalars. *)
sc_reduce32(n) == n % l
sc_add(a, b) == (a + b) % l
sc_sub(a, b) == (a - b) % l
sc_mul(a, b) == (a * b) % l
sc_muladd(a, b, c) == (a * b + c) % l
sc_mulsub(a, b, c) == (c - a * b) % l

(* x ^ n. *)
Power(x, n) ==
  LET pow[k \in Nat] ==
        IF k = 0 THEN 1
        ELSE LET half == pow[k \div 2]
             IN  sc_mul(sc_mul(half, half), IF k % 2 = 1 THEN x ELSE 1)
  IN  pow[n]

INV_EIGHT == CHOOSE n \in Scalar : sc_mul(8, n) = 1

-----------------------------------------------------------------------------
(* Hashes, of sequences of keys. *)
Mixed(from, keys) ==
  LET h[i \in 0 .. Len(keys)] ==
        IF i = 0 THEN from
        ELSE LET t == (h[i - 1] + 7919 * keys[i] + 101 * (keys[i] \div l) + 4111) % l
             IN  (((t * t) % l) * (t + 1717)) % l
  IN  h[Len(keys)]

cn_fast_hash(keys)   == Mixed(1, keys)
hash_to_scalar(keys) == sc_reduce32(cn_fast_hash(keys))
hash_to_p3(k) == (8 * Mixed(2, <<k>>)) % l

skGen(draw) == sc_reduce32(Mixed(3, draw))
skvGen(draw, rows) == << >> \o [i \in 1 .. rows |-> skGen(Append(draw, i))]

-----------------------------------------------------------------------------
(* Points. *)
identity == 0
G == 1
H == hash_to_p3(G)
H2 == [i \in Atom |-> (H * 2 ^ (i - 1)) % l]

scalarmultBase(a)   == a
scalarmultKey(P, a) == (P * a) % l
scalarmultH(a)      == scalarmultKey(H, a)
scalarmult8(P)      == scalarmultKey(P, 8)

addKeys(A, B) == (A + B) % l
subKeys(A, B) == (A - B) % l
addKeys2(a, b, B)    == addKeys(scalarmultBase(a), scalarmultKey(B, b))
addKeys3(a, A, b, B) == addKeys(scalarmultKey(A, a), scalarmultKey(B, b))
addKeys_aGbBcC(a, b, B, c, C) == addKeys(scalarmultBase(a), addKeys3(b, B, c, C))
addKeys_aAbBcC(a, A, b, B, c, C) == addKeys(scalarmultKey(A, a), addKeys3(b, B, c, C))
equalKeys(a, b) == a = b

AddedUp(f, n) == LET sum[i \in 0 .. n] == IF i = 0 THEN 0 ELSE (sum[i - 1] + f[i]) % l IN sum[n]

-----------------------------------------------------------------------------
(* Amounts, commitments to them and their encryption. *)
Amount == 0 .. 2 ^ ATOMS - 1

d2h(amount) == amount
h2d(k) == k % 2 ^ ATOMS
d2b(amount) == [i \in Atom |-> (amount \div 2 ^ (i - 1)) % 2]
b2d(bits) == LET sum[i \in Nat] == IF i = 0 THEN 0 ELSE sum[i - 1] + bits[i] * 2 ^ (i - 1)
             IN  sum[ATOMS]

genC(a, amount) == addKeys2(a, d2h(amount), H)
commit(amount, mask) == genC(mask, amount)
genCommitmentMask(sk) == sc_reduce32(Mixed(4, <<sk>>))

ecdhHash(k) == Mixed(5, <<k>>)
xor8(v, k) == LET a == d2b(h2d(v)) b == d2b(h2d(k)) IN b2d([i \in Atom |-> (a[i] + b[i]) % 2])

ecdhEncode_OneHash(unmasked, sharedSec, v2) ==
  LET sharedSec1 == hash_to_scalar(<<sharedSec>>)
  IN  IF v2 THEN [mask |-> 0, amount |-> xor8(unmasked.amount, ecdhHash(sharedSec))]
      ELSE [mask |-> sc_add(unmasked.mask, sharedSec1),
            amount |-> sc_add(unmasked.amount, sharedSec1)]

(* v2 leaves the mask to be recomputed by whoever shares the secret. *)
ecdhEncode(unmasked, sharedSec, v2) ==
  LET sharedSec1 == hash_to_scalar(<<sharedSec>>)
      sharedSec2 == hash_to_scalar(<<sharedSec1>>)
  IN  IF v2 THEN [mask |-> 0, amount |-> xor8(unmasked.amount, ecdhHash(sharedSec))]
      ELSE [mask |-> sc_add(unmasked.mask, sharedSec1),
            amount |-> sc_add(unmasked.amount, sharedSec2)]

ecdhDecode(masked, sharedSec, v2) ==
  LET sharedSec1 == hash_to_scalar(<<sharedSec>>)
      sharedSec2 == hash_to_scalar(<<sharedSec1>>)
  IN  IF v2 THEN [mask |-> genCommitmentMask(sharedSec),
                  amount |-> xor8(masked.amount, ecdhHash(sharedSec))]
      ELSE [mask |-> sc_sub(masked.mask, sharedSec1),
            amount |-> sc_sub(masked.amount, sharedSec2)]
=============================================================================
