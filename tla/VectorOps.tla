----------------------------- MODULE VectorOps ------------------------------
(***************************************************************************)
(* What both kinds of bulletproof compute with: the sum of scalar * point  *)
(* over a list (multiexp.cc), and the vectors of scalars and points that   *)
(* bulletproofs.cc and bulletproofs_plus.cc each have a copy of.  What the *)
(* code counts from 0 counts from 1 here.                                  *)
(***************************************************************************)
EXTENDS RctOps

(* multiexp.cc: by tables of multiples (Straus) or by buckets (Pippenger). *)
CONSTANTS
  StrausLimit,    \* points that Straus is better for when tables are cached, 232
  UncachedLimit   \* and when they are not, 95

STRAUS_C == 4
Data(scalar, point) == [scalar |-> scalar, point |-> point]
Doubled(P, n) == (P * 2 ^ n) % l

MaxScalar(data) ==
  LET max[i \in Nat] ==
        IF i = 0 THEN 0
        ELSE LET m == max[i - 1] IN IF m < data[i].scalar THEN data[i].scalar ELSE m
  IN  max[Len(data)]

BitLength(n) == CHOOSE b \in 0 .. l : n < 2 ^ b /\ (b > 0 => n >= 2 ^ (b - 1))

(* Multiples 1 .. 15 of the first N points, each made from the one before. *)
straus_init_cache(data, N) ==
  [j \in 1 .. N |->
     LET multiple[i \in Nat] ==
           IF i = 1 THEN data[j].point ELSE addKeys(data[j].point, multiple[i - 1])
     IN  [i \in 1 .. 2 ^ STRAUS_C - 1 |-> multiple[i]]]

(* Digit by digit from the highest, band by band of STEP points. *)
straus(data, cache, STEP) ==
  LET digit(j, i) == (data[j].scalar \div 2 ^ (STRAUS_C * i)) % 2 ^ STRAUS_C
      digits == (BitLength(MaxScalar(data)) + STRAUS_C - 1) \div STRAUS_C
      Added(P, j, i) == IF digit(j, i) = 0 THEN P ELSE addKeys(P, cache[j][digit(j, i)])
      AllAdded(P, from, to, i) ==
        LET sum[j \in Nat] == IF j < from THEN P ELSE Added(sum[j - 1], j, i) IN sum[to]
      Band(from, to) ==
        LET at[i \in Nat] ==
              IF i = digits THEN identity
              ELSE AllAdded(Doubled(at[i + 1], STRAUS_C), from, to, i)
        IN  at[0]
      bands[b \in Nat] ==
        IF b * STEP >= Len(data) THEN identity
        ELSE LET end == (b + 1) * STEP
             IN  addKeys(bands[b + 1], Band(b * STEP + 1, IF end < Len(data) THEN end ELSE Len(data)))
  IN  bands[0]

PippengerBounds == <<13, 29, 83, 185, 465, 1180, 2295>>
get_pippenger_c(N) ==
  LET fits == {i \in 1 .. 7 : N <= PippengerBounds[i]}
  IN  IF fits = {} THEN 9 ELSE 1 + CHOOSE i \in fits : \A j \in fits : i <= j

pippenger_init_cache_FromStart(data, offset) ==
  [i \in 1 .. Len(data) - offset |-> data[i].point]

(* The cached points, from offset on. *)
pippenger_init_cache(data, offset) ==
  [i \in 1 .. Len(data) - offset |-> data[i + offset].point]

(* Group by group of c bits from the highest: points go into the bucket of *)
(* their bits, the first from the data, those after it from a cache; a     *)
(* pail takes in the buckets from the highest and is added after each.     *)
pippenger(data, cache, cache_size, c) ==
  LET cache2 == pippenger_init_cache(data, cache_size)
      groups == (BitLength(MaxScalar(data)) + c - 1) \div c
      point(i) == IF i <= cache_size THEN cache[i] ELSE cache2[i - cache_size]
      bucket(i, k) == (data[i].scalar \div 2 ^ (k * c)) % 2 ^ c
      InBucket(b, k) ==
        LET sum[i \in Nat] ==
              IF i = 0 THEN [init |-> FALSE, P |-> identity]
              ELSE LET so == sum[i - 1]
                   IN  CASE bucket(i, k) # b -> so
                         [] bucket(i, k) = b /\ ~so.init -> [init |-> TRUE, P |-> data[i].point]
                         [] OTHER -> [so EXCEPT !.P = addKeys(@, point(i))]
        IN  sum[Len(data)].P
      pails(k) ==
        LET pail[b \in Nat] ==
              IF b = 2 ^ c THEN identity ELSE addKeys(pail[b + 1], InBucket(b, k))
        IN  AddedUp(pail, 2 ^ c - 1)
      result[k \in Nat] ==
        IF k = groups THEN identity ELSE addKeys(Doubled(result[k + 1], c), pails(k))
  IN  result[0]

(* The choice both kinds of bulletproof make; the first HiGi_size points   *)
(* are those of the caches.                                                *)
multiexp(data, HiGi_size, straus_cache, pippenger_cache) ==
  LET byStraus == IF HiGi_size > 0 THEN HiGi_size <= StrausLimit /\ Len(data) = HiGi_size
                  ELSE Len(data) <= UncachedLimit
  IN  IF byStraus
      THEN straus(data, IF HiGi_size > 0 THEN straus_cache ELSE straus_init_cache(data, Len(data)), 192)
      ELSE pippenger(data, pippenger_cache, HiGi_size, get_pippenger_c(Len(data)))

-----------------------------------------------------------------------------
(* The vectors of bulletproofs.cc and bulletproofs_plus.cc.                 *)
CONSTANTS
  logN,      \* the logarithm of the bits of an amount, 6
  maxM       \* outputs of a proof, 16

ASSUME VectorAssumption ==
  /\ logN \in Nat \ {0} /\ ATOMS = 2 ^ logN
  /\ maxM \in Nat /\ \E k \in 0 .. maxM : maxM = 2 ^ k

N == 2 ^ logN

(* A function on 1 .. n as the sequence it is: TLC keeps its elements.     *)
Vector(f) == f \o << >>

vector_add(a, b) == Vector([i \in 1 .. Len(a) |-> sc_add(a[i], b[i])])
vector_add_scalar(a, x) == Vector([i \in 1 .. Len(a) |-> sc_add(a[i], x)])
vector_subtract(a, x) == Vector([i \in 1 .. Len(a) |-> sc_sub(a[i], x)])
vector_scalar(a, x) == Vector([i \in 1 .. Len(a) |-> sc_mul(a[i], x)])
vector_dup(x, n) == Vector([i \in 1 .. n |-> x])
hadamard(a, b) == Vector([i \in 1 .. Len(a) |-> sc_mul(a[i], b[i])])
inner_product(a, b) ==
  LET sum[i \in Nat] == IF i = 0 THEN 0 ELSE sc_muladd(a[i], b[i], sum[i - 1]) IN sum[Len(a)]

Low(a)  == SubSeq(a, 1, Len(a) \div 2)
High(a) == SubSeq(a, Len(a) \div 2 + 1, Len(a))

(* 1, x, x^2 ...: n of them. *)
vector_powers(x, n) ==
  LET powers[k \in Nat] ==
        CASE k = 0 -> << >>
          [] k = 1 -> <<1>>
          [] OTHER -> LET so == powers[k - 1] IN Append(so, sc_mul(so[k - 1], x))
  IN  powers[n]

PowerOf2(n) == \E k \in 0 .. n : n = 2 ^ k
HalvesOf(n) == IF PowerOf2(n) THEN CHOOSE k \in 0 .. n : n = 2 ^ k ELSE 0

(* 1 + x + .. + x^(n-1), by squaring where n is a power of two. *)
vector_power_sum(x, n) ==
  LET squared[k \in Nat] ==
        IF k = 1 THEN [x |-> x, res |-> sc_add(1, x)]
        ELSE LET s == squared[k - 1]
                 x2 == sc_mul(s.x, s.x)
             IN  [x |-> x2, res |-> sc_muladd(x2, s.res, s.res)]
  IN  CASE n <= 1 -> n
        [] n > 1 /\ PowerOf2(n) -> squared[HalvesOf(n)].res
        [] OTHER -> AddedUp(vector_powers(x, n), n)

(* x^2 + x^4 + .. + x^n, for n a power of two. *)
sum_of_even_powers(x, n) ==
  LET sum[k \in Nat] ==
        IF k <= 1 THEN [x |-> sc_mul(x, x), res |-> sc_mul(x, x)]
        ELSE LET s == sum[k - 1]
             IN  [x |-> sc_mul(s.x, s.x), res |-> sc_muladd(s.x, s.res, s.res)]
  IN  sum[HalvesOf(n)].res

(* x + x^2 + .. + x^n. *)
sum_of_scalar_powers(x, n) ==
  IF n = 1 THEN x ELSE sc_sub(vector_power_sum(x, n + 1), 1)

(* a[1]*b[1]*y + a[2]*b[2]*y^2 + .. *)
weighted_inner_product(a, b, y) ==
  LET so[i \in Nat] ==
        IF i = 0 THEN [res |-> 0, y |-> 1]
        ELSE LET s == so[i - 1]
                 y_power == sc_mul(s.y, y)
             IN  [res |-> sc_muladd(sc_mul(a[i], b[i]), y_power, s.res), y |-> y_power]
  IN  so[Len(a)].res

(* x ^ (l - 2); the chain of squarings is in FieldPower. *)
invert(x) == Power(x, l - 2)

(* The inverses of all, with one inversion. *)
inverses(x) ==
  LET product[i \in Nat] == IF i = 0 THEN 1 ELSE sc_mul(product[i - 1], x[i])
      acc[i \in Nat] == IF i = Len(x) THEN invert(product[i]) ELSE sc_mul(acc[i + 1], x[i + 1])
  IN  [i \in 1 .. Len(x) |-> sc_mul(acc[i], product[i - 1])]

(* The points of v folded in two, each half scaled. *)
hadamard_fold(v, scale, a, b) ==
  LET sz == Len(v) \div 2
  IN  Vector([n \in 1 .. sz |->
                addKeys3(sc_mul(a, scale[n]), v[n], sc_mul(b, scale[sz + n]), v[sz + n])])

(* For each index of MN the product of the challenges of its bits, the     *)
(* first challenge for the highest: the challenge where the bit is set and *)
(* its inverse where it is not.                                            *)
challenges_cache(w, winv) ==
  LET slots[j \in Nat] ==
        IF j = 1 THEN <<winv[1], w[1]>>
        ELSE LET so == slots[j - 1]
             IN  Vector([s \in 1 .. 2 ^ j |->
                           sc_mul(so[(s + 1) \div 2], IF s % 2 = 0 THEN w[j] ELSE winv[j])])
  IN  slots[Len(w)]

(* Index i of 1 .. MN with every bit of i - 1 flipped. *)
Flipped(i, MN) == MN + 1 - i

(* The factor of output j (from 0) and bit i: zz[j] * 2 ^ i. *)
Windowed(zz, M) ==
  Vector([i \in 1 .. M * N |-> sc_mul(zz[((i - 1) \div N) + 1], 2 ^ ((i - 1) % N))])

-----------------------------------------------------------------------------
(* Generators, from a salt of each kind of proof, and the tables made of   *)
(* them.                                                                   *)
get_exponent(salt, idx) == hash_to_p3(cn_fast_hash(<<H, salt, idx>>))

Interleaved(a, A, b, B) ==
  Vector([i \in 1 .. 2 * Len(a) |->
     LET k == (i + 1) \div 2
     IN  IF i % 2 = 1 THEN Data(a[k], A[k]) ELSE Data(b[k], B[k])])

init_exponents(salt) ==
  LET Gi == Vector([i \in 1 .. N * maxM |-> get_exponent(salt, 2 * i - 1)])
      Hi == Vector([i \in 1 .. N * maxM |-> get_exponent(salt, 2 * i - 2)])
      zeroes == vector_dup(0, N * maxM)
      data == Interleaved(zeroes, Gi, zeroes, Hi)
      limit == IF StrausLimit < Len(data) THEN StrausLimit ELSE Len(data)
  IN  [Gi |-> Gi, Hi |-> Hi,
       straus |-> straus_init_cache(data, limit), pippenger |-> pippenger_init_cache(data, 0)]

vector_exponent(T, a, b) ==
  multiexp(Interleaved(a, T.Gi, b, T.Hi), 2 * Len(a), T.straus, T.pippenger)

-----------------------------------------------------------------------------
(* What both kinds of proof begin with. *)
LogM(n) ==
  CHOOSE k \in 0 .. maxM :
    (2 ^ k >= n \/ 2 ^ k > maxM) /\ (k > 0 => 2 ^ (k - 1) < n /\ 2 ^ (k - 1) <= maxM)

CommitTo8(sv, gamma) ==
  Vector([i \in 1 .. Len(sv) |-> addKeys2(sc_mul(gamma[i], INV_EIGHT), sc_mul(sv[i], INV_EIGHT), H)])

(* The bits of the values, those of zero for the outputs there are not. *)
Bits(sv, M) ==
  Vector([i \in 1 .. M * N |->
     LET j == ((i - 1) \div N) + 1
     IN  IF j <= Len(sv) THEN d2b(sv[j])[((i - 1) % N) + 1] ELSE 0])
=============================================================================
