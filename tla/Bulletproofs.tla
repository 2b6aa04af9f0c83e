---------------------------- MODULE Bulletproofs ----------------------------
(***************************************************************************)
(* bulletproofs.cc: one proof that several committed amounts are in range, *)
(* and the verification of a batch of such proofs with one equation.       *)
(***************************************************************************)
EXTENDS VectorOps, TLC

Tables == init_exponents(1)
twoN == vector_powers(2, N)
ip12 == inner_product(vector_dup(1, N), twoN)

is_reduced_Any(scalar) == scalar \in Nat

is_reduced(scalar) == scalar \in Scalar
hash_cache_mash(hash_cache, mashes) == hash_to_scalar(<<hash_cache>> \o mashes)

cross_vector_exponent8(A, B, a, b, scale, extra_point, extra_scalar) ==
  LET b8 == vector_scalar(hadamard(b, scale), INV_EIGHT)
      data == Interleaved(vector_scalar(a, INV_EIGHT), A, b8, B)
  IN  multiexp(Append(data, Data(sc_mul(extra_scalar, INV_EIGHT), extra_point)), 0, << >>, << >>)

(* One round of the argument that a and b have their inner product: what   *)
(* the halves have to do with each other is sent, a challenge comes back   *)
(* and folds vectors and generators in two.                                *)
Round(s, x_ip) ==
  LET ones == vector_dup(1, Len(s.G))
      Folded(L, R, w, winv) ==
        [a |-> vector_add(vector_scalar(Low(s.a), w), vector_scalar(High(s.a), winv)),
         b |-> vector_add(vector_scalar(Low(s.b), winv), vector_scalar(High(s.b), w)),
         G |-> IF Len(s.G) > 2 THEN hadamard_fold(s.G, ones, winv, w) ELSE s.G,
         H |-> IF Len(s.H) > 2 THEN hadamard_fold(s.H, s.scale, w, winv) ELSE s.H,
         scale |-> Low(ones), hash_cache |-> w,
         L |-> Append(s.L, L), R |-> Append(s.R, R), w |-> Append(s.w, w)]
      By(L, R, w) == Folded(L, R, w, invert(w))
      Sent(L, R) == By(L, R, hash_cache_mash(s.hash_cache, <<L, R>>))
  IN  Sent(cross_vector_exponent8(High(s.G), Low(s.H), Low(s.a), High(s.b), Low(s.scale), H,
                                  sc_mul(inner_product(Low(s.a), High(s.b)), x_ip)),
           cross_vector_exponent8(Low(s.G), High(s.H), High(s.a), Low(s.b), High(s.scale), H,
                                  sc_mul(inner_product(High(s.a), Low(s.b)), x_ip)))

(* The prover's steps, each adding to what it has so far.  The bits and    *)
(* what will hide them, in two points.                                     *)
Hidden(aL, aR, draw) ==
  LET With(alpha, rho, sL, sR) ==
        [draw |-> draw, aL |-> aL, aR |-> aR, alpha |-> alpha, rho |-> rho, sL |-> sL, sR |-> sR,
         A |-> addKeys(vector_exponent(Tables, vector_scalar(aL, INV_EIGHT), vector_scalar(aR, INV_EIGHT)),
                       scalarmultBase(sc_mul(alpha, INV_EIGHT))),
         S |-> scalarmultKey(addKeys(vector_exponent(Tables, sL, sR), scalarmultBase(rho)), INV_EIGHT)]
  IN  With(skGen(Append(draw, 1)), skGen(Append(draw, 2)),
           skvGen(Append(draw, 5), Len(aL)), skvGen(Append(draw, 6), Len(aL)))

Challenged(p, V) ==
  LET By(y) == p @@ [y |-> y, z |-> hash_to_scalar(<<y>>)]
  IN  By(hash_cache_mash(hash_to_scalar(V), <<p.A, p.S>>))

(* Two polynomials of vectors: l0 + sL * X and r0 + r1 * X. *)
Spread(p, M) ==
  LET zero_twos == Windowed(SubSeq(vector_powers(p.z, M + 2), 3, M + 2), M)
      yMN == vector_powers(p.y, M * N)
  IN  p @@ [l0 |-> vector_subtract(p.aL, p.z),
            r0 |-> vector_add(hadamard(vector_add_scalar(p.aR, p.z), yMN), zero_twos),
            r1 |-> hadamard(yMN, p.sR)]

(* The coefficients of their product, and a challenge at which to open it. *)
Multiplied(p) ==
  LET commitment(tau, t) == addKeys2(sc_mul(tau, INV_EIGHT), sc_mul(t, INV_EIGHT), H)
      By(tau1, tau2, T1, T2) ==
        p @@ [tau1 |-> tau1, tau2 |-> tau2, T1 |-> T1, T2 |-> T2, x |-> hash_cache_mash(p.z, <<p.z, T1, T2>>)]
      With(tau1, tau2) ==
        By(tau1, tau2,
           commitment(tau1, sc_add(inner_product(p.l0, p.r1), inner_product(p.sL, p.r0))),
           commitment(tau2, inner_product(p.sL, p.r1)))
  IN  With(skGen(Append(p.draw, 3)), skGen(Append(p.draw, 4)))

Opened(p, gamma) ==
  LET zpow == vector_powers(p.z, Len(gamma) + 2)
      a == vector_add(p.l0, vector_scalar(p.sL, p.x))
      b == vector_add(p.r0, vector_scalar(p.r1, p.x))
  IN  p @@ [taux |-> sc_add(sc_muladd(p.tau2, sc_mul(p.x, p.x), sc_mul(p.tau1, p.x)),
                            inner_product(gamma, SubSeq(zpow, 3, Len(gamma) + 2))),
            mu |-> sc_muladd(p.x, p.rho, p.alpha),
            a |-> a, b |-> b, t |-> inner_product(a, b)]

Bound(p) == p @@ [x_ip |-> hash_cache_mash(p.x, <<p.x, p.taux, p.mu, p.t>>)]

Argued(p, rounds) ==
  LET MN == Len(p.a)
      round[r \in Nat] ==
        IF r = 0
        THEN [a |-> p.a, b |-> p.b, G |-> SubSeq(Tables.Gi, 1, MN), H |-> SubSeq(Tables.Hi, 1, MN),
              scale |-> vector_powers(invert(p.y), MN), hash_cache |-> p.x_ip,
              L |-> << >>, R |-> << >>, w |-> << >>]
        ELSE Round(round[r - 1], p.x_ip)
  IN  round[rounds] @@ p

(* A challenge that comes out as zero sends the prover back to draw anew.  *)
bulletproof_PROVE(sv, gamma, draw) ==
  LET rounds == LogM(Len(sv)) + logN
      M == 2 ^ LogM(Len(sv))
      V == CommitTo8(sv, gamma)
      aL == Bits(sv, M)
      Attempt(from) ==
        Argued(Bound(Opened(Multiplied(Spread(Challenged(Hidden(aL, vector_subtract(aL, 1), from), V), M)), gamma)),
               rounds)
      Proved(end) ==
        [V |-> V, A |-> end.A, S |-> end.S, T1 |-> end.T1, T2 |-> end.T2, taux |-> end.taux, mu |-> end.mu,
         L |-> end.L, R |-> end.R, a |-> end.a[1], b |-> end.b[1], t |-> end.t]
      Again(end, next) ==
        IF 0 \in {end.y, end.z, end.x, end.x_ip} \union {end.w[i] : i \in 1 .. rounds} THEN next ELSE end
      try_again[k \in Nat] == Again(Attempt(Append(draw, k)), try_again[k + 1])
  IN  Proved(try_again[0])

-----------------------------------------------------------------------------
WellFormed(proof) ==
  /\ \A s \in {proof.taux, proof.mu, proof.a, proof.b, proof.t} : is_reduced(s)
  /\ Len(proof.V) >= 1
  /\ Len(proof.L) = Len(proof.R)
  /\ Len(proof.L) = logN + LogM(Len(proof.V))

(* The challenges of a proof, from what it sends. *)
proof_data(proof) ==
  LET rounds == Len(proof.L)
      challenge[i \in Nat] ==
        CASE i = 1 -> hash_cache_mash(hash_to_scalar(proof.V), <<proof.A, proof.S>>)
          [] i = 2 -> hash_to_scalar(<<challenge[1]>>)
          [] i = 3 -> LET z == challenge[2] IN hash_cache_mash(z, <<z, proof.T1, proof.T2>>)
          [] i = 4 -> LET x == challenge[3] IN hash_cache_mash(x, <<x, proof.taux, proof.mu, proof.t>>)
          [] OTHER -> hash_cache_mash(challenge[i - 1], <<proof.L[i - 4], proof.R[i - 4]>>)
      Of(c) == [y |-> c[1], z |-> c[2], x |-> c[3], x_ip |-> c[4], w |-> SubSeq(c, 5, rounds + 4),
                M |-> 2 ^ LogM(Len(proof.V))]
  IN  Of(Vector([i \in 1 .. rounds + 4 |-> challenge[i]]))

NoneZero(pd) == 0 \notin {pd.y, pd.z, pd.x, pd.x_ip} \union {pd.w[i] : i \in 1 .. Len(pd.w)}

(* What a proof adds to each coefficient of the equation: the first part,  *)
(* by weight_y, is that t belongs to the commitments, the second, by       *)
(* weight_z, that t is the inner product.                                  *)
Terms(proof, pd, yinv, winv, weight_y, weight_z) ==
  LET MN == pd.M * N
      zpow == vector_powers(pd.z, pd.M + 3)
      ip1y == vector_power_sum(pd.y, MN)
      k == sc_sub(sc_mulsub(zpow[3], ip1y, 0), sc_mul(ip12, AddedUp(SubSeq(zpow, 4, pd.M + 3), pd.M)))
      delta == sc_muladd(pd.z, ip1y, k)
      w_cache == challenges_cache(pd.w, winv)
      ypow == vector_powers(pd.y, MN)
      yinvpow == vector_powers(yinv, MN)
      zero_twos == Windowed(SubSeq(zpow, 3, pd.M + 2), pd.M)
      g(i) == sc_muladd(proof.a, w_cache[i], pd.z)
      h(i) == sc_mulsub(sc_muladd(pd.z, ypow[i], zero_twos[i]), yinvpow[i],
                        sc_mul(sc_mul(proof.b, yinvpow[i]), w_cache[Flipped(i, MN)]))
      Times8(c, points) == [i \in 1 .. Len(points) |-> Data(c[i], scalarmult8(points[i]))]
  IN  [Gi |-> [i \in 1 .. MN |-> sc_mulsub(g(i), weight_z, 0)],
       Hi |-> [i \in 1 .. MN |-> sc_mulsub(h(i), weight_z, 0)],
       G |-> sc_sub(sc_mulsub(proof.taux, weight_y, 0), sc_mul(proof.mu, weight_z)),
       H |-> sc_sub(sc_mul(sc_mul(sc_mulsub(proof.a, proof.b, proof.t), pd.x_ip), weight_z),
                    sc_mul(sc_sub(proof.t, delta), weight_y)),
       data |-> Times8(vector_scalar(SubSeq(zpow, 3, Len(proof.V) + 2), weight_y), proof.V)
                \o Times8(vector_scalar(<<pd.x, sc_mul(pd.x, pd.x)>>, weight_y), <<proof.T1, proof.T2>>)
                \o Times8(vector_scalar(<<1, pd.x>>, weight_z), <<proof.A, proof.S>>)
                \o Times8(vector_scalar(hadamard(pd.w, pd.w), weight_z), proof.L)
                \o Times8(vector_scalar(hadamard(winv, winv), weight_z), proof.R)]

(* All the terms of a batch: those of the generators of the longest proof  *)
(* come first, G and H last.                                               *)
Equation(terms) ==
  LET maxMN == CHOOSE n \in {1} \union {Len(terms[p].Gi) : p \in 1 .. Len(terms)} :
                 \A p \in 1 .. Len(terms) : Len(terms[p].Gi) <= n
      Sum(Of(_)) == AddedUp([p \in 1 .. Len(terms) |-> Of(terms[p])], Len(terms))
      Gi == [i \in 1 .. maxMN |-> LET Of(t) == IF i <= Len(t.Gi) THEN t.Gi[i] ELSE 0 IN Sum(Of)]
      Hi == [i \in 1 .. maxMN |-> LET Of(t) == IF i <= Len(t.Hi) THEN t.Hi[i] ELSE 0 IN Sum(Of)]
      OfG(t) == t.G
      OfH(t) == t.H
      data[p \in Nat] == IF p = 0 THEN << >> ELSE data[p - 1] \o terms[p].data
  IN  [size |-> 2 * maxMN, Gi |-> Gi, Hi |-> Hi,
       data |-> data[Len(terms)] \o <<Data(Sum(OfG), G), Data(Sum(OfH), H)>>]

Holds(T, equation) ==
  multiexp(Interleaved(equation.Gi, T.Gi, equation.Hi, T.Hi) \o equation.data, equation.size, T.straus, T.pippenger)
  = identity

(* The challenges of all proofs, to be inverted together: those of each    *)
(* proof begin after inv_offset.                                           *)
to_invert(pd) ==
  LET upTo[p \in Nat] == IF p = 0 THEN << >> ELSE upTo[p - 1] \o Append(pd[p].w, pd[p].y) IN upTo[Len(pd)]
inv_offset(pd, p) == LET before[i \in Nat] == IF i = 1 THEN 0 ELSE before[i - 1] + Len(pd[i - 1].w) + 1 IN before[p]
OfProof(inverted, pd, p) ==
  LET at == inv_offset(pd, p) IN SubSeq(inverted, at + 1, at + Len(pd[p].w) + 1)
AllButLast(s) == SubSeq(s, 1, Len(s) - 1)
LastOf(s) == s[Len(s)]

bulletproof_VERIFY(proofs, draw) ==
  LET count == Len(proofs)
      Of(p, pd, inverted) ==
        Terms(proofs[p], pd, LastOf(inverted), AllButLast(inverted), skGen(draw \o <<p, 1>>), skGen(draw \o <<p, 2>>))
      All(pd, inverted) == Vector([p \in 1 .. count |-> Of(p, pd[p], OfProof(inverted, pd, p))])
      Checked(pd) ==
        /\ \A p \in 1 .. count : WellFormed(proofs[p]) /\ NoneZero(pd[p])
        /\ Holds(Tables, Equation(All(pd, inverses(to_invert(pd)))))
  IN  Checked(Vector([p \in 1 .. count |-> proof_data(proofs[p])]))
=============================================================================
