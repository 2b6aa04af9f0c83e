-------------------------- MODULE BulletproofsPlus --------------------------
(***************************************************************************)
(* bulletproofs_plus.cc: the range proof of less data, by a weighted inner *)
(* product, and the verification of a batch.  Its tables come from another *)
(* salt than those of the older kind.                                      *)
(***************************************************************************)
EXTENDS Bulletproofs

PlusTables == init_exponents(2)
initial_transcript == hash_to_p3(cn_fast_hash(<<3>>))
TWO_SIXTY_FOUR_MINUS_ONE == (2 ^ N - 1) % l

transcript_update(transcript, updates) == hash_to_scalar(<<transcript>> \o updates)

compute_LR(y, A, B, a, b, c, d) ==
  LET by8(v) == vector_scalar(v, INV_EIGHT)
      data == Interleaved(by8(vector_scalar(a, y)), A, by8(b), B)
  IN  multiexp(data \o <<Data(sc_mul(c, INV_EIGHT), H), Data(sc_mul(d, INV_EIGHT), G)>>, 0, << >>, << >>)

(* d[j, i] = z^(2(j+1)) * 2^i, j and i from 0. *)
windowed(z_squared, M) ==
  LET first[i \in Nat] == IF i = 1 THEN z_squared ELSE sc_add(first[i - 1], first[i - 1])
      zz == vector_powers(z_squared, M)
  IN  Vector([i \in 1 .. M * N |-> sc_mul(first[((i - 1) % N) + 1], zz[((i - 1) \div N) + 1])])

(* One round: alpha1 carries the masks of what has been sent. *)
PlusRound(s, y_powers, yinvpow, dL, dR) ==
  LET nprime == Len(s.a) \div 2
      y == y_powers[2]
      y_n == y_powers[nprime + 1]
      yinv_n == yinvpow[nprime + 1]
      ones == vector_dup(1, 2 * nprime)
      Folded(L, R, challenge, inv) ==
        [a |-> vector_add(vector_scalar(Low(s.a), challenge), vector_scalar(High(s.a), sc_mul(inv, y_n))),
         b |-> vector_add(vector_scalar(Low(s.b), inv), vector_scalar(High(s.b), challenge)),
         G |-> hadamard_fold(s.G, ones, inv, sc_mul(yinv_n, challenge)),
         H |-> hadamard_fold(s.H, ones, challenge, inv),
         alpha1 |-> sc_muladd(dR, sc_mul(inv, inv), sc_muladd(dL, sc_mul(challenge, challenge), s.alpha1)),
         transcript |-> challenge,
         L |-> Append(s.L, L), R |-> Append(s.R, R), w |-> Append(s.w, challenge)]
      By(L, R, challenge) == Folded(L, R, challenge, invert(challenge))
      Sent(L, R) == By(L, R, transcript_update(s.transcript, <<L, R>>))
  IN  Sent(compute_LR(yinv_n, High(s.G), Low(s.H), Low(s.a), High(s.b),
                      weighted_inner_product(Low(s.a), High(s.b), y), dL),
           compute_LR(y_n, Low(s.G), High(s.H), High(s.a), Low(s.b),
                      weighted_inner_product(vector_scalar(High(s.a), y_n), Low(s.b), y), dR))

(* The prover's steps: the bits hidden, weighed by powers of y and z,      *)
(* folded, and the last two scalars proved known.                          *)
PlusHidden(aL, aR, draw) ==
  LET With(alpha) ==
        [draw |-> draw, aL |-> aL, aR |-> aR, alpha |-> alpha,
         A |-> addKeys(vector_exponent(PlusTables, vector_scalar(aL, INV_EIGHT), vector_scalar(aR, INV_EIGHT)),
                       scalarmultBase(sc_mul(alpha, INV_EIGHT)))]
  IN  With(skGen(Append(draw, 1)))

PlusChallenged(p, V) ==
  LET By(y) == p @@ [y |-> y, z |-> hash_to_scalar(<<y>>)]
  IN  By(transcript_update(transcript_update(initial_transcript, <<hash_to_scalar(V)>>), <<p.A>>))

PlusWeighed(p, M, gamma) ==
  LET MN == Len(p.aL)
      z_squared == sc_mul(p.z, p.z)
      y_powers == vector_powers(p.y, MN + 2)
      d == windowed(z_squared, M)
      d_y == Vector([i \in 1 .. MN |-> sc_mul(d[i], y_powers[MN + 2 - i])])
      zz == vector_scalar(vector_powers(z_squared, Len(gamma)), z_squared)
  IN  p @@ [aL1 |-> vector_subtract(p.aL, p.z), aR1 |-> vector_add(vector_add_scalar(p.aR, p.z), d_y),
            alpha1 |-> sc_muladd(y_powers[MN + 2], inner_product(zz, gamma), p.alpha),
            y_powers |-> y_powers, yinvpow |-> vector_powers(invert(p.y), MN)]

PlusFolded(p, rounds) ==
  LET MN == Len(p.aL)
      round[r \in Nat] ==
        IF r = 0
        THEN [a |-> p.aL1, b |-> p.aR1, G |-> SubSeq(PlusTables.Gi, 1, MN), H |-> SubSeq(PlusTables.Hi, 1, MN),
              alpha1 |-> p.alpha1, transcript |-> p.z, L |-> << >>, R |-> << >>, w |-> << >>]
        ELSE PlusRound(round[r - 1], p.y_powers, p.yinvpow,
                       skGen(Append(p.draw, 10 + 2 * r)), skGen(Append(p.draw, 11 + 2 * r)))
  IN  round[rounds] @@ p

PlusLast(p, r, s, d_, eta) ==
  LET by8(scalar) == sc_mul(scalar, INV_EIGHT)
      cross == sc_add(sc_mul(sc_mul(r, p.y), p.b[1]), sc_mul(sc_mul(s, p.y), p.a[1]))
      By(A1, B, e) ==
        p @@ [e |-> e, A1 |-> A1, B |-> B,
              r1 |-> sc_muladd(p.a[1], e, r), s1 |-> sc_muladd(p.b[1], e, s),
              d1 |-> sc_muladd(p.alpha1, sc_mul(e, e), sc_muladd(d_, e, eta))]
      Sent(A1, B) == By(A1, B, transcript_update(p.transcript, <<A1, B>>))
  IN  Sent(multiexp(<<Data(by8(r), p.G[1]), Data(by8(s), p.H[1]), Data(by8(d_), G), Data(by8(cross), H)>>,
                    0, << >>, << >>),
           addKeys2(by8(eta), by8(sc_mul(sc_mul(r, p.y), s)), H))

bulletproof_plus_PROVE(sv, gamma, draw) ==
  LET rounds == LogM(Len(sv)) + logN
      M == 2 ^ LogM(Len(sv))
      V == CommitTo8(sv, gamma)
      aL == Bits(sv, M)
      Attempt(from) ==
        PlusLast(PlusFolded(PlusWeighed(PlusChallenged(PlusHidden(aL, vector_subtract(aL, 1), from), V), M, gamma), rounds),
                 skGen(Append(from, 2)), skGen(Append(from, 3)), skGen(Append(from, 4)), skGen(Append(from, 5)))
      Proved(end) ==
        [V |-> V, A |-> end.A, A1 |-> end.A1, B |-> end.B, r1 |-> end.r1, s1 |-> end.s1, d1 |-> end.d1,
         L |-> end.L, R |-> end.R]
      Again(end, next) ==
        IF 0 \in {end.y, end.z, end.e} \union {end.w[i] : i \in 1 .. rounds} THEN next ELSE end
      try_again[k \in Nat] == Again(Attempt(Append(draw, k)), try_again[k + 1])
  IN  Proved(try_again[0])

-----------------------------------------------------------------------------
PlusWellFormed(proof) ==
  /\ \A s \in {proof.r1, proof.s1, proof.d1} : is_reduced(s)
  /\ Len(proof.V) >= 1
  /\ Len(proof.L) = Len(proof.R)
  /\ Len(proof.L) = logN + LogM(Len(proof.V))

plus_proof_data(proof) ==
  LET rounds == Len(proof.L)
      challenge[i \in Nat] ==
        CASE i = 1 -> transcript_update(transcript_update(initial_transcript, <<hash_to_scalar(proof.V)>>), <<proof.A>>)
          [] i = 2 -> hash_to_scalar(<<challenge[1]>>)
          [] i \in 3 .. rounds + 2 -> transcript_update(challenge[i - 1], <<proof.L[i - 2], proof.R[i - 2]>>)
          [] OTHER -> transcript_update(challenge[i - 1], <<proof.A1, proof.B>>)
      Of(c) == [y |-> c[1], z |-> c[2], w |-> SubSeq(c, 3, rounds + 2), e |-> c[rounds + 3],
                M |-> 2 ^ LogM(Len(proof.V))]
  IN  Of(Vector([i \in 1 .. rounds + 3 |-> challenge[i]]))

PlusNoneZero(pd) == 0 \notin {pd.y, pd.z, pd.e} \union {pd.w[i] : i \in 1 .. Len(pd.w)}

Weight_One(draw) == 1

(* A weight of zero would leave the proof out of the equation. *)
Weight(draw) ==
  LET weight[k \in Nat] == LET w == skGen(Append(draw, k)) IN IF w = 0 THEN weight[k + 1] ELSE w
  IN  weight[1]

PlusTerms(proof, pd, yinv, winv, weight) ==
  LET MN == pd.M * N
      squarings[k \in Nat] == IF k = 0 THEN pd.y ELSE LET so == squarings[k - 1] IN sc_mul(so, so)
      y_MN == squarings[HalvesOf(MN)]
      y_MN_1 == sc_mul(y_MN, pd.y)
      e_squared == sc_mul(pd.e, pd.e)
      z_squared == sc_mul(pd.z, pd.z)
      e2w == sc_mul(e_squared, weight)
      minus_e2w == sc_sub(0, e2w)
      d == windowed(z_squared, pd.M)
      sum_d == sc_mul(TWO_SIXTY_FOUR_MINUS_ONE, sum_of_even_powers(pd.z, 2 * pd.M))
      sum_y == sum_of_scalar_powers(pd.y, MN)
      cache == challenges_cache(pd.w, winv)
      yinvpow == vector_powers(yinv, MN)
      e2zw == sc_mul(e2w, pd.z)
      g(i) == sc_muladd(sc_mul(sc_mul(sc_mul(pd.e, proof.r1), weight), yinvpow[i]), cache[i], e2zw)
      h(i) == sc_muladd(sc_mul(sc_mul(minus_e2w, y_MN), yinvpow[i]), d[i],
                        sc_muladd(sc_mul(sc_mul(pd.e, proof.s1), weight), cache[Flipped(i, MN)], sc_sub(0, e2zw)))
      zz == vector_scalar(vector_powers(z_squared, Len(proof.V)), z_squared)
      Times8(c, points) == [i \in 1 .. Len(points) |-> Data(c[i], scalarmult8(points[i]))]
  IN  [Gi |-> [i \in 1 .. MN |-> g(i)],
       Hi |-> [i \in 1 .. MN |-> h(i)],
       G |-> sc_mul(weight, proof.d1),
       H |-> sc_mul(weight,
               sc_muladd(e_squared, sc_add(sc_mul(sc_sub(z_squared, pd.z), sum_y), sc_mul(sc_mul(y_MN_1, pd.z), sum_d)),
                         sc_mul(sc_mul(proof.r1, pd.y), proof.s1))),
       data |-> Times8(vector_scalar(zz, sc_mul(minus_e2w, y_MN_1)), proof.V)
                \o Times8(vector_scalar(<<1, pd.e, e_squared>>, sc_sub(0, weight)), <<proof.B, proof.A1, proof.A>>)
                \o Times8(vector_scalar(hadamard(pd.w, pd.w), minus_e2w), proof.L)
                \o Times8(vector_scalar(hadamard(winv, winv), minus_e2w), proof.R)]

bulletproof_plus_VERIFY(proofs, draw) ==
  LET count == Len(proofs)
      Of(p, pd, inverted) ==
        PlusTerms(proofs[p], pd, LastOf(inverted), AllButLast(inverted), Weight(Append(draw, p)))
      All(pd, inverted) == Vector([p \in 1 .. count |-> Of(p, pd[p], OfProof(inverted, pd, p))])
      Checked(pd) ==
        /\ \A p \in 1 .. count : PlusWellFormed(proofs[p]) /\ PlusNoneZero(pd[p])
        /\ Holds(PlusTables, Equation(All(pd, inverses(to_invert(pd)))))
  IN  Checked(Vector([p \in 1 .. count |-> plus_proof_data(proofs[p])]))
=============================================================================
