------------------------------ MODULE RctSigs -------------------------------
(***************************************************************************)
(* rctSigs.cpp: range proofs of single bits, ring signatures over keys and *)
(* commitments, and the signatures of a confidential transaction that are  *)
(* made of them.                                                           *)
(***************************************************************************)
EXTENDS RctTypes

(* Borromean: for each bit one of two discrete logarithms is known, and    *)
(* all rings close in one hash.                                            *)
genBorromean(x, P1, P2, indices, draw) ==
  LET alpha == skvGen(Append(draw, 1), ATOMS)
      fake0 == skvGen(Append(draw, 2), ATOMS)
      fake1 == skvGen(Append(draw, 3), ATOMS)
      L1 == [i \in Atom |->
               IF indices[i] = 1 THEN scalarmultBase(alpha[i])
               ELSE addKeys2(fake1[i], hash_to_scalar(<<scalarmultBase(alpha[i])>>), P2[i])]
      ee == hash_to_scalar(L1)
      cc(i) == hash_to_scalar(<<addKeys2(fake0[i], ee, P1[i])>>)
  IN  [s0 |-> [i \in Atom |-> IF indices[i] = 0 THEN sc_mulsub(x[i], ee, alpha[i]) ELSE fake0[i]],
       s1 |-> [i \in Atom |-> IF indices[i] = 0 THEN fake1[i] ELSE sc_mulsub(x[i], cc(i), alpha[i])],
       ee |-> ee]

verifyBorromean(bb, P1, P2) ==
  LET chash(i) == hash_to_scalar(<<addKeys2(bb.s0[i], bb.ee, P1[i])>>)
      Lv1 == [i \in Atom |-> addKeys2(bb.s1[i], chash(i), P2[i])]
  IN  equalKeys(hash_to_scalar(Lv1), bb.ee)

proveRange(amount, draw) ==
  LET b == d2b(amount)
      ai == skvGen(Append(draw, 4), ATOMS)
      Ci == [i \in Atom |-> IF b[i] = 0 THEN scalarmultBase(ai[i]) ELSE addKeys(scalarmultBase(ai[i]), H2[i])]
      CiH == [i \in Atom |-> subKeys(Ci[i], H2[i])]
  IN  [C |-> AddedUp(Ci, ATOMS), mask |-> AddedUp(ai, ATOMS),
       sig |-> [asig |-> genBorromean(ai, Ci, CiH, b, draw), Ci |-> Ci]]

verRange(C, as) ==
  /\ equalKeys(C, AddedUp(as.Ci, ATOMS))
  /\ verifyBorromean(as.asig, as.Ci, [i \in Atom |-> subKeys(as.Ci[i], H2[i])])

-----------------------------------------------------------------------------
(* CLSAG: one response for each member of the ring, for the key and the    *)
(* difference of the commitments together.                                 *)
clsag_sign_Swapped(c, a, p, z, mu_P, mu_C) ==
  sc_mulsub(c, sc_muladd(mu_P, z, sc_mul(mu_C, p)), a)

clsag_sign(c, a, p, z, mu_P, mu_C) ==
  sc_mulsub(c, sc_muladd(mu_C, z, sc_mul(mu_P, p)), a)

Aggregate(domain, P, C_nonzero, I, D, C_offset) ==
  hash_to_scalar(<<domain>> \o P \o C_nonzero \o <<I, D, C_offset>>)
clsag_round(message, P, C_nonzero, C_offset, L, R) ==
  hash_to_scalar(<<12>> \o P \o C_nonzero \o <<C_offset, message, L, R>>)

clsag_L(s, c, mu_P, mu_C, P, C) == addKeys_aGbBcC(s, sc_mul(mu_P, c), P, sc_mul(mu_C, c), C)
clsag_R(s, c, mu_P, mu_C, P, I, D) == addKeys_aAbBcC(s, hash_to_p3(P), sc_mul(mu_P, c), I, sc_mul(mu_C, c), D)

(* step[k] is the challenge of the k-th member after the signer. *)
CLSAG_Gen(message, P, p, C, z, C_nonzero, C_offset, index, draw) ==
  LET n == Len(P)
      Hp == hash_to_p3(P[index])
      a == skGen(Append(draw, 0))
      I == scalarmultKey(Hp, p)
      D == scalarmultKey(Hp, z)
      D8 == scalarmultKey(D, INV_EIGHT)
      mu_P == Aggregate(10, P, C_nonzero, I, D8, C_offset)
      mu_C == Aggregate(11, P, C_nonzero, I, D8, C_offset)
      member(k) == ((index - 1 + k) % n) + 1
      s(i) == skGen(Append(draw, i))
      step[k \in Nat] ==
        IF k = 1 THEN clsag_round(message, P, C_nonzero, C_offset, scalarmultBase(a), scalarmultKey(Hp, a))
        ELSE LET c == step[k - 1]
                 i == member(k - 1)
             IN  clsag_round(message, P, C_nonzero, C_offset, clsag_L(s(i), c, mu_P, mu_C, P[i], C[i]),
                             clsag_R(s(i), c, mu_P, mu_C, P[i], I, D))
      sign == clsag_sign(step[n], a, p, z, mu_P, mu_C)
  IN  [s |-> [i \in 1 .. n |-> IF i = index THEN sign ELSE s(i)],
       c1 |-> step[CHOOSE k \in 1 .. n : member(k) = 1], I |-> I, D |-> D8]

(* How a node checks such a signature: the ring closes at the challenge    *)
(* it starts from.                                                         *)
CLSAG_Ver(message, sig, pubs, C_offset) ==
  LET n == Len(pubs)
      P == [i \in 1 .. n |-> pubs[i].dest]
      C_nonzero == [i \in 1 .. n |-> pubs[i].mask]
      D == scalarmult8(sig.D)
      mu_P == Aggregate(10, P, C_nonzero, sig.I, sig.D, C_offset)
      mu_C == Aggregate(11, P, C_nonzero, sig.I, sig.D, C_offset)
      c[i \in Nat] ==
        IF i = 0 THEN sig.c1
        ELSE LET so == c[i - 1]
             IN  clsag_round(message, P, C_nonzero, C_offset,
                   clsag_L(sig.s[i], so, mu_P, mu_C, P[i], subKeys(C_nonzero[i], C_offset)),
                   clsag_R(sig.s[i], so, mu_P, mu_C, P[i], sig.I, D))
  IN  /\ Len(sig.s) = n /\ is_reduced(sig.c1) /\ \A i \in 1 .. n : is_reduced(sig.s[i])
      /\ sig.I # identity /\ D # identity
      /\ c[n] = sig.c1

-----------------------------------------------------------------------------
(* MLSAG: pk is a sequence of columns, of which one's keys are all known;  *)
(* the first dsRows rows leave an image.                                   *)
mlsag_round(message, column, L, R, dsRows) ==
  hash_to_scalar(<<message>> \o Joined([j \in 1 .. Len(column) |->
                   IF j <= dsRows THEN <<column[j], L[j], R[j]>> ELSE <<column[j], L[j]>>]))

mlsag_next(message, column, ss, c, II) ==
  LET dsRows == Len(II)
  IN  mlsag_round(message, column,
        [j \in 1 .. Len(column) |-> addKeys2(ss[j], c, column[j])],
        [j \in 1 .. dsRows |-> addKeys3(ss[j], hash_to_p3(column[j]), c, II[j])], dsRows)

mlsag_sign(c, xx, alpha) == [j \in 1 .. Len(xx) |-> sc_mulsub(c, xx[j], alpha[j])]

MLSAG_Gen(message, pk, xx, index, dsRows, draw) ==
  LET cols == Len(pk)
      rows == Len(pk[1])
      alpha == skvGen(Append(draw, 0), rows)
      Hi == [j \in 1 .. dsRows |-> hash_to_p3(pk[index][j])]
      II == [j \in 1 .. dsRows |-> scalarmultKey(Hi[j], xx[j])]
      column(k) == ((index - 1 + k) % cols) + 1
      ss(i) == skvGen(Append(draw, i), rows)
      step[k \in Nat] ==
        IF k = 1
        THEN mlsag_round(message, pk[index], [j \in 1 .. rows |-> scalarmultBase(alpha[j])], [j \in 1 .. dsRows |-> scalarmultKey(Hi[j], alpha[j])], dsRows)
        ELSE LET i == column(k - 1) IN mlsag_next(message, pk[i], ss(i), step[k - 1], II)
      sign == mlsag_sign(step[cols], xx, alpha)
  IN  [ss |-> [i \in 1 .. cols |-> IF i = index THEN sign ELSE ss(i)],
       cc |-> step[CHOOSE k \in 1 .. cols : column(k) = 1], II |-> II]

MLSAG_Ver(message, pk, rv, dsRows) ==
  LET cols == Len(pk)
      rows == Len(pk[1])
      c[i \in Nat] == IF i = 0 THEN rv.cc ELSE mlsag_next(message, pk[i], rv.ss[i], c[i - 1], rv.II)
  IN  /\ cols >= 2 /\ rows >= 1 /\ \A i \in 1 .. cols : Len(pk[i]) = rows
      /\ Len(rv.II) = dsRows
      /\ Len(rv.ss) = cols /\ \A i \in 1 .. cols : Len(rv.ss[i]) = rows
      /\ dsRows <= rows
      /\ \A i \in 1 .. cols, j \in 1 .. rows : is_reduced(rv.ss[i][j])
      /\ is_reduced(rv.cc)
      /\ \A j \in 1 .. dsRows : rv.II[j] # identity
      /\ \A i \in 1 .. cols : c[i] # 0
      /\ c[cols] = rv.cc

-----------------------------------------------------------------------------
(* What the ring signatures sign. *)
get_pre_mlsag_hash(rv) ==
  LET ofProof(p) == IF is_rct_bulletproof_plus(rv.type)
                    THEN <<p.A, p.A1, p.B, p.r1, p.s1, p.d1>> \o p.L \o p.R
                    ELSE <<p.A, p.S, p.T1, p.T2, p.taux, p.mu>> \o p.L \o p.R \o <<p.a, p.b, p.t>>
      ofRange(r) == r.asig.s0 \o r.asig.s1 \o <<r.asig.ee>> \o r.Ci
      kv == IF is_rct_borromean(rv.type) THEN Joined([i \in 1 .. Len(rv.rangeSigs) |-> ofRange(rv.rangeSigs[i])])
            ELSE Joined([i \in 1 .. Len(rv.bulletproofs) |-> ofProof(rv.bulletproofs[i])])
  IN  cn_fast_hash(<<rv.message, cn_fast_hash(serialize_rctsig_base(rv)), cn_fast_hash(kv)>>)

(* The columns of a full signature: the keys, and last what the inputs     *)
(* commit to less outputs and fee.                                         *)
FullMatrix(pubs, outPk, txnFeeKey) ==
  LET outs == sc_add(AddedUp([j \in 1 .. Len(outPk) |-> outPk[j].mask], Len(outPk)), txnFeeKey)
      rows == Len(pubs[1])
  IN  [i \in 1 .. Len(pubs) |->
         Append([j \in 1 .. rows |-> pubs[i][j].dest],
                subKeys(AddedUp([j \in 1 .. rows |-> pubs[i][j].mask], rows), outs))]

SimpleMatrix(pubs, C) == [i \in 1 .. Len(pubs) |-> <<pubs[i].dest, subKeys(pubs[i].mask, C)>>]

proveRctMG(message, pubs, inSk, outSk, outPk, index, txnFeeKey, draw) ==
  LET sum(k) == AddedUp([j \in 1 .. Len(k) |-> k[j].mask], Len(k))
      sk == Append([j \in 1 .. Len(inSk) |-> inSk[j].dest], sc_sub(sum(inSk), sum(outSk)))
  IN  MLSAG_Gen(message, FullMatrix(pubs, outPk, txnFeeKey), sk, index, Len(inSk), draw)

proveRctMGSimple(message, pubs, inSk, a, Cout, index, draw) ==
  MLSAG_Gen(message, SimpleMatrix(pubs, Cout), <<inSk.dest, sc_sub(inSk.mask, a)>>, index, 1, draw)

proveRctCLSAGSimple(message, pubs, inSk, a, Cout, index, draw) ==
  LET n == Len(pubs)
  IN  CLSAG_Gen(message, [i \in 1 .. n |-> pubs[i].dest], inSk.dest,
                [i \in 1 .. n |-> subKeys(pubs[i].mask, Cout)], sc_sub(inSk.mask, a),
                [i \in 1 .. n |-> pubs[i].mask], Cout, index, draw)

verRctMG(mg, pubs, outPk, txnFeeKey, message) ==
  MLSAG_Ver(message, FullMatrix(pubs, outPk, txnFeeKey), mg, Len(pubs[1]))

verRctMGSimple(message, mg, pubs, C) == MLSAG_Ver(message, SimpleMatrix(pubs, C), mg, 1)

-----------------------------------------------------------------------------
(* Stand-ins of the right size, for a device that only estimates. *)
make_dummy_bulletproof(type, outamounts) ==
  LET n_outs == Len(outamounts)
      V == vector_dup(identity, n_outs)
      points == vector_dup(identity, LogM(n_outs) + logN)
  IN  [C |-> [i \in 1 .. n_outs |-> addKeys2(INV_EIGHT, sc_mul(outamounts[i], INV_EIGHT), H)],
       masks |-> vector_dup(1, n_outs),
       proof |-> IF is_rct_bulletproof_plus(type)
                 THEN [V |-> V, A |-> identity, A1 |-> identity, B |-> identity, r1 |-> 1, s1 |-> 1, d1 |-> 1,
                       L |-> points, R |-> points]
                 ELSE [V |-> V, A |-> identity, S |-> identity, T1 |-> identity, T2 |-> identity, taux |-> 1, mu |-> 1,
                       L |-> points, R |-> points, a |-> 1, b |-> 1, t |-> 1]]

make_dummy_clsag_NotTheSigner(ring_size) ==
  [s |-> vector_dup(1, ring_size - 1), c1 |-> 1, I |-> identity, D |-> identity]

make_dummy_clsag(ring_size) == [s |-> vector_dup(1, ring_size), c1 |-> 1, I |-> identity, D |-> identity]

(* The masks of amounts are made from the secrets shared with receivers. *)
proveRangeBulletproof(type, amounts, sk, draw) ==
  LET masks == Vector([i \in 1 .. Len(sk) |-> genCommitmentMask(sk[i])])
      With(proof) == [C |-> proof.V, masks |-> masks, proof |-> proof]
  IN  IF is_rct_bulletproof_plus(type) THEN With(bulletproof_plus_PROVE(amounts, masks, draw))
      ELSE With(bulletproof_PROVE(amounts, masks, draw))

(* A proof for outputs, or what stands for it in an estimate.              *)
ProveOutputs(type, fake, amounts, keys, draw) ==
  IF fake THEN make_dummy_bulletproof(type, amounts)
  ELSE proveRangeBulletproof(type, amounts, keys, draw)

(* How many of the outputs that are left the next proof is for: all, one,  *)
(* or the largest power of two that is left and allowed.                   *)
BatchSize(range_proof_type, left) ==
  CASE range_proof_type = "padded" -> left
    [] range_proof_type = "single" -> 1
    [] range_proof_type = "multi" ->
         CHOOSE b \in {2 ^ k : k \in 0 .. maxM} :
           b <= left /\ b <= maxM /\ (b * 2 > left \/ b * 2 > maxM)

genRct(message, inSk, destinations, amounts, mixRing, amount_keys, index, draw) ==
  LET outs == 1 .. Len(destinations)
      Unsigned(range) ==
        [type |-> RCTTypeFull, message |-> message, mixRing |-> mixRing,
         txnFee |-> IF Len(amounts) > Len(destinations) THEN amounts[Len(destinations) + 1] ELSE 0,
         outPk |-> [i \in outs |-> [dest |-> destinations[i], mask |-> range[i].C]],
         rangeSigs |-> [i \in outs |-> range[i].sig], bulletproofs |-> << >>, pseudoOuts |-> << >>,
         ecdhInfo |-> [i \in outs |->
                         ecdhEncode([mask |-> range[i].mask, amount |-> d2h(amounts[i])], amount_keys[i], FALSE)],
         MGs |-> << >>, CLSAGs |-> << >>]
      Sign(rv, outSk) ==
        [rv |-> [rv EXCEPT !.MGs = <<proveRctMG(get_pre_mlsag_hash(rv), mixRing, inSk, outSk, rv.outPk, index,
                                                scalarmultH(d2h(rv.txnFee)), Append(draw, 2))>>],
         outSk |-> outSk]
      Over(range) == Sign(Unsigned(range), [i \in outs |-> [dest |-> 0, mask |-> range[i].mask]])
  IN  Over(Vector([i \in outs |-> proveRange(amounts[i], draw \o <<1, i>>)]))

(* The range proofs of the outputs, their commitments and the masks: bits  *)
(* of each, or those of the outputs from the first on that a proof is for  *)
(* and then those of the rest.                                             *)
OutputRanges(type, range_proof_type, fake, outamounts, amount_keys, draw) ==
  LET n == Len(outamounts)
      OfBits(range) ==
        [C |-> [i \in 1 .. n |-> range[i].C], masks |-> [i \in 1 .. n |-> range[i].mask],
         rangeSigs |-> [i \in 1 .. n |-> range[i].sig], bulletproofs |-> << >>]
      Before(range, rest) ==
        [C |-> Vector([i \in 1 .. Len(range.C) |-> scalarmult8(range.C[i])]) \o rest.C,
         masks |-> range.masks \o rest.masks,
         rangeSigs |-> << >>, bulletproofs |-> <<range.proof>> \o rest.bulletproofs]
      proved[first \in 1 .. n + 1] ==
        IF first = n + 1 THEN [C |-> << >>, masks |-> << >>, rangeSigs |-> << >>, bulletproofs |-> << >>]
        ELSE LET next == first + BatchSize(range_proof_type, n + 1 - first)
             IN  Before(ProveOutputs(type, fake, SubSeq(outamounts, first, next - 1),
                                     SubSeq(amount_keys, first, next - 1), draw \o <<1, first>>),
                        proved[next])
  IN  IF type = RCTTypeSimple THEN OfBits(Vector([i \in 1 .. n |-> proveRange(outamounts[i], draw \o <<1, i>>)]))
      ELSE proved[1]

PseudoMasks_LastOfOutputs(masks, inputs, draw) ==
  Append([i \in 1 .. inputs - 1 |-> skGen(draw \o <<3, i>>)], AddedUp(masks, Len(masks)))

(* The masks of the first pseudo outputs are drawn, the last makes the     *)
(* sums equal.                                                             *)
PseudoMasks(masks, inputs, draw) ==
  LET drawn == [i \in 1 .. inputs - 1 |-> skGen(draw \o <<3, i>>)]
  IN  Append(drawn, sc_sub(AddedUp(masks, Len(masks)), AddedUp(drawn, inputs - 1)))

genRctSimple(type, range_proof_type, fake, message, inSk, destinations, inamounts, outamounts, txnFee, mixRing, amount_keys, index, draw) ==
  LET outs == 1 .. Len(destinations)
      ins == 1 .. Len(inamounts)
      Unsigned(range, a) ==
        [type |-> type, message |-> message, mixRing |-> mixRing, txnFee |-> txnFee,
         outPk |-> [i \in outs |-> [dest |-> destinations[i], mask |-> range.C[i]]],
         rangeSigs |-> range.rangeSigs, bulletproofs |-> range.bulletproofs,
         pseudoOuts |-> [i \in ins |-> genC(a[i], inamounts[i])],
         ecdhInfo |-> [i \in outs |-> ecdhEncode([mask |-> range.masks[i], amount |-> d2h(outamounts[i])],
                                                 amount_keys[i], ShortAmounts(type))],
         MGs |-> << >>, CLSAGs |-> << >>]
      CLSAG(i, full_message, a, Cout) ==
        IF fake THEN make_dummy_clsag(Len(mixRing[i]))
        ELSE proveRctCLSAGSimple(full_message, mixRing[i], inSk[i], a, Cout, index[i], draw \o <<4, i>>)
      Sign(rv, full_message, a) ==
        IF is_rct_clsag(type) THEN [rv EXCEPT !.CLSAGs = [i \in ins |-> CLSAG(i, full_message, a[i], rv.pseudoOuts[i])]]
        ELSE [rv EXCEPT !.MGs = [i \in ins |-> proveRctMGSimple(full_message, mixRing[i], inSk[i], a[i],
                                                                rv.pseudoOuts[i], index[i], draw \o <<4, i>>)]]
      Over(rv, a) == Sign(rv, get_pre_mlsag_hash(rv), a)
      Made(range, a) == [rv |-> Over(Unsigned(range, a), a), outSk |-> [i \in outs |-> [dest |-> 0, mask |-> range.masks[i]]]]
      From(range) == Made(range, PseudoMasks(range.masks, Len(inamounts), draw))
  IN  From(OutputRanges(type, range_proof_type, fake, outamounts, amount_keys, draw))

(* The amount and the mask of an output, or nothing when they do not make  *)
(* up its commitment.                                                      *)
decodeRct(rv, sk, i) ==
  LET so == ecdhDecode(rv.ecdhInfo[i], sk, ShortAmounts(rv.type))
      fits == is_reduced(so.mask) /\ is_reduced(so.amount)
              /\ equalKeys(rv.outPk[i].mask, addKeys2(so.mask, so.amount, H))
  IN  IF fits THEN [ok |-> TRUE, amount |-> h2d(so.amount), mask |-> so.mask]
      ELSE [ok |-> FALSE, amount |-> 0, mask |-> 0]

(* A ring for an input: its own key at a place that is drawn, others made  *)
(* up.  The last place is never drawn.                                     *)
randXmrAmount(upperlimit, draw) == h2d(skGen(draw)) % upperlimit
getKeyFromBlockchain(draw) == [mask |-> skGen(Append(draw, 1)), dest |-> skGen(Append(draw, 2))]
populateFromBlockchainSimple(inPk, mixin, draw) ==
  LET index == randXmrAmount(mixin, draw) + 1
  IN  [index |-> index,
       ring |-> [i \in 1 .. mixin + 1 |-> IF i = index THEN inPk ELSE getKeyFromBlockchain(Append(draw, i))]]
populateFromBlockchain(inPk, mixin, draw) ==
  LET index == randXmrAmount(mixin, draw) + 1
  IN  [index |-> index,
       ring |-> [i \in 1 .. mixin + 1 |->
                   IF i = index THEN inPk ELSE [j \in 1 .. Len(inPk) |-> getKeyFromBlockchain(draw \o <<i, j>>)]]]
=============================================================================
