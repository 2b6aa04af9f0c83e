------------------------------ MODULE RctTypes ------------------------------
(***************************************************************************)
(* The signatures of a transaction as data: rctTypes.cpp, how rctTypes.h   *)
(* saves and loads them without sizes, and what expand_transaction_1 puts  *)
(* back that is not saved.  A saved key, size or amount is one element of  *)
(* a sequence.                                                             *)
(***************************************************************************)
EXTENDS BulletproofsPlus, TLC

RCTTypeFull == 1
RCTTypeSimple == 2
RCTTypeBulletproof == 3
RCTTypeBulletproof2 == 4
RCTTypeCLSAG == 5
RCTTypeBulletproofPlus == 6

is_rct_simple(type) == type # RCTTypeFull
is_rct_bulletproof(type) == type \in {RCTTypeBulletproof, RCTTypeBulletproof2, RCTTypeCLSAG}
is_rct_bulletproof_plus(type) == type = RCTTypeBulletproofPlus
is_rct_borromean(type) == type \in {RCTTypeFull, RCTTypeSimple}
is_rct_clsag(type) == type \in {RCTTypeCLSAG, RCTTypeBulletproofPlus}
ShortAmounts(type) == type \in {RCTTypeBulletproof2, RCTTypeCLSAG, RCTTypeBulletproofPlus}

n_bulletproof_amounts(proof) ==
  LET L == Len(proof.L) V == Len(proof.V)
  IN  IF L >= logN /\ L = Len(proof.R) /\ 2 ^ (L - logN) <= maxM
         /\ V <= 2 ^ (L - logN) /\ V * 2 > 2 ^ (L - logN) /\ V > 0
      THEN V ELSE 0

n_bulletproof_max_amounts(proof) ==
  LET L == Len(proof.L)
  IN  IF L >= logN /\ L = Len(proof.R) /\ 2 ^ (L - logN) <= maxM THEN 2 ^ (L - logN) ELSE 0

(* Those of all proofs; none if one of them is malformed. *)
AllAmounts(Amounts(_), proofs) ==
  LET each == [i \in 1 .. Len(proofs) |-> Amounts(proofs[i])]
      sum[i \in Nat] == IF i = 0 THEN 0 ELSE sum[i - 1] + each[i]
  IN  IF \E i \in 1 .. Len(proofs) : each[i] = 0 THEN 0 ELSE sum[Len(proofs)]

-----------------------------------------------------------------------------
Joined(parts) ==
  LET upTo[i \in 0 .. Len(parts)] == IF i = 0 THEN << >> ELSE upTo[i - 1] \o parts[i] IN upTo[Len(parts)]

(* The part that is never pruned; message and rings are not saved. *)
serialize_rctsig_base(rv) ==
  <<rv.type, rv.txnFee>>
  \o (IF rv.type = RCTTypeSimple THEN rv.pseudoOuts ELSE << >>)
  \o Joined([i \in 1 .. Len(rv.ecdhInfo) |->
               IF ShortAmounts(rv.type) THEN <<h2d(rv.ecdhInfo[i].amount)>>
               ELSE <<rv.ecdhInfo[i].mask, rv.ecdhInfo[i].amount>>])
  \o [i \in 1 .. Len(rv.outPk) |-> rv.outPk[i].mask]

SizedL(p) == <<Len(p.L)>> \o p.L \o <<Len(p.R)>> \o p.R
SavedProof(type, p) ==
  IF is_rct_bulletproof_plus(type) THEN <<p.A, p.A1, p.B, p.r1, p.s1, p.d1>> \o SizedL(p)
  ELSE <<p.A, p.S, p.T1, p.T2, p.taux, p.mu>> \o SizedL(p) \o <<p.a, p.b, p.t>>

(* What must agree for a signature to be saved or to be taken when loaded. *)
SizesAgree(rv, inputs, outputs, mixin) ==
  /\ IF is_rct_borromean(rv.type) THEN Len(rv.rangeSigs) = outputs
     ELSE /\ Len(rv.bulletproofs) <= outputs
          /\ \A i \in 1 .. Len(rv.bulletproofs) :
               LET p == rv.bulletproofs[i] IN Len(p.L) > 0 /\ Len(p.L) = Len(p.R)
          /\ AllAmounts(n_bulletproof_max_amounts, rv.bulletproofs) >= outputs
  /\ IF is_rct_clsag(rv.type)
     THEN Len(rv.CLSAGs) = inputs /\ \A i \in 1 .. inputs : Len(rv.CLSAGs[i].s) = mixin + 1
     ELSE /\ Len(rv.MGs) = IF is_rct_simple(rv.type) THEN inputs ELSE 1
          /\ \A i \in 1 .. Len(rv.MGs) :
               /\ Len(rv.MGs[i].ss) = mixin + 1
               /\ \A j \in 1 .. mixin + 1 :
                    Len(rv.MGs[i].ss[j]) = (IF is_rct_simple(rv.type) THEN 1 ELSE inputs) + 1
  /\ rv.type # RCTTypeFull => Len(rv.pseudoOuts) = inputs

(* The images are not saved: they are in the inputs of the transaction. *)
serialize_rctsig_prunable(rv) ==
  (IF is_rct_borromean(rv.type)
   THEN Joined([i \in 1 .. Len(rv.rangeSigs) |->
                  LET r == rv.rangeSigs[i] IN r.asig.s0 \o r.asig.s1 \o <<r.asig.ee>> \o r.Ci])
   ELSE <<Len(rv.bulletproofs)>>
        \o Joined([i \in 1 .. Len(rv.bulletproofs) |-> SavedProof(rv.type, rv.bulletproofs[i])]))
  \o (IF is_rct_clsag(rv.type)
      THEN Joined([i \in 1 .. Len(rv.CLSAGs) |-> rv.CLSAGs[i].s \o <<rv.CLSAGs[i].c1, rv.CLSAGs[i].D>>])
      ELSE Joined([i \in 1 .. Len(rv.MGs) |-> Append(Joined(rv.MGs[i].ss), rv.MGs[i].cc)]))
  \o (IF is_rct_borromean(rv.type) THEN << >> ELSE rv.pseudoOuts)

-----------------------------------------------------------------------------
Cut(s, at, n) == SubSeq(s, at, at + n - 1)
Rows(s, at, count, width) == [i \in 1 .. count |-> Cut(s, at + (i - 1) * width, width)]

LoadedProof(type, s, at) ==
  LET L == s[at + 6]
      R == s[at + 7 + L]
      rest == at + 8 + L + R
      both == [V |-> << >>, L |-> Cut(s, at + 7, L), R |-> Cut(s, at + 8 + L, R), A |-> s[at]]
  IN  IF is_rct_bulletproof_plus(type)
      THEN [proof |-> both @@ [A1 |-> s[at + 1], B |-> s[at + 2], r1 |-> s[at + 3], s1 |-> s[at + 4], d1 |-> s[at + 5]],
            next |-> rest]
      ELSE [proof |-> both @@ [S |-> s[at + 1], T1 |-> s[at + 2], T2 |-> s[at + 3], taux |-> s[at + 4],
                               mu |-> s[at + 5], a |-> s[rest], b |-> s[rest + 1], t |-> s[rest + 2]],
            next |-> rest + 3]

(* The sizes come from the rest of the transaction. *)
Loaded(s, inputs, outputs, mixin) ==
  LET type == s[1]
      width == IF ShortAmounts(type) THEN 1 ELSE 2
      ecdhAt == 3 + (IF type = RCTTypeSimple THEN inputs ELSE 0)
      outAt == ecdhAt + outputs * width
      proofsAt == outAt + outputs
      count == IF is_rct_borromean(type) THEN 0 ELSE s[proofsAt]
      proofs[i \in Nat] ==
        IF i = 0 THEN [all |-> << >>, next |-> proofsAt + 1]
        ELSE LET so == proofs[i - 1]
                 p == LoadedProof(type, s, so.next)
             IN  [all |-> Append(so.all, p.proof), next |-> p.next]
      rangeSig(row) ==
        [asig |-> [s0 |-> Cut(row, 1, ATOMS), s1 |-> Cut(row, ATOMS + 1, ATOMS), ee |-> row[2 * ATOMS + 1]],
         Ci |-> Cut(row, 2 * ATOMS + 2, ATOMS)]
      sigsAt == IF is_rct_borromean(type) THEN proofsAt + outputs * (3 * ATOMS + 1) ELSE proofs[count].next
      mg_elements == IF is_rct_simple(type) THEN inputs ELSE 1
      mg_ss2 == (IF is_rct_simple(type) THEN 1 ELSE inputs) + 1
      sigWidth == IF is_rct_clsag(type) THEN mixin + 3 ELSE (mixin + 1) * mg_ss2 + 1
      sigs == Rows(s, sigsAt, IF is_rct_clsag(type) THEN inputs ELSE mg_elements, sigWidth)
      pseudoAt == CASE type = RCTTypeFull -> Len(s) + 1
                    [] type = RCTTypeSimple -> 3
                    [] OTHER -> sigsAt + Len(sigs) * sigWidth
  IN  [type |-> type, txnFee |-> s[2], message |-> 0, mixRing |-> << >>,
       pseudoOuts |-> Cut(s, pseudoAt, IF type = RCTTypeFull THEN 0 ELSE inputs),
       ecdhInfo |-> [i \in 1 .. outputs |->
                       LET at == ecdhAt + (i - 1) * width
                       IN  IF width = 1 THEN [mask |-> 0, amount |-> s[at]]
                           ELSE [mask |-> s[at], amount |-> s[at + 1]]],
       outPk |-> [i \in 1 .. outputs |-> [dest |-> 0, mask |-> s[outAt + i - 1]]],
       rangeSigs |-> IF ~is_rct_borromean(type) THEN << >>
                     ELSE [i \in 1 .. outputs |-> rangeSig(Rows(s, proofsAt, outputs, 3 * ATOMS + 1)[i])],
       bulletproofs |-> proofs[count].all,
       CLSAGs |-> IF ~is_rct_clsag(type) THEN << >>
                  ELSE [i \in 1 .. inputs |->
                          [s |-> Cut(sigs[i], 1, mixin + 1), c1 |-> sigs[i][mixin + 2], I |-> 0, D |-> sigs[i][mixin + 3]]],
       MGs |-> IF is_rct_clsag(type) THEN << >>
               ELSE [i \in 1 .. mg_elements |->
                       [ss |-> Rows(sigs[i], 1, mixin + 1, mg_ss2), cc |-> sigs[i][sigWidth], II |-> << >>]]]

(* What a transaction of one proof gets back: the destinations from its    *)
(* outputs, the commitments of the proof from those of the outputs.        *)
ExpandRefuses(rv, outputs) ==
  /\ ~is_rct_borromean(rv.type)
  /\ \/ Len(rv.bulletproofs) # 1
     \/ Len(rv.bulletproofs[1].L) < logN
     \/ LET p == rv.bulletproofs[1]
        IN  outputs > IF is_rct_bulletproof_plus(rv.type) THEN n_bulletproof_max_amounts(p)
                      ELSE 2 ^ (Len(p.L) - logN)

expand_transaction_1_NotScaled(rv, dests) ==
  [rv EXCEPT
     !.outPk = [n \in 1 .. Len(dests) |-> [@[n] EXCEPT !.dest = dests[n]]],
     !.bulletproofs =
        IF is_rct_borromean(rv.type) THEN @
        ELSE [@ EXCEPT ![1].V = [n \in 1 .. Len(dests) |-> rv.outPk[n].mask]]]

expand_transaction_1(rv, dests) ==
  [rv EXCEPT
     !.outPk = [n \in 1 .. Len(dests) |-> [@[n] EXCEPT !.dest = dests[n]]],
     !.bulletproofs =
        IF is_rct_borromean(rv.type) THEN @
        ELSE [@ EXCEPT ![1].V = [n \in 1 .. Len(dests) |-> scalarmultKey(rv.outPk[n].mask, INV_EIGHT)]]]
=============================================================================
