------------------------------ MODULE RctCalls ------------------------------
(***************************************************************************)
(* What is done with confidential transactions: a wallet signs one, it is  *)
(* saved, perhaps changed on its way, loaded and verified, and a receiver  *)
(* decodes an output; range proofs are verified in batches; sums of        *)
(* multiples are computed; accounts are made, inputs of other transactions *)
(* signed, and inputs put in order.  Inputs and draws of the generator are *)
(* chosen from small sets.                                                 *)
(***************************************************************************)
EXTENDS RctSigs, Keys, Permutation

CONSTANTS
  None,
  Requests,     \* transactions a wallet is asked to sign
  Proofs,       \* range proofs, [plus, values, masks, seed]
  MaxBatch,     \* proofs that are verified together
  Sums          \* lists of scalars and points

(* What goes in is what comes out and the fee, which the callers work out; *)
(* sums of amounts are far below the order of the group.                   *)
ASSUME RequestsAssumption ==
  \A q \in Requests :
    /\ q \in [type : RCTTypeFull .. RCTTypeBulletproofPlus, range : {"padded", "single", "multi"}, fake : BOOLEAN,
              ins : Seq(Amount), outs : Seq(Amount), fee : Amount, mixin : Nat, seed : Nat, alter : BOOLEAN]
    /\ q.ins # << >> /\ q.outs # << >>
    /\ AddedUp(q.ins, Len(q.ins)) = sc_add(AddedUp(q.outs, Len(q.outs)), q.fee)

VARIABLES
  tx,           \* the transaction: asked, signed, saved, altered, received, verdict, decoded
  batch,        \* range proofs, whether each is spoiled, and the verdict
  sum           \* a sum of multiples and what it should be

others == <<keysVars, sortVars>>

vars == <<tx, batch, sum, others>>

-----------------------------------------------------------------------------
(* The keys a wallet has: those of the input it spends, by its place.  The *)
(* others of a ring are other people's.                                    *)
Secret(q, i) == [dest |-> skGen(<<q.seed, 100, i>>), mask |-> skGen(<<q.seed, 101, i>>)]
PublicOf(q, i) == [dest |-> scalarmultBase(Secret(q, i).dest), mask |-> commit(q.ins[i], Secret(q, i).mask)]
amount_key(q, i) == skGen(<<q.seed, 102, i>>)
Destination(q, i) == scalarmultBase(skGen(<<q.seed, 103, i>>))
Message(q) == hash_to_scalar(<<q.seed>>)

Drawn(q, i) == populateFromBlockchainSimple(PublicOf(q, i), q.mixin, <<q.seed, 104, i>>)
DrawnFull(q) == populateFromBlockchain([i \in 1 .. Len(q.ins) |-> PublicOf(q, i)], q.mixin, <<q.seed, 104, 1>>)

Signed(q) ==
  LET ins == 1 .. Len(q.ins)
      outs == 1 .. Len(q.outs)
      inSk == [i \in ins |-> Secret(q, i)]
      dests == [i \in outs |-> Destination(q, i)]
      keys == [i \in outs |-> amount_key(q, i)]
  IN  IF q.type = RCTTypeFull
      THEN genRct(Message(q), inSk, dests, Append(q.outs, q.fee), DrawnFull(q).ring, keys, DrawnFull(q).index, <<q.seed>>)
      ELSE genRctSimple(q.type, q.range, q.fake, Message(q), inSk, dests, q.ins, q.outs, q.fee,
                        [i \in ins |-> Drawn(q, i).ring], keys, [i \in ins |-> Drawn(q, i).index], <<q.seed>>)

(* What comes from the rest of the transaction, the images among it, and   *)
(* from the chain.                                                         *)
Context(q, rv) ==
  [message |-> Message(q), mixRing |-> rv.mixRing,
   images |-> [i \in 1 .. Len(q.ins) |-> scalarmultKey(hash_to_p3(PublicOf(q, i).dest), Secret(q, i).dest)]]

Resolved(rv, context) ==
  LET own == [rv EXCEPT !.message = context.message, !.mixRing = context.mixRing]
  IN  IF is_rct_clsag(rv.type) THEN [own EXCEPT !.CLSAGs = [i \in 1 .. Len(@) |-> [@[i] EXCEPT !.I = context.images[i]]]]
      ELSE [own EXCEPT !.MGs = [i \in 1 .. Len(@) |->
              [@[i] EXCEPT !.II = IF is_rct_simple(rv.type) THEN <<context.images[i]>> ELSE context.images]]]

(* What a node checks, as far as the code for it is here: proofs and ring  *)
(* signatures; and that the sums are equal.                                *)
RangeVerified(rv) ==
  IF is_rct_borromean(rv.type)
  THEN \A i \in 1 .. Len(rv.outPk) : verRange(rv.outPk[i].mask, rv.rangeSigs[i])
  ELSE IF is_rct_bulletproof_plus(rv.type) THEN bulletproof_plus_VERIFY(rv.bulletproofs, <<7>>)
  ELSE bulletproof_VERIFY(rv.bulletproofs, <<7>>)

Balanced(rv) ==
  AddedUp(rv.pseudoOuts, Len(rv.pseudoOuts))
  = sc_add(AddedUp([i \in 1 .. Len(rv.outPk) |-> rv.outPk[i].mask], Len(rv.outPk)), scalarmultH(d2h(rv.txnFee)))

RingsVerified(rv) ==
  LET message == get_pre_mlsag_hash(rv)
  IN  CASE rv.type = RCTTypeFull ->
             verRctMG(rv.MGs[1], rv.mixRing, rv.outPk, scalarmultH(d2h(rv.txnFee)), message)
        [] rv.type # RCTTypeFull /\ is_rct_clsag(rv.type) ->
             \A i \in 1 .. Len(rv.CLSAGs) : CLSAG_Ver(message, rv.CLSAGs[i], rv.mixRing[i], rv.pseudoOuts[i])
        [] OTHER ->
             \A i \in 1 .. Len(rv.MGs) : verRctMGSimple(message, rv.MGs[i], rv.mixRing[i], rv.pseudoOuts[i])

Verified(rv) == (is_rct_simple(rv.type) => Balanced(rv)) /\ RangeVerified(rv) /\ RingsVerified(rv)

-----------------------------------------------------------------------------
NoBatch == [plus |-> None, proofs |-> << >>, spoiled |-> {}, verdict |-> None]
OthersIdle == AccountInit /\ RingInit /\ SortInit
Idle == tx = None /\ batch = NoBatch /\ sum = None /\ OthersIdle

Init == Idle

Saved(rv) == serialize_rctsig_base(rv) \o serialize_rctsig_prunable(rv)

(* For an estimate the real transaction is signed too, to be compared.     *)
Sign(q) ==
  /\ Idle
  /\ LET Sent(s, real) ==
           [asked |-> q, signed |-> s.rv, outSk |-> s.outSk, saved |-> Saved(s.rv), real |-> Len(Saved(real.rv)),
            context |-> Context(q, s.rv), altered |-> None, received |-> None, verdict |-> None, decoded |-> None]
         Both(signed) == Sent(signed[q.fake], signed[FALSE])
     IN  tx' = Both([fake \in {q.fake, FALSE} |-> Signed([q EXCEPT !.fake = fake])])
  /\ UNCHANGED <<batch, sum, others>>

(* Where the blob holds the type or a size. *)
SizesAt(rv) ==
  LET base == Len(serialize_rctsig_base(rv))
  IN  {1} \union (IF is_rct_borromean(rv.type) THEN {}
                  ELSE {base + 1, base + 8, base + 9 + Len(rv.bulletproofs[1].L)})

Other(x) == IF x \in Amount THEN (x + 1) % 2 ^ ATOMS ELSE (x + 1) % l

OnTheWay == tx # None /\ tx.verdict = None /\ tx.altered = None /\ tx.asked.alter

(* Any saved key or amount is another one. *)
Alter(at) ==
  /\ OnTheWay
  /\ at \in 1 .. Len(tx.saved) /\ at \notin SizesAt(tx.signed)
  /\ tx' = [tx EXCEPT !.saved[at] = Other(@), !.altered = <<"saved", at>>]
  /\ UNCHANGED <<batch, sum, others>>

(* The transaction claims another message, image or ring than was signed. *)
AlterContext(what) ==
  /\ OnTheWay
  /\ tx' = [tx EXCEPT
       !.altered = what,
       !.context = CASE what = "message" -> [@ EXCEPT !.message = Other(@)]
                     [] what = "image"   -> [@ EXCEPT !.images[1] = Other(@)]
                     [] what = "key"     -> [@ EXCEPT !.mixRing[1][1].dest = Other(@)]
                     [] what = "ring"    -> [@ EXCEPT !.mixRing[1][1].mask = Other(@)]]
  /\ UNCHANGED <<batch, sum, others>>

(* The scalars of a signature, each as itself plus the order. *)
Aliased(rv) ==
  LET sigs ==
        IF is_rct_clsag(rv.type)
        THEN {[rv EXCEPT !.CLSAGs[1].s[i] = @ + l] : i \in 1 .. Len(rv.CLSAGs[1].s)} \union {[rv EXCEPT !.CLSAGs[1].c1 = @ + l]}
        ELSE {[rv EXCEPT !.MGs[1].ss[1][j] = @ + l] : j \in 1 .. Len(rv.MGs[1].ss[1])} \union {[rv EXCEPT !.MGs[1].cc = @ + l]}
      proofs ==
        IF is_rct_borromean(rv.type) THEN {}
        ELSE IF is_rct_bulletproof_plus(rv.type)
        THEN {[rv EXCEPT !.bulletproofs[1].r1 = @ + l], [rv EXCEPT !.bulletproofs[1].s1 = @ + l],
              [rv EXCEPT !.bulletproofs[1].d1 = @ + l]}
        ELSE {[rv EXCEPT !.bulletproofs[1].a = @ + l], [rv EXCEPT !.bulletproofs[1].b = @ + l],
              [rv EXCEPT !.bulletproofs[1].t = @ + l], [rv EXCEPT !.bulletproofs[1].mu = @ + l]}
  IN  sigs \union proofs

AlterScalar(rv) ==
  /\ OnTheWay
  /\ rv \in Aliased(tx.signed)
  /\ tx' = [tx EXCEPT !.saved = Saved(rv), !.altered = "scalar"]
  /\ UNCHANGED <<batch, sum, others>>

(* A node loads the transaction and verifies it. *)
Receive ==
  /\ tx # None /\ tx.verdict = None
  /\ LET q == tx.asked
         outputs == Len(q.outs)
         rv == Resolved(Loaded(tx.saved, Len(q.ins), outputs, q.mixin), tx.context)
         refused == ~SizesAgree(rv, Len(q.ins), outputs, q.mixin) \/ ExpandRefuses(rv, outputs)
         expanded == expand_transaction_1(rv, [i \in 1 .. outputs |-> Destination(q, i)])
     IN  tx' = IF refused THEN [tx EXCEPT !.verdict = FALSE]
               ELSE [tx EXCEPT !.received = expanded, !.verdict = Verified(expanded)]
  /\ UNCHANGED <<batch, sum, others>>

(* A receiver decodes an output of what was received, with the secret of   *)
(* that output or of the one after it.                                     *)
Decode(i, k) ==
  /\ tx # None /\ tx.received # None /\ tx.decoded = None
  /\ i \in 1 .. Len(tx.asked.outs)
  /\ tx' = [tx EXCEPT !.decoded = [i |-> i, k |-> k, answer |-> decodeRct(tx.received, amount_key(tx.asked, k), i)]]
  /\ UNCHANGED <<batch, sum, others>>

-----------------------------------------------------------------------------
Prove(p) ==
  /\ tx = None /\ sum = None /\ OthersIdle
  /\ batch.verdict = None /\ batch.spoiled = {} /\ Len(batch.proofs) < MaxBatch /\ batch.plus \in {None, p.plus}
  /\ LET proof == IF p.plus THEN bulletproof_plus_PROVE(p.values, p.masks, <<p.seed>>)
                  ELSE bulletproof_PROVE(p.values, p.masks, <<p.seed>>)
     IN  batch' = [batch EXCEPT !.plus = p.plus, !.proofs = Append(@, proof)]
  /\ UNCHANGED <<tx, sum, others>>

(* One value of a proof is another, or the commitment to another amount.   *)
Spoil(n, field, by) ==
  /\ batch.verdict = None /\ n \in 1 .. Len(batch.proofs) /\ n \notin batch.spoiled
  /\ field \in DOMAIN batch.proofs[n] \ {"V", "L", "R"}
  /\ batch' = [batch EXCEPT !.spoiled = @ \union {n}, !.proofs[n][field] = sc_add(@, by)]
  /\ UNCHANGED <<tx, sum, others>>

SpoilV(n) ==
  /\ batch.verdict = None /\ n \in 1 .. Len(batch.proofs) /\ n \notin batch.spoiled
  /\ batch' = [batch EXCEPT !.spoiled = @ \union {n}, !.proofs[n].V[1] = addKeys(@, H)]
  /\ UNCHANGED <<tx, sum, others>>

VerifyBatch ==
  /\ batch.proofs # << >> /\ batch.verdict = None
  /\ batch' = [batch EXCEPT !.verdict =
                 IF batch.plus THEN bulletproof_plus_VERIFY(batch.proofs, <<8>>)
                 ELSE bulletproof_VERIFY(batch.proofs, <<8>>)]
  /\ UNCHANGED <<tx, sum, others>>

-----------------------------------------------------------------------------
(* The same sum by each of the ways there are to find it. *)
Add(data) ==
  /\ Idle
  /\ LET n == Len(data)
         points == pippenger_init_cache(data, 0)
     IN  sum' = [expected |-> AddedUp([i \in 1 .. n |-> scalarmultKey(data[i].point, data[i].scalar)], n),
                 straus |-> {straus(data, straus_init_cache(data, n), STEP) : STEP \in {1, 2, 192}},
                 pippenger |-> {pippenger(data, SubSeq(points, 1, k), k, c) : k \in 0 .. n, c \in {2, 3}},
                 x |-> data[1].scalar,
                 scalars |-> [i \in 1 .. n |-> data[i].scalar],
                 inverses |-> inverses([i \in 1 .. n |-> data[i].scalar])]
  /\ UNCHANGED <<tx, batch, others>>

Quiet == tx = None /\ batch = NoBatch /\ sum = None

MakeAccount == Quiet /\ RingInit /\ SortInit /\ AccountNext /\ UNCHANGED <<tx, batch, sum, ring, sortVars>>
SignByRing  == Quiet /\ AccountInit /\ SortInit /\ RingNext /\ UNCHANGED <<tx, batch, sum, account, sortVars>>
PutInOrder  == Quiet /\ AccountInit /\ RingInit /\ SortNext /\ UNCHANGED <<tx, batch, sum, keysVars>>

Done ==
  \/ (tx # None /\ tx.verdict # None) \/ batch.verdict # None \/ sum # None
  \/ account.stage = "recovered" \/ ring.stage = "checked" \/ step \in {"returned", "thrown"}
Restart ==
  /\ Done /\ tx' = None /\ batch' = NoBatch /\ sum' = None
  /\ account' = set_null /\ ring' = NoRing
  /\ given' = << >> /\ perm' = << >> /\ items' = << >> /\ cycle' = 1 /\ current' = 1 /\ step' = "idle"

Next ==
  \/ \E q \in Requests : Sign(q)
  \/ \E at \in 1 .. 200 : Alter(at)
  \/ \E what \in {"message", "image", "key", "ring"} : AlterContext(what)
  \/ tx # None /\ \E rv \in Aliased(tx.signed) : AlterScalar(rv)
  \/ Receive
  \/ \E i, k \in 1 .. 4 : Decode(i, k)
  \/ \E p \in Proofs : Prove(p)
  \/ \E n \in 1 .. MaxBatch, field \in {"taux", "t", "b", "A1", "r1", "d1"}, by \in {1, l - 1} :
       Spoil(n, field, by)
  \/ \E n \in 1 .. MaxBatch : SpoilV(n)
  \/ VerifyBatch
  \/ \E data \in Sums : Add(data)
  \/ MakeAccount \/ SignByRing \/ PutInOrder
  \/ Restart

Spec == Init /\ [][Next]_vars

-----------------------------------------------------------------------------
Received == tx # None /\ tx.verdict # None

(* SignedVerifies: a transaction that a wallet signs, whatever its type,   *)
(* its rings and the way its range proofs are divided, and that arrives as *)
(* it was sent is accepted, unless it was only estimated; the one that is  *)
(* not is one of several range proofs, which cannot be expanded when it is *)
(* loaded (genRct, genRctSimple, expand_transaction_1).  So is a ring      *)
(* signature of another transaction, at each place of rings of each size   *)
(* (generate_ring_signature).                                              *)
SignedVerifies ==
  /\ Received /\ tx.altered = None /\ ~tx.asked.fake => tx.verdict = (Len(tx.signed.bulletproofs) <= 1)
  /\ RingVerifies

(* AlteredRefused: whatever is changed on the way - a key, a scalar, the   *)
(* fee, an encrypted amount, a member of a ring, an image, the message, or *)
(* a scalar that stands for itself plus the order - the transaction is not *)
(* accepted (get_pre_mlsag_hash, the verifiers, is_reduced); nor is a ring *)
(* signature that was altered or made under another image, by which an     *)
(* output would be spent twice (check_ring_signature).                     *)
AlteredRefused == (Received /\ tx.altered # None => ~tx.verdict) /\ RingRefused

(* DecodedIsSent: whoever shares the secret of an output of a transaction  *)
(* as it was sent finds the amount and the mask of its commitment; nobody  *)
(* finds others (ecdhEncode, ecdhDecode, decodeRct).                       *)
DecodedIsSent ==
  tx # None /\ tx.decoded # None =>
    LET found == tx.decoded.answer
        i == tx.decoded.i
    IN  /\ tx.decoded.k = i /\ tx.altered = None /\ ~tx.asked.fake => found.ok
        /\ found.ok => found.amount = tx.asked.outs[i] /\ found.mask = tx.outSk[i].mask

(* CommitmentsBalance: the commitments of a signed transaction, also of an *)
(* estimated one, are to the amounts that were asked, and what goes in is  *)
(* what comes out and the fee (genRctSimple's last pseudo output); the     *)
(* range proofs together have one commitment for each output, in their     *)
(* order.                                                                  *)
AmountsBalance ==
  LET rv == tx.signed
  IN  /\ is_rct_simple(rv.type) => Balanced(rv)
      /\ Len(rv.outPk) = Len(tx.asked.outs)
      /\ \A i \in 1 .. Len(rv.outPk) : rv.outPk[i].mask = commit(tx.asked.outs[i], tx.outSk[i].mask)

Committed(proofs) == Joined([b \in 1 .. Len(proofs) |-> proofs[b].V])

RangeProofsCover ==
  LET V == Committed(tx.signed.bulletproofs)
  IN  /\ Len(V) = Len(tx.signed.outPk)
      /\ ~tx.asked.fake => \A i \in 1 .. Len(V) : scalarmult8(V[i]) = tx.signed.outPk[i].mask

CommitmentsBalance ==
  tx # None => AmountsBalance /\ (~is_rct_borromean(tx.signed.type) => RangeProofsCover)

(* SavedIsLoaded: what is saved without sizes and loaded by the sizes the  *)
(* rest of the transaction gives is what was signed, once expanded; a      *)
(* transaction that was only estimated is as long as the real one; and the *)
(* proofs are as long as their numbers of outputs say, also those of an    *)
(* estimate.                                                               *)
SavedIsLoaded ==
  /\ Received /\ tx.altered = None /\ ~tx.asked.fake /\ tx.received # None =>
       tx.received = tx.signed
  /\ tx # None => Len(tx.saved) = tx.real
  /\ tx # None /\ ~is_rct_borromean(tx.signed.type) =>
       LET proofs == tx.signed.bulletproofs
           amounts == Len(Committed(proofs))
       IN  /\ AllAmounts(n_bulletproof_amounts, proofs) = amounts
           /\ AllAmounts(n_bulletproof_max_amounts, proofs) \in amounts .. 2 * amounts

(* BatchIsEach: a batch is accepted just when each of its proofs would be, *)
(* though one equation is checked for all of them: the weights keep a bad  *)
(* proof from being made up for by another.                                *)
BatchIsEach ==
  batch.verdict # None => batch.verdict = (batch.spoiled = {})

(* SumsAgree: every way to a sum of multiples, with any part of the points *)
(* cached and any size of bands and buckets, leads to the sum; the sums of *)
(* powers by squaring are the sums; an inverse times its scalar is one.    *)
SumsAgree ==
  sum # None =>
    /\ sum.straus \union sum.pippenger = {sum.expected}
    /\ \A n \in 0 .. 9 : vector_power_sum(sum.x, n) = AddedUp(vector_powers(sum.x, n), n)
    /\ \A n \in {2, 4, 8} :
         sum_of_even_powers(sum.x, n) = AddedUp([i \in 1 .. n \div 2 |-> Power(sum.x, 2 * i)], n \div 2)
    /\ \A n \in {1, 2, 4, 8} : sum_of_scalar_powers(sum.x, n) = AddedUp([i \in 1 .. n |-> Power(sum.x, i)], n)
    /\ \A i \in 1 .. Len(sum.inverses) : sc_mul(sum.inverses[i], sum.scalars[i]) = 1
=============================================================================
