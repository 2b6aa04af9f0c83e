-------------------------- MODULE TxConstructProps --------------------------
(***************************************************************************)
(* What a constructed transaction must be for the wallets that read it and *)
(* for the node that verifies it.                                          *)
(***************************************************************************)
EXTENDS TxConstruct

-----------------------------------------------------------------------------
(* Reading a transaction.  The scanner is not in this repository; it calls *)
(* the functions of OutputOwnership with the keys of the extra, which is   *)
(* how generate_key_image_helper calls them too.                           *)
Account(w) == [wallet |-> w, kind |-> "full", subaddresses |-> Minor]

ReadPubKey     == get_tx_pub_key_from_extra(tx.extra, 1, null_pkey)
ReadAdditional == get_additional_tx_pub_keys_from_extra(tx.extra)
ReadKeys       == [shared |-> ReadPubKey, additional |-> ReadAdditional]

Scan(w, i, read) ==
  is_out_to_acc_precomp(Account(w), tx.vout[i].key,
    SharedDerivation(Account(w), read.shared),
    AdditionalDerivations(Account(w), read.additional), i, tx.vout[i].view_tag)

(* The amount the finder of output i reads: in the clear in version 1,     *)
(* under the amount key in version 2, where any other key yields noise.    *)
ReadAmount(i, derivation) ==
  IF req.version = 1 THEN <<tx.vout[i].amount>>
  ELSE IF tx.rct.ecdh[i].key = derivation_to_scalar(derivation, i)
       THEN <<tx.rct.ecdh[i].amount>>
       ELSE << >>

(* Every credit the wallets read off the transaction: who finds which      *)
(* output, and what the scanner says of it.                                *)
Scanned ==
  {<<w, i, Scan(w, i, read)>> : w \in Wallet, i \in DOMAIN tx.vout, read \in {ReadKeys}}
Credits == {c \in Scanned : c[3].found}
Credit(c) ==
  [wallet |-> c[1], index |-> c[3].index, amount |-> ReadAmount(c[2], c[3].derivation)]

(* How often each payment is among the credits. *)
Received ==
  LET read == {<<c, Credit(c)>> : c \in Credits}
  IN  [x \in {r[2] : r \in read} |-> Cardinality({r \in read : r[2] = x})]

-----------------------------------------------------------------------------
(* Every output made so far can be found by the owner of the address it    *)
(* was made for: the owner derives the same key from a key the transaction *)
(* publishes, the shared one or the additional one at the output's index.  *)
(* The destinations must be addresses of wallets, with the flag they were  *)
(* parsed with, and the change must go to the sender.                      *)
Names(d, w, n) ==
  d.addr = get_subaddress(w, n) /\ (d.is_subaddress <=> n # 0)
GenuineDestinations ==
  \A i \in DOMAIN destinations :
    \E w \in Wallet, n \in Minor :
      /\ Names(destinations[i], w, n)
      /\ destinations[i].addr = req.change => w = req.sender.wallet
Published(i) ==
  {txkey_pub} \cup
    (IF need_additional_txkeys(destinations, req.change)
     THEN {keys.additional[i]} ELSE {})
FoundBy(i, w, n) ==
  \E K \in Published(i) :
    tx.vout[i].key =
      derive_public_key(generate_key_derivation(K, view_secret(w)), i,
                        get_subaddress_spend_public_key(w, n))

OutputsReachOwners ==
  GenuineDestinations =>
    \A i \in DOMAIN tx.vout, w \in Wallet, n \in Minor :
      Names(destinations[i], w, n) => FoundBy(i, w, n)

(* The two scanners agree on a finished transaction: is_out_to_acc, which  *)
(* knows the main address alone and derives one additional key, and        *)
(* is_out_to_acc_precomp with only that address in its table.              *)
MainOnly(w) == [Account(w) EXCEPT !.subaddresses = {0}]
ScannersAgree ==
  result = "true" =>
    \A w \in Wallet, i \in DOMAIN tx.vout :
      is_out_to_acc(Account(w), tx.vout[i].key, ReadPubKey, ReadAdditional, i,
                    tx.vout[i].view_tag)
      <=> is_out_to_acc_precomp(MainOnly(w), tx.vout[i].key,
            SharedDerivation(Account(w), ReadPubKey),
            AdditionalDerivations(Account(w), ReadAdditional), i,
            tx.vout[i].view_tag).found

-----------------------------------------------------------------------------
(* The order a request stands for. *)
OwnedBy(a, w, n) == a = get_subaddress(w, n)
Ordered(d) ==
  CHOOSE p \in [wallet : Wallet, index : Minor, amount : {<<d.amount>>}] :
    OwnedBy(d.addr, p.wallet, p.index)
Order(r) == [i \in DOMAIN r.destinations |-> Ordered(r.destinations[i])]

Promise == INSTANCE Payment WITH
  Orders   <- {Order(r) : r \in Requests},
  order    <- Order(req),
  status   <- CASE result = "none" -> "pending"
                [] result = "true" -> "made"
                [] OTHER -> "refused",
  received <- IF result = "true" THEN Received ELSE << >>

(* Construction implements the promise: what the wallets read off the      *)
(* finished transaction is exactly the order, however the outputs were     *)
(* shuffled and whichever of the three key schemes was used; and the call  *)
(* answers.                                                                *)
PaymentPromise == Promise!Spec

-----------------------------------------------------------------------------
(* The ring an input names: its offsets made absolute, looked up among the *)
(* outputs that exist, the members of all rings among them.  The callers'  *)
(* rings are taken from one chain: an index names one output.              *)
RingMembers(r) ==
  UNION {{src.outputs[n] : n \in DOMAIN src.outputs} :
            src \in {r.sources[k] : k \in DOMAIN r.sources}}
OutputsOnChain == RingMembers(req)

ASSUME OneChainAssumption ==
  \A r \in Requests : \A o, p \in RingMembers(r) : o.index = p.index => o.dest = p.dest

ResolvedRing(input) ==
  LET at == relative_output_offsets_to_absolute(input.key_offsets)
  IN  [n \in DOMAIN at |-> (CHOOSE o \in OutputsOnChain : o.index = at[n]).dest]

Ascending(src) ==
  \A m, n \in DOMAIN src.outputs : m < n => src.outputs[m].index < src.outputs[n].index

(* A verifier accepts every signature of a finished transaction: it signs  *)
(* what is sent, over the ring the input's offsets name, and with the      *)
(* secret of the member that the key image belongs to.  For sources whose  *)
(* outputs are in ascending order, as the comment in                       *)
(* absolute_output_offsets_to_relative takes for granted.                  *)
SignaturesVerify ==
  (/\ result = "true"
   /\ req.sender.kind = "full"
   /\ \A k \in DOMAIN sources : Ascending(sources[k])) =>
     \A i \in DOMAIN tx.vin :
       \E sig \in {tx.signatures[i][1]} :
         /\ sig.prefix = Prefix(tx)
         /\ sig.ring = ResolvedRing(tx.vin[i])
         /\ sig.ring[sig.real] = secret_key_to_public_key(sig.sec)
         /\ tx.vin[i].k_image = generate_key_image(sig.ring[sig.real], sig.sec)

(* From the moment an input is made, and through the sort by key image,    *)
(* the three vectors talk about the same source at every index.            *)
InputsAligned ==
  /\ Len(in_contexts) = Len(tx.vin)
  /\ Len(tx.vin) <= Len(sources)
  /\ \A i \in DOMAIN tx.vin :
       /\ in_contexts[i].pub = sources[i].outputs[sources[i].real_output].dest
       /\ tx.vin[i].k_image =
            generate_key_image(in_contexts[i].pub, in_contexts[i].sec)

-----------------------------------------------------------------------------
(* The extra of a finished transaction decodes, holds this transaction's   *)
(* public key and no other, one key for each output exactly when the       *)
(* scheme needs them, stands in the order of the sort, and still holds     *)
(* everything else the caller put in.                                      *)
ExtraCanonical ==
  result = "true" =>
    /\ parse_tx_extra(tx.extra)
    /\ OfType(tx.extra, "pub_key") = <<[type |-> "pub_key", key |-> txkey_pub]>>
    /\ Len(ReadAdditional) = IF need_additional_txkeys(destinations, req.change)
                             THEN Len(tx.vout) ELSE 0
    /\ sort_tx_extra(tx.extra) = tx.extra
    /\ \A t \in {"merge_mining_tag", "minergate", "padding"} :
         OfType(tx.extra, t) = OfType(req.extra, t)

(* The payment id of a finished transaction, with the recipient's pad      *)
(* taken off, is the id the caller gave; a dummy one is the null id.  The  *)
(* recipient is the one address paid, the change address if none other is. *)
(* Left out (see the README) are a second address that is sent nothing and *)
(* a change address that is paid alone and is a subaddress: the owner of   *)
(* the latter cannot make the derivation the id is encrypted under.        *)
IdsIn(extra) ==
  {f \in {extra[i] : i \in DOMAIN extra} :
     f.type = "nonce" /\ f.nonce.kind = "encrypted"}
Recipients ==
  {r \in Wallet \X Minor :
     LET a == get_subaddress(r[1], r[2])
         paid == PaidAddresses(req.destinations, req.change)
     IN  paid = {a} \/ (paid = {} /\ req.change = a /\ r[2] = 0)}
EmptyPayments ==
  \E i \in DOMAIN req.destinations :
    req.destinations[i].amount = 0 /\ req.destinations[i].addr # req.change

PaymentIdReadable ==
  (result = "true" /\ parse_tx_extra(req.extra) /\ ~EmptyPayments) =>
    \A f \in IdsIn(tx.extra), r \in Recipients :
      encrypt_payment_id(f.nonce.id, ReadPubKey, view_secret(r[1])) \in
        [plain : IF IdsIn(req.extra) = {} THEN {"null"}
                 ELSE {g.nonce.id.plain : g \in IdsIn(req.extra)},
         pads  : {{}}]

-----------------------------------------------------------------------------
AmountIn(entries) ==
  LET sum[i \in 0 .. Len(entries)] ==
        IF i = 0 THEN 0 ELSE sum[i - 1] + entries[i].amount
  IN  sum[Len(entries)]
TotalIn(r)  == AmountIn(r.sources)
TotalOut(r) == AmountIn(r.destinations)

(* "the sum of inputs = sum of outputs" (rctSigs.cpp, on genRct): the fee  *)
(* of a finished transaction is what the inputs hold beyond the outputs,   *)
(* and they hold at least as much.  Sums past a word are not refused, so   *)
(* the caller has to keep them below it.                                   *)
MoneyConserved ==
  (/\ result = "true" /\ req.version = 2
   /\ TotalIn(req) < Modulus /\ TotalOut(req) < Modulus) =>
    TotalIn(req) = TotalOut(req) + tx.rct.fee

(* Every output of a finished transaction has a key that was derived for   *)
(* it: a failure in generate_output_ephemeral_keys, which its assertions   *)
(* report, leaves no transaction.                                          *)
OutputKeysDerived ==
  result = "true" => \A i \in DOMAIN tx.vout : tx.vout[i].key # UnwrittenKey

-----------------------------------------------------------------------------
(* A source that is the sender's: its key is derived from the shared key   *)
(* of its transaction, or from the additional key at its own index ("per-  *)
(* output additional tx pubkey", tx_extra.h).  An additional key that does *)
(* not decode would move those behind it.                                  *)
KeysFor(src) ==
  {src.real_out_tx_key} \cup
    {src.real_out_additional_tx_keys[n] : n \in
       {src.real_output_in_tx_index} \cap DOMAIN src.real_out_additional_tx_keys}
Owned(src, acc) ==
  /\ src.real_output \in DOMAIN src.outputs
  /\ \A n \in DOMAIN src.real_out_additional_tx_keys :
       check_key(src.real_out_additional_tx_keys[n])
  /\ \E R \in KeysFor(src), n \in acc.subaddresses :
       /\ check_key(R)
       /\ src.outputs[src.real_output].dest =
            derive_public_key(generate_key_derivation(R, view_secret(acc.wallet)),
              src.real_output_in_tx_index,
              get_subaddress_spend_public_key(acc.wallet, n))

(* What the configuration of a version 2 call promises to sign and prove:  *)
(* a version of bulletproofs there is, as many outputs as one padded proof *)
(* takes, and rings of one only where CLSAG signs them.                    *)
Provable(r) ==
  LET config == r.rct_config IN
  /\ config.range_proof_type # "Borromean" => config.bp_version \in 0 .. 4
  /\ config.range_proof_type = "PaddedBulletproof" =>
       Len(r.destinations) \in 1 .. BULLETPROOF_MAX_OUTPUTS
  /\ \/ is_rct_clsag(config)
     \/ \A k \in DOMAIN r.sources : Len(r.sources[k].outputs) >= 2

(* A request nothing is wrong with: the sources are the sender's and hold  *)
(* enough, the destinations are addresses, flagged as they were parsed,    *)
(* and are sent something, the extra decodes with no padding, a payment id *)
(* has one recipient to be encrypted for, whose key decodes, no additional *)
(* keys are left over from another call, and in version 2 rings and number *)
(* of outputs are those the configuration can sign and prove.              *)
WellFormed(r) ==
  /\ r.sources # << >>
  /\ \A k \in DOMAIN r.sources : Owned(r.sources[k], r.sender)
  /\ TotalOut(r) <= TotalIn(r) /\ TotalIn(r) < Modulus
  /\ \A i \in DOMAIN r.destinations :
       /\ r.destinations[i].amount > 0
       /\ \E w \in Wallet, n \in Minor : Names(r.destinations[i], w, n)
  /\ parse_tx_extra(r.extra) /\ OfType(r.extra, "padding") = << >>
  /\ IdsIn(r.extra) # {} =>
       /\ get_destination_view_key_pub(r.destinations, r.change) # null_pkey
       /\ check_key(get_destination_view_key_pub(r.destinations, r.change))
  /\ Len(r.additional_tx_keys) =
       IF r.direct /\ need_additional_txkeys(r.destinations, r.change)
       THEN Len(r.destinations) ELSE 0
  /\ r.version = 2 => Provable(r)

(* A call that nothing is wrong with succeeds: no step of construction,    *)
(* and nothing genRct and genRctSimple check, refuses it.                  *)
WellFormedSucceeds == (pc = "done" /\ WellFormed(req)) => result = "true"
=============================================================================
