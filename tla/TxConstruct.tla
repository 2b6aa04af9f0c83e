----------------------------- MODULE TxConstruct -----------------------------
(***************************************************************************)
(* The construction of a transaction: construct_tx_and_get_tx_key and      *)
(* construct_tx_with_tx_key, one action per step that can return or throw. *)
(*                                                                         *)
(* A request is what the caller passes: the sender's account, the sources  *)
(* and destinations, the change address, the extra, and the flags.  Inside *)
(* "direct" requests the caller calls construct_tx_with_tx_key itself and  *)
(* brings the keys; otherwise construct_tx_and_get_tx_key opens a          *)
(* transaction on the device, makes the keys, and closes the transaction   *)
(* on every way out.                                                       *)
(***************************************************************************)
EXTENDS TxExtra, OutputOwnership, Integers, FiniteSets

CONSTANTS
  Requests,     \* the calls the environment makes
  Modulus       \* amounts are unsigned integers modulo this (2^64)

ASSUME ModulusAssumption == Modulus \in Nat \ {0}

VARIABLES
  req,                  \* the request being served
  pc,                   \* the step the call is at
  result,               \* what the call answers: "none" until it does
  device,               \* whether the device has a transaction open
  sources, destinations,\* the caller's vectors, reordered in place
  additional_tx_keys,   \* the caller's vector, refilled when keys are needed
  tx,                   \* the transaction: extra, vin, vout, signatures, rct
  in_contexts,          \* one-time key pairs of the inputs
  txkey_pub,            \* the transaction public key
  keys,                 \* additional_tx_public_keys and amount_keys
  money                 \* summary_inputs_money and summary_outs_money

vars == <<req, pc, result, device, sources, destinations, additional_tx_keys,
          tx, in_contexts, txkey_pub, keys, money>>

(* The keys of this transaction; secrets the caller left in                *)
(* additional_tx_keys are others.                                          *)
tx_key == <<"tx", 0>>
FreshKeys_OneShort(n) == [i \in 1 .. n - 1 |-> <<"tx", i>>]
FreshKeys(n) == [i \in 1 .. n |-> <<"tx", i>>]

(* Addition of unsigned amounts. *)
Plus_NoWrap(x, y) == x + y
Plus(x, y) == (x + y) % Modulus

NoAddress == [view |-> null_pkey, spend |-> null_pkey]

-----------------------------------------------------------------------------
(* classify_addresses: the first destination of each address other than    *)
(* the change address counts, by its own is_subaddress flag.               *)
FirstUses_ChangeCounted(dests, change) ==
  {i \in DOMAIN dests : \A j \in 1 .. i - 1 : dests[j].addr # dests[i].addr}
FirstUses(dests, change) ==
  {i \in DOMAIN dests :
     /\ dests[i].addr # change
     /\ \A j \in 1 .. i - 1 : dests[j].addr # dests[i].addr}
SubaddressUses(dests, change) ==
  {i \in FirstUses(dests, change) : dests[i].is_subaddress}
num_subaddresses(dests, change) == Cardinality(SubaddressUses(dests, change))
num_stdaddresses(dests, change) ==
  Cardinality(FirstUses(dests, change) \ SubaddressUses(dests, change))
single_dest_subaddress(dests, change) ==
  dests[CHOOSE i \in SubaddressUses(dests, change) :
          \A j \in SubaddressUses(dests, change) : j <= i].addr

SingleSubaddress_StandardForgotten(dests, change) ==
  num_subaddresses(dests, change) = 1
SingleSubaddress(dests, change) ==
  /\ num_stdaddresses(dests, change) = 0
  /\ num_subaddresses(dests, change) = 1
need_additional_txkeys_StandardForgotten(dests, change) ==
  num_subaddresses(dests, change) > 1
need_additional_txkeys(dests, change) ==
  /\ num_subaddresses(dests, change) > 0
  /\ num_stdaddresses(dests, change) > 0 \/ num_subaddresses(dests, change) > 1

(* get_destination_view_key_pub: the view key of the one address that is   *)
(* paid, the change address if no other is, null if several are.           *)
PaidAddresses(dests, change) ==
  {dests[i].addr : i \in {j \in DOMAIN dests : /\ dests[j].amount # 0
                                               /\ dests[j].addr # change
                                               /\ dests[j].addr # NoAddress}}
get_destination_view_key_pub(dests, change) ==
  LET paid == PaidAddresses(dests, change)
  IN  IF paid = {} THEN change.view
      ELSE IF \E a \in paid : paid = {a}
           THEN (CHOOSE a \in paid : TRUE).view
           ELSE null_pkey

(* encrypt_payment_id xors the id with a hash of the derivation: the pads  *)
(* on an id are a set, and a pad applied twice is gone.  It fails, leaving *)
(* the id alone, if the derivation does.                                   *)
NullPaymentId == [plain |-> "null", pads |-> {}]
Xor(id, pad) ==
  [plain |-> id.plain,
   pads  |-> IF pad \in id.pads THEN id.pads \ {pad} ELSE id.pads \cup {pad}]
encrypt_payment_id(id, public_key, secret_key) ==
  IF DerivationFails(public_key)
  THEN id
  ELSE Xor(id, generate_key_derivation(public_key, secret_key))

Permutation(n) ==
  {p \in [1 .. n -> 1 .. n] : \A i, j \in 1 .. n : p[i] = p[j] => i = j}
Permuted(s, p) == [i \in DOMAIN s |-> s[p[i]]]

(* absolute_output_offsets_to_relative sorts, then takes differences: a    *)
(* set with the one sequence it returns, stated by what sorting promises.  *)
(* relative_output_offsets_to_absolute adds the differences up again.      *)
Sorted(off) ==
  {res \in {Permuted(off, p) : p \in Permutation(Len(off))} :
     \A m, n \in DOMAIN res : m < n => res[m] <= res[n]}
absolute_output_offsets_to_relative(off) ==
  {[i \in DOMAIN res |-> IF i = 1 THEN res[1] ELSE res[i] - res[i - 1]] :
     res \in Sorted(off)}
relative_output_offsets_to_absolute(off) ==
  LET sum[i \in DOMAIN off] == IF i = 1 THEN off[1] ELSE off[i] + sum[i - 1]
  IN  [i \in DOMAIN off |-> sum[i]]

-----------------------------------------------------------------------------
(* Types. *)
PaymentId == [plain : {"null"} \cup STRING, pads : SUBSET Point]
Field ==
  [type : {"merge_mining_tag", "minergate", "padding", "junk"}]
    \cup [type : {"pub_key"}, key : Point]
    \cup [type : {"additional_pub_keys"}, keys : Seq(Point)]
    \cup [type : {"nonce"},
          nonce : [kind : {"plain", "encrypted", "other"}, id : PaymentId]]
Amount == 0 .. Modulus - 1
RingMember == [index : Nat, dest : OneTimeKey]
SourceEntry ==
  [outputs : Seq(RingMember), real_output : Nat \ {0}, real_out_tx_key : Point,
   real_out_additional_tx_keys : Seq(Point),
   real_output_in_tx_index : Nat \ {0}, amount : Amount, rct : BOOLEAN]
DestinationEntry ==
  [addr : Address, amount : Amount, is_subaddress : BOOLEAN]
RCTConfig ==
  [range_proof_type : {"Borromean", "Bulletproof", "MultiOutputBulletproof",
                       "PaddedBulletproof"},
   bp_version : Int]
Request ==
  [direct : BOOLEAN, sender : AccountKeys, sources : Seq(SourceEntry),
   destinations : Seq(DestinationEntry), change : Address,
   extra : Seq(Field), additional_tx_keys : Seq(Secret), version : 1 .. 2,
   rct_config : RCTConfig, use_view_tags : BOOLEAN, shuffle_outs : BOOLEAN]

ASSUME RequestsAssumption == Requests \subseteq Request

-----------------------------------------------------------------------------
EmptyTx == [extra |-> << >>, vin |-> << >>, vout |-> << >>,
            signatures |-> << >>, rct |-> << >>]

Init ==
  /\ req \in Requests
  /\ pc = IF req.direct THEN "extra" ELSE "open"
  /\ result = "none"
  /\ device = "closed"
  /\ sources = req.sources
  /\ destinations = req.destinations
  /\ additional_tx_keys = req.additional_tx_keys
  /\ tx = [EmptyTx EXCEPT !.extra = req.extra]
  /\ in_contexts = << >>
  /\ txkey_pub = null_pkey
  /\ keys = [additional |-> << >>, amount |-> << >>]
  /\ money = [ins |-> 0, outs |-> 0]

(* Leaving construct_tx_with_tx_key. *)
Return(answer) ==
  /\ result' = answer
  /\ pc' = IF req.direct THEN "done" ELSE "close"

(* Going on to the next step. *)
Goto(step) == pc' = step /\ result' = result

-----------------------------------------------------------------------------
(* construct_tx_and_get_tx_key up to its inner call. *)
OpenTx ==
  /\ pc = "open"
  /\ device' = "open"
  /\ additional_tx_keys' =
       IF need_additional_txkeys(destinations, req.change)
       THEN FreshKeys(Len(destinations))
       ELSE additional_tx_keys
  /\ Goto("extra")
  /\ UNCHANGED <<req, sources, destinations, tx, in_contexts, txkey_pub,
                 keys, money>>

(* The extra: a payment id that is to be encrypted, one that is not, a     *)
(* dummy one, or an extra that does not parse and is kept as it is.        *)
ExtraUnchanged ==
  UNCHANGED <<req, device, sources, destinations, additional_tx_keys,
              in_contexts, txkey_pub, keys, money>>

HasNonce == find_tx_extra_field_by_type(tx.extra, "nonce", 1)
Nonce    == tx_extra_field(tx.extra, "nonce", 1).nonce
ViewKey  == get_destination_view_key_pub(destinations, req.change)

EmptySources ==
  /\ pc = "extra"
  /\ sources = << >>
  /\ Return("false")
  /\ UNCHANGED tx
  /\ ExtraUnchanged

UnparsableExtra ==
  /\ pc = "extra"
  /\ sources # << >>
  /\ ~parse_tx_extra(tx.extra)
  /\ Goto("inputs")
  /\ UNCHANGED tx
  /\ ExtraUnchanged

EncryptPaymentId ==
  /\ pc = "extra"
  /\ sources # << >>
  /\ parse_tx_extra(tx.extra)
  /\ HasNonce /\ get_encrypted_payment_id_from_tx_extra_nonce(Nonce)
  /\ \/ /\ ViewKey = null_pkey \/ DerivationFails(ViewKey)
        /\ Return("false")
        /\ UNCHANGED tx
     \/ /\ ~(ViewKey = null_pkey \/ DerivationFails(ViewKey))
        /\ LET id == encrypt_payment_id(Nonce.id, ViewKey, tx_key)
               nonce == set_encrypted_payment_id_to_tx_extra_nonce(id)
           IN  tx' = [tx EXCEPT !.extra =
                 add_extra_nonce_to_tx_extra(
                   remove_field_from_tx_extra(@, "nonce"), nonce)]
        /\ Goto("inputs")
  /\ ExtraUnchanged

(* A dummy id goes in unless there is an id in the clear or more than the  *)
(* usual destination and change; failing to make one is tolerated.         *)
WantsDummy ==
  /\ ~(HasNonce /\ get_payment_id_from_tx_extra_nonce(Nonce))
  /\ Len(destinations) <= 2

DummyPaymentId ==
  /\ pc = "extra"
  /\ sources # << >>
  /\ parse_tx_extra(tx.extra)
  /\ ~(HasNonce /\ get_encrypted_payment_id_from_tx_extra_nonce(Nonce))
  /\ tx' = IF WantsDummy /\ ViewKey # null_pkey
           THEN LET id == encrypt_payment_id(NullPaymentId, ViewKey, tx_key)
                    nonce == set_encrypted_payment_id_to_tx_extra_nonce(id)
                IN  [tx EXCEPT !.extra = add_extra_nonce_to_tx_extra(@, nonce)]
           ELSE tx
  /\ Goto("inputs")
  /\ ExtraUnchanged

-----------------------------------------------------------------------------
(* One source becomes one input. *)
AddInput ==
  /\ pc = "inputs"
  /\ Len(tx.vin) < Len(sources)
  /\ LET src == sources[Len(tx.vin) + 1]
         known == src.real_output <= Len(src.outputs)
         out_key == src.outputs[src.real_output].dest
         mine == key_image_helper_succeeds(req.sender, out_key,
                   src.real_out_tx_key, src.real_out_additional_tx_keys,
                   src.real_output_in_tx_index)
         made == generate_key_image_helper(req.sender, out_key,
                   src.real_out_tx_key, src.real_out_additional_tx_keys,
                   src.real_output_in_tx_index)
         offsets == [n \in DOMAIN src.outputs |-> src.outputs[n].index]
     IN  /\ money' = IF known
                     THEN [money EXCEPT !.ins = Plus(@, src.amount)]
                     ELSE money
         /\ \/ /\ known /\ mine /\ made.in_ephemeral.pub = out_key
               /\ in_contexts' = Append(in_contexts, made.in_ephemeral)
               /\ \E relative \in absolute_output_offsets_to_relative(offsets) :
                    tx' = [tx EXCEPT !.vin = Append(@,
                      [amount |-> src.amount, k_image |-> made.k_image,
                       key_offsets |-> relative])]
               /\ Goto("inputs")
            \/ /\ ~(known /\ mine /\ made.in_ephemeral.pub = out_key)
               /\ Return("false")
               /\ UNCHANGED <<tx, in_contexts>>
  /\ UNCHANGED <<req, device, sources, destinations, additional_tx_keys,
                 txkey_pub, keys>>

(* The destinations are shuffled if the caller asks for it. *)
ShuffleDestinations ==
  /\ pc = "inputs"
  /\ Len(tx.vin) = Len(sources)
  /\ IF req.shuffle_outs
     THEN \E p \in Permutation(Len(destinations)) :
            destinations' = Permuted(destinations, p)
     ELSE destinations' = destinations
  /\ Goto("sort")
  /\ UNCHANGED <<req, device, sources, additional_tx_keys, tx, in_contexts,
                 txkey_pub, keys, money>>

(* The inputs are sorted by key image.  A key image is a hash: its order   *)
(* among the others is any order.  One permutation moves all three vectors.*)
SortInputs_ContextsStay ==
  /\ pc = "sort"
  /\ \E p \in Permutation(Len(sources)) :
       /\ sources' = Permuted(sources, p)
       /\ tx' = [tx EXCEPT !.vin = Permuted(@, p)]
  /\ Goto("pubkey")
  /\ UNCHANGED <<req, device, destinations, additional_tx_keys, in_contexts,
                 txkey_pub, keys, money>>
SortInputs ==
  /\ pc = "sort"
  /\ \E p \in Permutation(Len(sources)) :
       /\ sources' = Permuted(sources, p)
       /\ in_contexts' = Permuted(in_contexts, p)
       /\ tx' = [tx EXCEPT !.vin = Permuted(@, p)]
  /\ Goto("pubkey")
  /\ UNCHANGED <<req, device, destinations, additional_tx_keys, txkey_pub,
                 keys, money>>

-----------------------------------------------------------------------------
(* R = s*D for one subaddress, s*G otherwise.  Multiplying a point that    *)
(* does not decode throws.                                                 *)
SetTxPubKey ==
  /\ pc = "pubkey"
  /\ LET single == SingleSubaddress(destinations, req.change)
         D == single_dest_subaddress(destinations, req.change).spend
         R == IF single THEN scalarmultKey(D, tx_key) ELSE scalarmultBase(tx_key)
     IN  IF single /\ ~check_key(D)
         THEN Return("throw") /\ UNCHANGED <<tx, txkey_pub>>
         ELSE /\ txkey_pub' = R
              /\ tx' = [tx EXCEPT !.extra = add_tx_pub_key_to_extra(
                          remove_field_from_tx_extra(@, "pub_key"), R)]
              /\ IF need_additional_txkeys(destinations, req.change)
                       /\ Len(destinations) # Len(additional_tx_keys)
                 THEN Return("false")
                 ELSE Goto("outputs")
  /\ UNCHANGED <<req, device, sources, destinations, additional_tx_keys,
                 in_contexts, keys, money>>

(* The output key and view tag are declared in the loop and not            *)
(* initialised: before they are written they hold bytes no derivation      *)
(* makes, or still those of the output before.                             *)
Uninitialised ==
  {[key |-> UnwrittenKey, view_tag |-> derive_view_tag(BadPoint, 0)]} \cup
    {[key |-> tx.vout[n].key, view_tag |-> tx.vout[n].view_tag] :
       n \in {Len(tx.vout)} \cap DOMAIN tx.vout}

(* generate_output_ephemeral_keys for destination d at index i: what it    *)
(* appends to additional_tx_public_keys and amount_keys, and the key and   *)
(* view tag it leaves behind.  Its answer is not looked at by the caller:  *)
(* when a derivation fails it appends nothing and writes nothing, when the *)
(* spend key does not decode the appends have happened and the key is      *)
(* unwritten.                                                              *)
OutputKeys(d, i, need, before) ==
  LET extra_key == additional_tx_keys[i]
      is_change == d.addr = req.change
      from == IF is_change THEN txkey_pub ELSE d.addr.view
      secret == IF is_change THEN view_secret(req.sender.wallet)
                ELSE IF d.is_subaddress /\ need THEN extra_key ELSE tx_key
      derivation == generate_key_derivation(from, secret)
      derived == ~DerivationFails(from)
  IN  [additional |->
         IF need /\ derived
         THEN <<IF d.is_subaddress THEN scalarmultKey(d.addr.spend, extra_key)
                                   ELSE scalarmultBase(extra_key)>>
         ELSE << >>,
       amount |-> IF derived /\ req.version > 1
                  THEN <<derivation_to_scalar(derivation, i)>> ELSE << >>,
       key |-> IF derived /\ check_key(d.addr.spend)
               THEN derive_public_key(derivation, i, d.addr.spend)
               ELSE before.key,
       view_tag |-> IF ~req.use_view_tags THEN NoTag
                    ELSE IF derived THEN derive_view_tag(derivation, i)
                    ELSE before.view_tag]

(* One destination becomes one output. *)
AddOutput ==
  /\ pc = "outputs"
  /\ Len(tx.vout) < Len(destinations)
  /\ LET i == Len(tx.vout) + 1
         d == destinations[i]
         need == need_additional_txkeys(destinations, req.change)
     IN  IF d.amount = 0 /\ req.version = 1
         THEN Return("false") /\ UNCHANGED <<tx, keys, money>>
         ELSE IF need /\ d.is_subaddress /\ ~check_key(d.addr.spend)
         THEN Return("throw") /\ UNCHANGED <<tx, keys, money>>
         ELSE /\ \E before \in Uninitialised :
                   LET made == OutputKeys(d, i, need, before)
                   IN  /\ keys' = [additional |-> keys.additional \o made.additional,
                                   amount |-> keys.amount \o made.amount]
                       /\ tx' = [tx EXCEPT !.vout = Append(@,
                            [amount |-> d.amount, key |-> made.key,
                             view_tag |-> made.view_tag])]
              /\ money' = [money EXCEPT !.outs = Plus(@, d.amount)]
              /\ Goto("outputs")
  /\ UNCHANGED <<req, device, sources, destinations, additional_tx_keys,
                 in_contexts, txkey_pub>>

(* The additional keys replace any that were in the extra, and the extra   *)
(* is sorted.                                                              *)
FinishExtra ==
  /\ pc = "outputs"
  /\ Len(tx.vout) = Len(destinations)
  /\ LET cleared == remove_field_from_tx_extra(tx.extra, "additional_pub_keys")
         full == IF need_additional_txkeys(destinations, req.change)
                 THEN add_additional_tx_pub_keys_to_extra(cleared, keys.additional)
                 ELSE cleared
     IN  IF Len(keys.additional) # Len(additional_tx_keys)
         THEN Return("false") /\ UNCHANGED tx
         ELSE IF ~sort_succeeds(full, FALSE)
         THEN Return("false") /\ tx' = [tx EXCEPT !.extra = full]
         ELSE Goto("money") /\ tx' = [tx EXCEPT !.extra = sort_tx_extra(full)]
  /\ UNCHANGED <<req, device, sources, destinations, additional_tx_keys,
                 in_contexts, txkey_pub, keys, money>>

CheckMoney_Skipped ==
  /\ pc = "money"
  /\ Goto("sign")
  /\ UNCHANGED <<req, device, sources, destinations, additional_tx_keys, tx,
                 in_contexts, txkey_pub, keys, money>>
CheckMoney ==
  /\ pc = "money"
  /\ IF money.outs > money.ins THEN Return("false") ELSE Goto("sign")
  /\ UNCHANGED <<req, device, sources, destinations, additional_tx_keys, tx,
                 in_contexts, txkey_pub, keys, money>>

-----------------------------------------------------------------------------
(* The signature of input i: over the ring of its source, at the real      *)
(* output, with the one-time secret of its context, for the inputs and     *)
(* outputs the prefix has.                                                 *)
Prefix(t) == [vin |-> t.vin, vout |-> t.vout, extra |-> t.extra]
RingSignature_FirstIndex(i, prefix) ==
  [ring   |-> [n \in DOMAIN sources[i].outputs |-> sources[i].outputs[n].dest],
   real   |-> sources[1].real_output,
   sec    |-> in_contexts[i].sec,
   prefix |-> prefix]
RingSignature(i, prefix) ==
  [ring   |-> [n \in DOMAIN sources[i].outputs |-> sources[i].outputs[n].dest],
   real   |-> sources[i].real_output,
   sec    |-> in_contexts[i].sec,
   prefix |-> prefix]

(* Version 1: a ring signature per input, left blank by an account with no *)
(* spend secret.                                                           *)
SignV1 ==
  /\ pc = "sign"
  /\ req.version = 1
  /\ tx' = [tx EXCEPT !.signatures =
              [i \in DOMAIN sources |->
                 IF req.sender.kind = "watch" THEN << >>
                 ELSE <<RingSignature(i, Prefix(tx))>>]]
  /\ Return("true")
  /\ UNCHANGED <<req, device, sources, destinations, additional_tx_keys,
                 in_contexts, txkey_pub, keys, money>>

(* What genRct and genRctSimple throw on, and what they call.  One source  *)
(* with Borromean range proofs is signed by genRct, anything else by       *)
(* genRctSimple: with CLSAG for the versions of bulletproofs that have it, *)
(* with MLSAG for the others.                                              *)
BULLETPROOF_MAX_OUTPUTS == 16

is_rct_clsag(config) ==
  config.range_proof_type # "Borromean" /\ config.bp_version \in {0, 3, 4}

(* "Different number of amount_keys/destinations" *)
AmountKeysMissing == Len(keys.amount) # Len(tx.vout)

(* "Unsupported BP version" *)
UnsupportedVersion(config) ==
  config.range_proof_type # "Borromean" /\ config.bp_version \notin 0 .. 4

(* "sv is empty", "sv/gamma are too large": a padded proof is one proof of *)
(* all the outputs; proofs of one or of several each take what fits.       *)
NoPaddedProof_Batches(config, n) ==
  config.range_proof_type \in {"MultiOutputBulletproof", "PaddedBulletproof"}
    /\ n \notin 1 .. BULLETPROOF_MAX_OUTPUTS
NoPaddedProof(config, n) ==
  config.range_proof_type = "PaddedBulletproof" /\ n \notin 1 .. BULLETPROOF_MAX_OUTPUTS

(* "Error! What is c if cols = 1!" *)
RingTooSmall(config) ==
  ~is_rct_clsag(config) /\ \E i \in DOMAIN sources : Len(sources[i].outputs) < 2

genRctThrows ==
  \/ AmountKeysMissing
  \/ UnsupportedVersion(req.rct_config)
  \/ NoPaddedProof(req.rct_config, Len(tx.vout))
  \/ RingTooSmall(req.rct_config)

(* Version 2: the amounts leave the prefix before it is hashed, and go     *)
(* encrypted with the amount keys beside the signatures.                   *)
Masked(t) ==
  [t EXCEPT !.vin = [i \in DOMAIN t.vin |->
                       [t.vin[i] EXCEPT !.amount =
                          IF sources[i].rct THEN 0 ELSE @]],
            !.vout = [i \in DOMAIN t.vout |-> [t.vout[i] EXCEPT !.amount = 0]]]

SignV2 ==
  /\ pc = "sign"
  /\ req.version = 2
  /\ IF genRctThrows
     THEN Return("throw") /\ tx' = Masked(tx)
     ELSE /\ tx' = [Masked(tx) EXCEPT
               !.signatures = [i \in DOMAIN sources |->
                                 <<RingSignature(i, Prefix(Masked(tx)))>>],
               !.rct = [ecdh |-> [i \in DOMAIN tx.vout |->
                                    [amount |-> tx.vout[i].amount,
                                     key |-> keys.amount[i]]],
                        fee |-> (money.ins - money.outs) % Modulus]]
          /\ Return("true")
  /\ UNCHANGED <<req, device, sources, destinations, additional_tx_keys,
                 in_contexts, txkey_pub, keys, money>>

(* Every way out of construct_tx_and_get_tx_key closes the transaction. *)
CloseTx ==
  /\ pc = "close"
  /\ device' = "closed"
  /\ pc' = "done"
  /\ UNCHANGED <<req, result, sources, destinations, additional_tx_keys, tx,
                 in_contexts, txkey_pub, keys, money>>

Done == pc = "done" /\ UNCHANGED vars

Next ==
  \/ OpenTx
  \/ EmptySources \/ UnparsableExtra \/ EncryptPaymentId \/ DummyPaymentId
  \/ AddInput \/ ShuffleDestinations \/ SortInputs
  \/ SetTxPubKey \/ AddOutput \/ FinishExtra \/ CheckMoney
  \/ SignV1 \/ SignV2
  \/ CloseTx
  \/ Done

(* Every variable has its type, and the amounts that are added up stay     *)
(* within a word.  The fields of the extra are the subject of              *)
(* ExtraCanonical, the signatures that of SignaturesVerify.                *)
TypeOK ==
  /\ req \in Requests
  /\ pc \in {"open", "extra", "inputs", "sort", "pubkey", "outputs", "money",
             "sign", "close", "done"}
  /\ result \in {"none", "true", "false", "throw"}
  /\ device \in {"open", "closed"}
  /\ sources \in Seq(SourceEntry)
  /\ destinations \in Seq(DestinationEntry)
  /\ additional_tx_keys \in Seq(Secret)
  /\ in_contexts \in Seq([pub : OneTimeKey, sec : OneTimeSecretKey])
  /\ txkey_pub \in Point
  /\ keys \in [additional : Seq(Point), amount : Seq(Point \X Nat)]
  /\ money \in [ins : Amount, outs : Amount]
  /\ DOMAIN tx = {"extra", "vin", "vout", "signatures", "rct"}
  /\ tx.vin \in Seq([amount : Amount, k_image : KeyImage, key_offsets : Seq(Int)])
  /\ tx.vout \in Seq([amount : Amount, key : OneTimeKey,
                      view_tag : {NoTag} \cup (Point \X Nat)])

(* The call is one thread running to its end. *)
Spec == Init /\ [][Next]_vars /\ WF_vars(Next)
=============================================================================
