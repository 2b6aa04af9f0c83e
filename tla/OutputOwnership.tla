--------------------------- MODULE OutputOwnership ---------------------------
(***************************************************************************)
(* Which outputs of a transaction belong to an account, and the secret and *)
(* key image of an output that does, over symbolic keys.                   *)
(*                                                                         *)
(* A point is a base point multiplied by a set of secret scalars: a*(r*G)  *)
(* and r*(a*G) are the same record, which is the one law of the group that *)
(* stealth addresses rely on.  Points built from different secrets or on   *)
(* different bases are different, i.e. hashes and discrete logarithms      *)
(* never coincide by accident.  The cofactor 8 that every derivation       *)
(* multiplies by is the same on both sides and is left out.                *)
(*                                                                         *)
(* Indices of the code that count from 0 count from 1 here.                *)
(*                                                                         *)
(* An account is [wallet, kind, subaddresses]: whose keys it has; whether  *)
(* it has the full spend secret ("full"), a multisig share of it           *)
(* ("multisig") or none ("watch"); and the indices of the subaddresses in  *)
(* its lookup table.                                                       *)
(***************************************************************************)
EXTENDS Naturals, Sequences

CONSTANTS
  Wallet,       \* owners of addresses
  Minor,        \* subaddress indices; 0 is the main address
  OtherSecret   \* secrets of transactions made elsewhere

ASSUME MainAddressAssumption == 0 \in Minor

(* Secret scalars. *)
view_secret(w) == <<"view", w>>

(* Points. *)
Identity == [mult |-> {}, base |-> <<"identity">>]
BadPoint == [mult |-> {}, base |-> <<"bad">>]
null_pkey == [mult |-> {}, base |-> <<"null">>]
G        == [mult |-> {}, base |-> <<"G">>]

(* crypto::check_key: ge_frombytes_vartime accepts the encoding. *)
check_key(P) == P.base # <<"bad">>

scalarmultKey(P, k) == [mult |-> P.mult \cup {k}, base |-> P.base]
scalarmultBase(k)   == scalarmultKey(G, k)

(* The spend public key of a subaddress, D = B + Hs(a, n)*G, is opaque: no *)
(* one but the owner relates it to B.  Index 0 is B itself.                *)
get_subaddress_spend_public_key(w, n) ==
  [mult |-> {}, base |-> <<"spend", w, n>>]

(* The address of wallet w with index n: the main address is (a*G, B), a   *)
(* subaddress is (a*D, D).                                                 *)
get_subaddress(w, n) ==
  LET D == get_subaddress_spend_public_key(w, n)
  IN  [view  |-> scalarmultKey(IF n = 0 THEN G ELSE D, view_secret(w)),
       spend |-> D]

(* generate_key_derivation fails on a point that does not decode.          *)
DerivationFails(P) == ~check_key(P)
generate_key_derivation(P, k) == scalarmultKey(P, k)

(* One-time output keys: Hs(derivation, index)*G + spend.                  *)
derive_public_key(derivation, index, spend) ==
  [der |-> derivation, idx |-> index, spend |-> spend]

(* What an output key that was declared and never written holds: bytes     *)
(* that no derivation produces.                                            *)
UnwrittenKey == [der |-> BadPoint, idx |-> 0, spend |-> BadPoint]

(* out_key - Hs(derivation, index)*G is the spend key for the derivation   *)
(* and index the key was made with, an unrelated point for any other.      *)
derive_subaddress_public_key(out_key, derivation, index) ==
  IF out_key.der = derivation /\ out_key.idx = index
  THEN out_key.spend
  ELSE [mult |-> {}, base |-> <<"unrelated">>]

derivation_to_scalar(derivation, index) == <<derivation, index>>

(* The first byte of a hash of derivation and index.  Two of them may      *)
(* agree by accident, which costs the receiver one more full derivation    *)
(* and changes no answer; here they agree exactly when their arguments do. *)
derive_view_tag(derivation, index) == <<derivation, index>>

(* The one-time secret of an output: Hs(derivation, index) + the spend     *)
(* secret of w + (for a subaddress) Hs(a, n).  "share" tells the full      *)
(* secret from the part of a multisig signer and from the null key of a    *)
(* watch-only wallet.                                                      *)
OneTimeSecret(derivation, index, w, n, share) ==
  [der |-> derivation, idx |-> index,
   spend |-> get_subaddress_spend_public_key(w, n), share |-> share]

secret_key_to_public_key(sec) ==
  derive_public_key(sec.der, sec.idx, sec.spend)

null_skey == [der |-> Identity, idx |-> 0, spend |-> Identity, share |-> "null"]

(* x*Hp(P): determined by the output for a full secret, the identity for   *)
(* the null one.                                                           *)
generate_key_image(pub, sec) ==
  IF sec.share = "null" THEN [pub |-> UnwrittenKey, share |-> "null"]
                        ELSE [pub |-> pub, share |-> sec.share]

(* Types.  The secrets of the transaction being made are <<"tx", i>>. *)
Secret == {<<"view", w>> : w \in Wallet} \cup ({"tx"} \X Nat) \cup OtherSecret
Base ==
  {<<"identity">>, <<"bad">>, <<"null">>, <<"G">>, <<"unrelated">>}
    \cup {<<"spend", w, n>> : w \in Wallet, n \in Minor}
Point            == [mult : SUBSET Secret, base : Base]
Address          == [view : Point, spend : Point]
OneTimeKey       == [der : Point, idx : Nat, spend : Point]
Share            == {"full", "part", "null"}
OneTimeSecretKey == [der : Point, idx : Nat, spend : Point, share : Share]
KeyImage         == [pub : OneTimeKey, share : Share]
AccountKeys      == [wallet : Wallet, kind : {"full", "multisig", "watch"},
                     subaddresses : SUBSET Minor]

-----------------------------------------------------------------------------
(* Ownership. *)

(* The lookup table: spend public key -> subaddress index. *)
InTable(acc, spend) ==
  \E n \in acc.subaddresses :
     spend = get_subaddress_spend_public_key(acc.wallet, n)
TableIndex(acc, spend) ==
  CHOOSE n \in acc.subaddresses :
     spend = get_subaddress_spend_public_key(acc.wallet, n)

NotFound == [found |-> FALSE]
Found(n, derivation) ==
  [found |-> TRUE, index |-> n, derivation |-> derivation]

(* An output with no view tag can be anyone's. *)
NoTag == << >>

out_can_be_to_acc(view_tag, derivation, index) ==
  view_tag = NoTag \/ view_tag = derive_view_tag(derivation, index)

(* One attempt of is_out_to_acc_precomp with one derivation. *)
Try(acc, out_key, derivation, index, view_tag) ==
  LET spend == derive_subaddress_public_key(out_key, derivation, index)
  IN  IF /\ out_can_be_to_acc(view_tag, derivation, index)
         /\ InTable(acc, spend)
      THEN Found(TableIndex(acc, spend), derivation)
      ELSE NotFound

(* The shared key first, then the additional key at the output's index.    *)
(* An output key that does not decode, or an index past the additional     *)
(* derivations, ends the search with nothing.                              *)
is_out_to_acc_precomp_OffByOne(acc, out_key, derivation, additional, index, view_tag) ==
  LET shared == Try(acc, out_key, derivation, index, view_tag)
      decodes == out_key # UnwrittenKey
  IN  IF decodes /\ shared.found
      THEN shared
      ELSE IF decodes /\ index < Len(additional)
           THEN Try(acc, out_key, additional[index], index, view_tag)
           ELSE NotFound
is_out_to_acc_precomp(acc, out_key, derivation, additional, index, view_tag) ==
  LET shared == Try(acc, out_key, derivation, index, view_tag)
      decodes == out_key # UnwrittenKey
  IN  IF decodes /\ shared.found
      THEN shared
      ELSE IF decodes /\ index <= Len(additional)
           THEN Try(acc, out_key, additional[index], index, view_tag)
           ELSE NotFound

(* The older is_out_to_acc knows the main address alone and derives only   *)
(* the additional key it needs; a derivation that fails ends it.           *)
is_out_to_acc_AdditionalInstead(acc, out_key, tx_pub_key, additional_keys, index, view_tag) ==
  LET P == IF index <= Len(additional_keys) THEN additional_keys[index]
           ELSE tx_pub_key
      derivation == generate_key_derivation(P, view_secret(acc.wallet))
  IN  /\ out_can_be_to_acc(view_tag, derivation, index)
      /\ out_key = derive_public_key(derivation, index,
                     get_subaddress_spend_public_key(acc.wallet, 0))
is_out_to_acc(acc, out_key, tx_pub_key, additional_keys, index, view_tag) ==
  LET a == view_secret(acc.wallet)
      Mine(P) ==
        LET derivation == generate_key_derivation(P, a)
        IN  /\ out_can_be_to_acc(view_tag, derivation, index)
            /\ out_key = derive_public_key(derivation, index,
                           get_subaddress_spend_public_key(acc.wallet, 0))
  IN  /\ ~DerivationFails(tx_pub_key)
      /\ \/ Mine(tx_pub_key)
         \/ /\ index <= Len(additional_keys)
            /\ ~DerivationFails(additional_keys[index])
            /\ Mine(additional_keys[index])

(* What generate_key_image_helper derives from the keys of the transaction *)
(* that made the output.  The shared derivation falls back on the identity;*)
(* an additional one that fails is skipped, and the ones after it move up. *)
SharedDerivation(acc, tx_public_key) ==
  IF DerivationFails(tx_public_key)
  THEN Identity
  ELSE generate_key_derivation(tx_public_key, view_secret(acc.wallet))

Decoding(keys) ==
  LET kept[n \in 0 .. Len(keys)] ==
        IF n = 0 THEN << >>
        ELSE IF check_key(keys[n]) THEN Append(kept[n - 1], keys[n]) ELSE kept[n - 1]
  IN  kept[Len(keys)]
AdditionalDerivations(acc, keys) ==
  LET kept == Decoding(keys)
  IN  [i \in 1 .. Len(kept) |->
         generate_key_derivation(kept[i], view_secret(acc.wallet))]

receive_info(acc, out_key, tx_public_key, additional_keys, index) ==
  is_out_to_acc_precomp(acc, out_key, SharedDerivation(acc, tx_public_key),
                        AdditionalDerivations(acc, additional_keys), index,
                        NoTag)

(* generate_key_image_helper_precomp: the pair in_ephemeral.  A multisig   *)
(* account rebuilds the public key from the address, not from its share.   *)
in_ephemeral(acc, out_key, derivation, index, n) ==
  IF acc.kind = "watch"
  THEN [pub |-> out_key, sec |-> null_skey]
  ELSE LET sec == OneTimeSecret(derivation, index, acc.wallet, n,
                                IF acc.kind = "multisig" THEN "part" ELSE "full")
       IN  [pub |-> secret_key_to_public_key(sec), sec |-> sec]

(* generate_key_image_helper: its answer, and the pair and key image it    *)
(* fills in when the answer is true.                                       *)
key_image_helper_succeeds(acc, out_key, tx_public_key, additional_keys, index) ==
  LET info == receive_info(acc, out_key, tx_public_key, additional_keys, index)
  IN  /\ info.found
      /\ in_ephemeral(acc, out_key, info.derivation, index, info.index).pub = out_key

generate_key_image_helper(acc, out_key, tx_public_key, additional_keys, index) ==
  LET info == receive_info(acc, out_key, tx_public_key, additional_keys, index)
      pair == in_ephemeral(acc, out_key, info.derivation, index, info.index)
  IN  [in_ephemeral |-> pair,
       k_image      |-> generate_key_image(pair.pub, pair.sec)]
=============================================================================
