--------------------------- MODULE TxFinished_proof ---------------------------
(***************************************************************************)
(* Theorems about a finished transaction: what its extra holds and who can *)
(* read it, that its rings are signed over the outputs they name, that it  *)
(* pays out what it takes in, to whom it was ordered for; and that a call  *)
(* which nothing is wrong with gets as far as that.                        *)
(***************************************************************************)
EXTENDS TxConstruct_proof, FunctionTheorems

-----------------------------------------------------------------------------
(* The extra, from the request to the end of the call. *)
Kept      == {"merge_mining_tag", "minergate", "padding"}
NeedsKeys == need_additional_txkeys(destinations, req.change)
TheKey    == [type |-> "pub_key", key |-> txkey_pub]

(* What ExtraCanonical says of the extra, and whose the additional keys are.*)
Canonical ==
  /\ parse_tx_extra(tx.extra)
  /\ OfType(tx.extra, "pub_key") = <<TheKey>>
  /\ ReadAdditional = keys.additional
  /\ Len(keys.additional) = IF NeedsKeys THEN Len(tx.vout) ELSE 0
  /\ sort_tx_extra(tx.extra) = tx.extra

(* The extra is typed and keeps what it must keep throughout; where it     *)
(* decodes its one public key is that of the transaction from the step on  *)
(* that puts it there, and once it is sorted it is canonical.              *)
ExtraInv ==
  /\ result = "none" <=> pc \notin {"close", "done"}
  /\ tx.extra \in Seq(Field)
  /\ \A t \in Kept : OfType(tx.extra, t) = OfType(req.extra, t)
  /\ ~NeedsKeys => keys.additional = << >>
  /\ (pc = "outputs" /\ parse_tx_extra(tx.extra)) =>
       OfType(tx.extra, "pub_key") = <<TheKey>>
  /\ (pc \in {"money", "sign"} \/ result = "true") => Canonical

(* FieldMade: the fields that construction appends are fields.             *)
LEMMA FieldMade ==
  /\ \A R \in Point : [type |-> "pub_key", key |-> R] \in Field
  /\ \A ks \in Seq(Point) : [type |-> "additional_pub_keys", keys |-> ks] \in Field
  /\ \A id \in PaymentId :
       [type |-> "nonce", nonce |-> [kind |-> "encrypted", id |-> id]] \in Field
BY DEF Field

(* Known: the types of fields the sort knows.                              *)
LEMMA Known ==
  /\ {"pub_key", "additional_pub_keys", "nonce"} \subseteq FieldTypes
  /\ Kept \subseteq FieldTypes
  /\ Kept \cap {"pub_key", "additional_pub_keys", "nonce"} = {}
<1>1. DOMAIN FieldOrder = 1 .. 6 /\ 1 \in 1 .. 6 /\ 2 \in 1 .. 6 /\ 3 \in 1 .. 6 /\ 4 \in 1 .. 6
      /\ 5 \in 1 .. 6 /\ 6 \in 1 .. 6
  BY DEF FieldOrder
<1>2. FieldOrder[1] = "pub_key" /\ FieldOrder[2] = "additional_pub_keys" /\ FieldOrder[3] = "nonce"
      /\ FieldOrder[4] = "merge_mining_tag" /\ FieldOrder[5] = "minergate" /\ FieldOrder[6] = "padding"
  BY DEF FieldOrder
<1>3. \A k \in 1 .. 6 : FieldOrder[k] \in FieldTypes
  BY <1>1 DEF FieldTypes
<1> QED BY <1>1, <1>2, <1>3 DEF Kept

(* ViewKeyType: the view key an id is encrypted for is a point.            *)
LEMMA ViewKeyType ==
  ASSUME TypeOK
  PROVE  ViewKey \in Point
<1> DEFINE paid == PaidAddresses(destinations, req.change)
<1>1. req.change.view \in Point
  BY RequestTypes DEF Request, Address
<1>2. \A a \in paid : a.view \in Point
  BY DestinationTypes DEF PaidAddresses
<1>3. ViewKey = IF paid = {} THEN req.change.view
                ELSE IF \E a \in paid : paid = {a} THEN (CHOOSE a \in paid : TRUE).view
                ELSE null_pkey
  BY DEF ViewKey, get_destination_view_key_pub
<1> HIDE DEF paid
<1>4. paid # {} => (CHOOSE a \in paid : TRUE) \in paid
  OBVIOUS
<1> QED BY <1>1, <1>2, <1>3, <1>4, PointTypes

(* EncryptedType: encrypting an id makes an id.                            *)
LEMMA EncryptedType ==
  ASSUME NEW id \in PaymentId, NEW P \in Point, NEW k \in Secret
  PROVE  encrypt_payment_id(id, P, k) \in PaymentId
<1>1. scalarmultKey(P, k) \in Point
  BY PointTypes
<1> DEFINE pad == scalarmultKey(P, k)
<1> HIDE DEF pad
<1>2. Xor(id, pad) \in PaymentId
  <2>1. id.plain \in {"null"} \cup STRING /\ id.pads \subseteq Point /\ pad \in Point
    BY <1>1 DEF PaymentId, pad
  <2>2. (IF pad \in id.pads THEN id.pads \ {pad} ELSE id.pads \cup {pad}) \subseteq Point
    BY <2>1
  <2> QED BY <2>1, <2>2 DEF PaymentId, Xor
<1> QED BY <1>2 DEF encrypt_payment_id, generate_key_derivation, pad

(* NonceType: the nonce that is found holds an id.                         *)
LEMMA NonceType ==
  ASSUME tx.extra \in Seq(Field), HasNonce
  PROVE  Nonce.id \in PaymentId
<1> DEFINE p == OfType(tx.extra, "nonce")
<1>1. p \in Seq(Field) /\ \A i \in DOMAIN p : p[i].type \in {"nonce"}
  BY PickedOf DEF OfType
<1>2. 1 <= Len(p)
  BY DEF HasNonce, find_tx_extra_field_by_type
<1>3. Nonce = p[1].nonce
  BY DEF Nonce, tx_extra_field
<1> HIDE DEF p
<1>4. p[1] \in Field /\ p[1].type = "nonce"
  BY <1>1, <1>2
<1> QED BY <1>3, <1>4 DEF Field

-----------------------------------------------------------------------------
(* ExtraReplaced: a field put in for others of its type leaves the extra   *)
(* typed, keeps the rest, and where the result decodes is the only one.    *)
LEMMA ExtraReplaced ==
  ASSUME NEW s \in Seq(Field), NEW type, NEW x \in Field, x.type = type
  PROVE  LET made == Append(remove_field_from_tx_extra(s, type), x)
         IN  /\ made \in Seq(Field)
             /\ \A t \in FieldTypes \ {type} : OfType(made, t) = OfType(s, t)
             /\ parse_tx_extra(made) => parse_tx_extra(s) /\ OfType(made, type) = <<x>>
<1> DEFINE rest == remove_field_from_tx_extra(s, type)
           made == Append(rest, x)
<1>1. rest \in Seq(Field)
  BY PickedOf DEF remove_field_from_tx_extra
<1>2. ASSUME NEW t \in FieldTypes \ {type} PROVE OfType(rest, t) = OfType(s, t)
  BY <1>2, RemoveKeeps
<1>3. parse_tx_extra(rest) => parse_tx_extra(s)
  BY DEF remove_field_from_tx_extra
<1>4. parse_tx_extra(s) => OfType(rest, type) = << >>
  BY RemoveDrops
<1> HIDE DEF rest
<1>5. made \in Seq(Field)
  BY <1>1
<1>6. \A t : OfType(made, t) = IF x.type = t THEN Append(OfType(rest, t), x) ELSE OfType(rest, t)
  BY <1>1, AppendKeeps
<1>7. parse_tx_extra(made) => parse_tx_extra(rest)
  BY <1>1, ParsesFront
<1> HIDE DEF made
<1>8. \A t \in FieldTypes \ {type} : OfType(made, t) = OfType(s, t)
  BY <1>2, <1>6
<1>9. parse_tx_extra(made) => OfType(made, type) = <<x>>
  <2>1. Append(<< >>, x) = <<x>>
    OBVIOUS
  <2> QED BY <1>3, <1>4, <1>6, <1>7, <2>1
<1> QED BY <1>3, <1>5, <1>7, <1>8, <1>9 DEF made, rest

-----------------------------------------------------------------------------
(* InitExtra: the invariant holds of a request.                            *)
LEMMA InitExtra == Init => ExtraInv
<1> SUFFICES ASSUME Init PROVE ExtraInv
  OBVIOUS
<1>1. req.extra \in Seq(Field)
  BY RequestsAssumption DEF Init, Request
<1>2. tx.extra = req.extra
  BY DEF Init, EmptyTx
<1> QED BY <1>1, <1>2 DEF Init, ExtraInv

(* ExtraStays: steps that leave the extra alone, and do not go on with a   *)
(* sorted one, keep the invariant.                                         *)
LEMMA ExtraStays ==
  ASSUME ExtraInv, tx'.extra = tx.extra, req' = req,
         ~NeedsKeys' => keys'.additional = << >>,
         result' = "none" <=> pc' \notin {"close", "done"}, result' # "true",
         pc' \notin {"money", "sign"},
         pc' = "outputs" => pc = "outputs" /\ txkey_pub' = txkey_pub
  PROVE  ExtraInv'
<1>1. (pc' = "outputs" /\ parse_tx_extra(tx'.extra)) => OfType(tx'.extra, "pub_key") = <<TheKey>>'
  BY DEF ExtraInv, TheKey
<1> QED BY <1>1 DEF ExtraInv

(* NextExtra: every step keeps the invariant of the extra.                 *)
LEMMA NextExtra == IInv /\ ExtraInv /\ [Next]_vars => ExtraInv'
<1> SUFFICES ASSUME IInv, ExtraInv, [Next]_vars PROVE ExtraInv'
  OBVIOUS
<1>0. TypeOK /\ Phases
  BY DEF IInv
<1>1. CASE OpenTx
  BY <1>1, ExtraStays DEF OpenTx, Goto, ExtraInv, NeedsKeys
<1>2. CASE EmptySources \/ UnparsableExtra
  BY <1>2, ExtraStays DEF EmptySources, UnparsableExtra, ExtraUnchanged, Goto, Return, ExtraInv, NeedsKeys
<1>3. ASSUME NEW x \in Field, x.type = "nonce",
             tx' = [tx EXCEPT !.extra = Append(remove_field_from_tx_extra(@, "nonce"), x)]
                \/ tx' = [tx EXCEPT !.extra = Append(@, x)],
             Goto("inputs"), ExtraUnchanged, pc = "extra"
      PROVE  ExtraInv'
  <2> DEFINE s == tx.extra
  <2>1. s \in Seq(Field)
    BY DEF ExtraInv
  <2>2. tx'.extra = Append(remove_field_from_tx_extra(s, "nonce"), x) \/ tx'.extra = Append(s, x)
    BY <1>0, <1>3 DEF TypeOK
  <2>3. tx'.extra \in Seq(Field) /\ \A t \in Kept : OfType(tx'.extra, t) = OfType(s, t)
    <3>1. CASE tx'.extra = Append(remove_field_from_tx_extra(s, "nonce"), x)
      BY <1>3, <2>1, <3>1, ExtraReplaced, Known
    <3>2. CASE tx'.extra = Append(s, x)
      BY <1>3, <2>1, <3>2, AppendKeeps, Known
    <3> QED BY <2>2, <3>1, <3>2
  <2> QED BY <1>3, <2>3 DEF ExtraInv, ExtraUnchanged, Goto, NeedsKeys
<1>4. ASSUME NEW id \in PaymentId, ViewKey \in Point
      PROVE  [type |-> "nonce",
              nonce |-> set_encrypted_payment_id_to_tx_extra_nonce(encrypt_payment_id(id, ViewKey, tx_key))]
               \in Field
  <2>1. encrypt_payment_id(id, ViewKey, tx_key) \in PaymentId
    BY <1>4, EncryptedType, PointTypes DEF tx_key
  <2> QED BY <2>1, FieldMade DEF set_encrypted_payment_id_to_tx_extra_nonce
<1>5. ViewKey \in Point
  BY <1>0, ViewKeyType
<1>6. CASE EncryptPaymentId
  <2>1. CASE Return("false") /\ UNCHANGED tx
    BY <1>6, <2>1, ExtraStays DEF EncryptPaymentId, ExtraUnchanged, Return, ExtraInv, NeedsKeys
  <2>2. CASE Goto("inputs")
    <3> DEFINE x == [type |-> "nonce",
                     nonce |-> set_encrypted_payment_id_to_tx_extra_nonce(
                                 encrypt_payment_id(Nonce.id, ViewKey, tx_key))]
    <3>1. Nonce.id \in PaymentId
      BY <1>6, NonceType DEF EncryptPaymentId, ExtraInv
    <3>2. x \in Field /\ x.type = "nonce"
      BY <1>4, <1>5, <3>1
    <3>3. tx' = [tx EXCEPT !.extra = Append(remove_field_from_tx_extra(@, "nonce"), x)]
      BY <1>6, <2>2 DEF EncryptPaymentId, add_extra_nonce_to_tx_extra, Goto, Return
    <3>4. pc = "extra" /\ ExtraUnchanged
      BY <1>6 DEF EncryptPaymentId
    <3> HIDE DEF x
    <3> QED BY <1>3, <2>2, <3>2, <3>3, <3>4
  <2> QED BY <1>6, <2>1, <2>2 DEF EncryptPaymentId
<1>7. CASE DummyPaymentId
  <2>1. CASE UNCHANGED tx
    BY <1>7, <2>1, ExtraStays DEF DummyPaymentId, ExtraUnchanged, Goto, ExtraInv, NeedsKeys
  <2>2. CASE tx' # tx
    <3> DEFINE x == [type |-> "nonce",
                     nonce |-> set_encrypted_payment_id_to_tx_extra_nonce(
                                 encrypt_payment_id(NullPaymentId, ViewKey, tx_key))]
    <3>1. NullPaymentId \in PaymentId
      <4>1. "null" \in {"null"} \cup STRING
        OBVIOUS
      <4>2. {} \in SUBSET Point
        OBVIOUS
      <4> QED BY <4>1, <4>2 DEF NullPaymentId, PaymentId
    <3>2. x \in Field /\ x.type = "nonce"
      BY <1>4, <1>5, <3>1
    <3>3. tx' = [tx EXCEPT !.extra = Append(@, x)]
      BY <1>7, <2>2 DEF DummyPaymentId, add_extra_nonce_to_tx_extra
    <3>4. pc = "extra" /\ ExtraUnchanged /\ Goto("inputs")
      BY <1>7 DEF DummyPaymentId
    <3> HIDE DEF x
    <3> QED BY <1>3, <3>2, <3>3, <3>4
  <2> QED BY <2>1, <2>2
<1>8. CASE AddInput
  <2>1. tx'.extra = tx.extra
    <3>1. tx' = tx \/ \E vin : tx' = [tx EXCEPT !.vin = vin]
      BY <1>8 DEF AddInput
    <3> QED BY <3>1, <1>0 DEF TypeOK
  <2>2. /\ pc = "inputs"
        /\ \/ pc' = "inputs" /\ result' = result
           \/ pc' \in {"close", "done"} /\ result' = "false"
    BY <1>8 DEF AddInput, Goto, Return
  <2>3. UNCHANGED <<req, destinations, keys>>
    BY <1>8 DEF AddInput
  <2> QED BY <2>1, <2>2, <2>3, ExtraStays DEF ExtraInv, NeedsKeys
<1>9. CASE ShuffleDestinations
  <2>1. keys.additional = << >> /\ UNCHANGED keys
    BY <1>0, <1>9 DEF Phases, ShuffleDestinations
  <2> QED BY <1>9, <2>1, ExtraStays DEF ShuffleDestinations, Goto, ExtraInv
<1>10. CASE SortInputs
  <2>1. tx'.extra = tx.extra
    BY <1>0, <1>10 DEF SortInputs, TypeOK
  <2> QED BY <1>10, <2>1, ExtraStays DEF SortInputs, Goto, ExtraInv, NeedsKeys
<1>11. CASE SetTxPubKey
  <2>1. CASE Return("throw") /\ UNCHANGED <<tx, txkey_pub>>
    BY <1>11, <2>1, ExtraStays DEF SetTxPubKey, Return, ExtraInv, NeedsKeys
  <2>2. ASSUME NEW R, txkey_pub' = R, R \in Point,
               tx' = [tx EXCEPT !.extra = add_tx_pub_key_to_extra(
                        remove_field_from_tx_extra(@, "pub_key"), R)],
               Return("false") \/ Goto("outputs")
        PROVE  ExtraInv'
    <3> DEFINE s == tx.extra
               x == [type |-> "pub_key", key |-> R]
               made == Append(remove_field_from_tx_extra(s, "pub_key"), x)
    <3>1. x \in Field /\ x.type = "pub_key" /\ s \in Seq(Field)
      BY <2>2, FieldMade DEF ExtraInv
    <3>2. tx'.extra = made /\ TheKey' = x
      BY <1>0, <2>2 DEF TypeOK, add_tx_pub_key_to_extra, TheKey
    <3>3. /\ made \in Seq(Field)
          /\ \A t \in FieldTypes \ {"pub_key"} : OfType(made, t) = OfType(s, t)
          /\ parse_tx_extra(made) => OfType(made, "pub_key") = <<x>>
      <4> HIDE DEF x, s
      <4> QED BY <3>1, ExtraReplaced
    <3>4. UNCHANGED <<req, keys, destinations>> /\ pc = "pubkey"
      BY <1>11 DEF SetTxPubKey
    <3>5. /\ result' # "true" /\ pc' \in {"close", "done", "outputs"}
          /\ result' = "none" <=> pc' \notin {"close", "done"}
      BY <2>2, <3>4 DEF Return, Goto, ExtraInv
    <3> HIDE DEF made, x
    <3>6. tx'.extra \in Seq(Field) /\ \A t \in Kept : OfType(tx'.extra, t) = OfType(tx.extra, t)
      BY <3>2, <3>3, Known
    <3>7. parse_tx_extra(tx'.extra) => OfType(tx'.extra, "pub_key") = <<TheKey>>'
      BY <3>2, <3>3
    <3> QED BY <3>4, <3>5, <3>6, <3>7 DEF ExtraInv, NeedsKeys
  <2>3. txkey_pub' \in Point
    <3>1. (IF SingleSubaddress(destinations, req.change)
           THEN scalarmultKey(single_dest_subaddress(destinations, req.change).spend, tx_key)
           ELSE scalarmultBase(tx_key)) \in Point
      BY <1>0, TxPubKeyType
    <3> QED BY <1>0, <1>11, <3>1 DEF SetTxPubKey, TypeOK
  <2> QED BY <1>11, <2>1, <2>2, <2>3 DEF SetTxPubKey
<1>12. CASE AddOutput
  <2>1. tx'.extra = tx.extra
    <3>1. tx' = tx \/ \E vout : tx' = [tx EXCEPT !.vout = vout]
      BY <1>12 DEF AddOutput
    <3> QED BY <3>1, <1>0 DEF TypeOK
  <2>2. /\ pc = "outputs"
        /\ \/ pc' = "outputs" /\ result' = result
           \/ pc' \in {"close", "done"} /\ result' \in {"false", "throw"}
    BY <1>12 DEF AddOutput, Goto, Return
  <2>3. UNCHANGED <<req, destinations, txkey_pub>>
    BY <1>12 DEF AddOutput
  <2>4. ~NeedsKeys' => keys'.additional = << >>
    <3> SUFFICES ASSUME ~NeedsKeys PROVE keys'.additional = << >>
      BY <2>3 DEF NeedsKeys
    <3>0. \A d, i, before : OutputKeys(d, i, NeedsKeys, before).additional = << >>
      BY DEF OutputKeys
    <3>1. keys' = keys \/ keys'.additional = keys.additional \o << >>
      <4>1. keys' = keys \/ \E d, i, before :
              keys' = [additional |-> keys.additional \o OutputKeys(d, i, NeedsKeys, before).additional,
                       amount |-> keys.amount \o OutputKeys(d, i, NeedsKeys, before).amount]
        BY <1>12 DEF AddOutput, NeedsKeys
      <4>2. ASSUME NEW d, NEW i, NEW before,
                   keys' = [additional |-> keys.additional \o OutputKeys(d, i, NeedsKeys, before).additional,
                            amount |-> keys.amount \o OutputKeys(d, i, NeedsKeys, before).amount]
            PROVE  keys'.additional = keys.additional \o << >>
        <5>1. OutputKeys(d, i, NeedsKeys, before).additional = << >>
          BY <3>0
        <5>2. keys'.additional = keys.additional \o OutputKeys(d, i, NeedsKeys, before).additional
          BY <4>2
        <5> QED BY <5>1, <5>2
      <4> QED BY <4>1, <4>2
    <3>2. keys.additional = << >> /\ << >> \o << >> = << >>
      BY DEF ExtraInv
    <3> QED BY <3>1, <3>2
  <2> QED BY <2>1, <2>2, <2>3, <2>4, ExtraStays DEF ExtraInv
<1>13. CASE FinishExtra
  <2> DEFINE s == tx.extra
             cleared == remove_field_from_tx_extra(s, "additional_pub_keys")
             x == [type |-> "additional_pub_keys", keys |-> keys.additional]
             replaced == Append(cleared, x)
             full == IF NeedsKeys THEN replaced ELSE cleared
  <2>1. /\ s \in Seq(Field) /\ x \in Field /\ x.type = "additional_pub_keys"
        /\ \A t \in Kept : OfType(s, t) = OfType(req.extra, t)
    BY <1>0, FieldMade DEF ExtraInv, TypeOK
  <2>2. /\ replaced \in Seq(Field)
        /\ \A t \in FieldTypes \ {"additional_pub_keys"} : OfType(replaced, t) = OfType(s, t)
        /\ parse_tx_extra(replaced) => /\ parse_tx_extra(s)
                                      /\ OfType(replaced, "additional_pub_keys") = <<x>>
    <3> HIDE DEF x, s
    <3> QED BY <2>1, ExtraReplaced
  <2>3. /\ cleared \in Seq(Field)
        /\ \A t \in FieldTypes \ {"additional_pub_keys"} : OfType(cleared, t) = OfType(s, t)
        /\ parse_tx_extra(cleared) <=> parse_tx_extra(s)
        /\ parse_tx_extra(cleared) => OfType(cleared, "additional_pub_keys") = << >>
    <3>1. "pub_key" \in FieldTypes /\ "pub_key" # "additional_pub_keys" /\ s \in Seq(Field)
      BY <2>1, Known
    <3> HIDE DEF s
    <3>2. ASSUME NEW t \in FieldTypes \ {"additional_pub_keys"}
          PROVE  OfType(cleared, t) = OfType(s, t)
      BY <3>1, RemoveKeeps
    <3>3. cleared \in Seq(Field) /\ (parse_tx_extra(cleared) <=> parse_tx_extra(s))
      BY <3>1, RemoveKeeps
    <3>4. parse_tx_extra(s) => OfType(cleared, "additional_pub_keys") = << >>
      BY <3>1, RemoveDrops
    <3> HIDE DEF cleared
    <3> QED BY <3>2, <3>3, <3>4
  <2> HIDE DEF cleared, replaced
  <2>4. /\ full \in Seq(Field)
        /\ \A t \in FieldTypes \ {"additional_pub_keys"} : OfType(full, t) = OfType(s, t)
        /\ parse_tx_extra(full) => /\ parse_tx_extra(s)
                                  /\ OfType(full, "additional_pub_keys") = IF NeedsKeys THEN <<x>> ELSE << >>
    <3>1. CASE NeedsKeys
      BY <2>2, <3>1
    <3>2. CASE ~NeedsKeys
      BY <2>3, <3>2
    <3> QED BY <3>1, <3>2
  <2>5. /\ pc = "outputs" /\ Len(tx.vout) = Len(destinations)
        /\ UNCHANGED <<req, destinations, keys, txkey_pub, additional_tx_keys>>
        /\ \/ Len(keys.additional) # Len(additional_tx_keys) /\ Return("false") /\ tx' = tx
           \/ ~parse_tx_extra(full) /\ Return("false") /\ tx' = [tx EXCEPT !.extra = full]
           \/ /\ Len(keys.additional) = Len(additional_tx_keys)
              /\ parse_tx_extra(full) /\ Goto("money")
              /\ tx' = [tx EXCEPT !.extra = sort_tx_extra(full)]
    BY <1>13 DEF FinishExtra, add_additional_tx_pub_keys_to_extra, sort_succeeds, NeedsKeys, cleared, replaced
  <2> HIDE DEF full
  <2>6. CASE tx' = tx /\ Return("false")
    BY <2>5, <2>6, ExtraStays DEF Return, ExtraInv, NeedsKeys
  <2>7. CASE tx' = [tx EXCEPT !.extra = full] /\ Return("false")
    <3>1. tx'.extra = full
      BY <1>0, <2>7 DEF TypeOK
    <3>2. \A t \in Kept : OfType(full, t) = OfType(req.extra, t)
      BY <2>1, <2>4, Known
    <3> QED BY <2>4, <2>5, <2>7, <3>1, <3>2 DEF Return, ExtraInv, NeedsKeys
  <2>8. CASE /\ Len(keys.additional) = Len(additional_tx_keys)
             /\ parse_tx_extra(full) /\ Goto("money")
             /\ tx' = [tx EXCEPT !.extra = sort_tx_extra(full)]
    <3> DEFINE r == sort_tx_extra(full)
    <3>1. tx'.extra = r /\ tx'.vout = tx.vout
      BY <1>0, <2>8 DEF TypeOK
    <3>2. /\ r \in Seq(Field) /\ parse_tx_extra(r) /\ sort_tx_extra(r) = r
          /\ \A t \in FieldTypes : OfType(r, t) = OfType(full, t)
      BY <2>4, <2>8, SortKeeps, SortParses, SortTwice, Known
    <3> HIDE DEF r, x
    <3>3. \A t \in Kept : OfType(r, t) = OfType(req.extra, t)
      BY <2>1, <2>4, <3>2, Known
    <3>4. OfType(r, "pub_key") = <<TheKey>>
      BY <2>4, <2>5, <2>8, <3>2, Known DEF ExtraInv
    <3>5. tx_extra_fields(r) = r
      BY <3>2, ParsesWhole
    <3>6. OfType(r, "additional_pub_keys") = IF NeedsKeys THEN <<x>> ELSE << >>
      BY <2>4, <2>8, <3>2, Known
    <3>7. get_additional_tx_pub_keys_from_extra(r) = IF NeedsKeys THEN keys.additional ELSE << >>
      <4>1. x.keys = keys.additional
        BY DEF x
      <4>2. NeedsKeys => find_tx_extra_field_by_type(r, "additional_pub_keys", 1)
                         /\ tx_extra_field(r, "additional_pub_keys", 1) = x
        BY <3>6 DEF find_tx_extra_field_by_type, tx_extra_field
      <4>3. ~NeedsKeys => ~find_tx_extra_field_by_type(r, "additional_pub_keys", 1)
        <5>1. ~(1 <= Len(<< >>))
          OBVIOUS
        <5> QED BY <3>6, <5>1 DEF find_tx_extra_field_by_type
      <4> QED BY <3>5, <4>1, <4>2, <4>3 DEF get_additional_tx_pub_keys_from_extra
    <3>8. /\ get_additional_tx_pub_keys_from_extra(r) = keys.additional
          /\ Len(keys.additional) = IF NeedsKeys THEN Len(tx.vout) ELSE 0
      <4>1. NeedsKeys => Len(keys.additional) = Len(tx.vout)
        BY <1>0, <2>5, <2>8 DEF Phases, NeedsKeys
      <4>2. ~NeedsKeys => keys.additional = << >>
        BY DEF ExtraInv
      <4>3. Len(<< >>) = 0
        OBVIOUS
      <4> QED BY <3>7, <4>1, <4>2, <4>3
    <3>9. NeedsKeys' = NeedsKeys /\ TheKey' = TheKey
      BY <2>5 DEF NeedsKeys, TheKey
    <3>10. Canonical'
      BY <2>5, <3>1, <3>2, <3>4, <3>8, <3>9 DEF Canonical, ReadAdditional
    <3> QED BY <2>5, <2>8, <3>1, <3>2, <3>3, <3>9, <3>10 DEF ExtraInv, Goto
  <2> QED BY <2>5, <2>6, <2>7, <2>8
<1>15. CASE CheckMoney
  <2>1. UNCHANGED <<req, destinations, keys, tx, txkey_pub>> /\ pc = "money"
    BY <1>15 DEF CheckMoney
  <2>2. CASE Return("false")
    BY <2>1, <2>2, ExtraStays DEF Return, ExtraInv, NeedsKeys
  <2>3. CASE Goto("sign")
    <3>1. Canonical'
      BY <2>1 DEF ExtraInv, Canonical, ReadAdditional, TheKey, NeedsKeys
    <3> QED BY <2>1, <2>3, <3>1 DEF Goto, ExtraInv, NeedsKeys
  <2> QED BY <1>15, <2>2, <2>3 DEF CheckMoney
<1>16. CASE SignV1 \/ SignV2
  <2>1. tx'.extra = tx.extra /\ Len(tx'.vout) = Len(tx.vout)
    <3>1. DOMAIN Masked(tx) = DOMAIN tx /\ Masked(tx).extra = tx.extra
          /\ Len(Masked(tx).vout) = Len(tx.vout)
      <4>1. Masked(tx).vout = [i \in 1 .. Len(tx.vout) |-> [tx.vout[i] EXCEPT !.amount = 0]]
        BY <1>0 DEF Masked, TypeOK
      <4>2. Len(tx.vout) \in Nat
        BY <1>0 DEF TypeOK
      <4>3. Len(Masked(tx).vout) = Len(tx.vout)
        BY <4>1, <4>2
      <4> QED BY <1>0, <4>3 DEF Masked, TypeOK
    <3>2. CASE SignV1
      BY <1>0, <3>2 DEF SignV1, TypeOK
    <3>3. CASE SignV2
      <4> DEFINE t == Masked(tx)
      <4>1. t.extra = tx.extra /\ Len(t.vout) = Len(tx.vout)
            /\ DOMAIN t = {"extra", "vin", "vout", "signatures", "rct"}
        BY <1>0, <3>1 DEF TypeOK
      <4>2. tx' = t \/ \E signatures, rct : tx' = [t EXCEPT !.signatures = signatures, !.rct = rct]
        BY <3>3 DEF SignV2
      <4> HIDE DEF t
      <4> QED BY <4>1, <4>2
    <3> QED BY <1>16, <3>2, <3>3
  <2>2. UNCHANGED <<req, destinations, keys, txkey_pub>> /\ pc = "sign"
    BY <1>16 DEF SignV1, SignV2
  <2>3. result' \in {"true", "throw"} /\ pc' \in {"close", "done"}
    BY <1>16 DEF SignV1, SignV2, Return
  <2>4. TheKey' = TheKey /\ NeedsKeys' = NeedsKeys
    BY <2>2 DEF TheKey, NeedsKeys
  <2>5. Canonical'
    BY <2>1, <2>2, <2>4 DEF ExtraInv, Canonical, ReadAdditional
  <2> QED BY <2>1, <2>2, <2>3, <2>4, <2>5 DEF ExtraInv
<1>18. CASE CloseTx \/ Done \/ UNCHANGED vars
  <2>1. UNCHANGED <<req, destinations, keys, tx, txkey_pub, result>>
    BY <1>18 DEF CloseTx, Done, vars
  <2>2. Canonical' <=> Canonical
    BY <2>1 DEF Canonical, ReadAdditional, TheKey, NeedsKeys
  <2>3. pc' = pc \/ (pc = "close" /\ pc' = "done")
    BY <1>18 DEF CloseTx, Done, vars
  <2>4. TheKey' = TheKey /\ NeedsKeys' = NeedsKeys
    BY <2>1 DEF TheKey, NeedsKeys
  <2> QED BY <2>1, <2>2, <2>3, <2>4 DEF ExtraInv
<1> QED BY <1>1, <1>2, <1>6, <1>7, <1>8, <1>9, <1>10, <1>11,
           <1>12, <1>13, <1>15, <1>16, <1>18 DEF Next

(* The extra of a finished transaction, for any request: it decodes, holds *)
(* the transaction's public key and no other, one key for each output      *)
(* exactly when the scheme needs them, stands in the order of the sort,    *)
(* and still holds the fields that are not construction's own.             *)
THEOREM ExtraStaysCanonical == Spec => []ExtraCanonical
<1>1. ExtraInv => ExtraCanonical
  BY DEF ExtraInv, ExtraCanonical, Canonical, Kept, NeedsKeys, TheKey
<1> QED BY InitIInv, NextIInv, InitExtra, NextExtra, <1>1, PTL DEF Spec

-----------------------------------------------------------------------------
(* DecodingAll: where all keys decode, none is left out.                   *)
LEMMA DecodingAll ==
  ASSUME NEW ks \in Seq(Point), \A n \in DOMAIN ks : check_key(ks[n])
  PROVE  Decoding(ks) = ks
<1> DEFINE m == Len(ks)
           Keeps(f) ==
             f = [n \in 0 .. m |->
                    IF n = 0 THEN << >>
                    ELSE IF check_key(ks[n]) THEN Append(f[n - 1], ks[n]) ELSE f[n - 1]]
           front == [n \in 0 .. m |-> SubSeq(ks, 1, n)]
<1>1. m \in Nat /\ SubSeq(ks, 1, m) = ks /\ SubSeq(ks, 1, 0) = << >>
  <2>1. m \in Nat /\ SubSeq(ks, 1, m) = ks
    BY SubSeqFull
  <2>2. 1 \in Int /\ 0 \in Int /\ 0 < 1
    OBVIOUS
  <2>3. SubSeq(ks, 1, 0) = << >>
    BY <2>2, SubSeqEmpty
  <2> QED BY <2>1, <2>3
<1>2. ASSUME NEW n \in 1 .. m PROVE SubSeq(ks, 1, n) = Append(SubSeq(ks, 1, n - 1), ks[n])
  <2> DEFINE a == SubSeq(ks, 1, n)
             b == SubSeq(ks, 1, n - 1)
  <2>0. m \in Nat /\ n - 1 \in Nat /\ n \in Nat
    BY <1>1
  <2>1. a \in Seq(Point) /\ Len(a) = n /\ \A i \in 1 .. n : a[i] = ks[i]
    BY <2>0, SubSeqProperties
  <2>2. b \in Seq(Point) /\ Len(b) = n - 1 /\ \A i \in 1 .. n - 1 : b[i] = ks[i]
    BY <2>0, SubSeqProperties
  <2> HIDE DEF a, b
  <2>3. ks[n] \in Point
    BY <2>0
  <2>4. Append(b, ks[n]) \in Seq(Point) /\ Len(Append(b, ks[n])) = n
    BY <2>0, <2>2, <2>3
  <2>5. \A i \in 1 .. n : Append(b, ks[n])[i] = a[i]
    BY <2>0, <2>1, <2>2, <2>3
  <2>6. a = Append(b, ks[n])
    BY <2>1, <2>4, <2>5, SeqEqual
  <2> QED BY <2>6 DEF a, b
<1>3. \E f : Keeps(f)
  <2> DEFINE g == [n \in 0 .. m |->
                    IF n = 0 THEN << >>
                    ELSE IF check_key(ks[n]) THEN Append(front[n - 1], ks[n]) ELSE front[n - 1]]
  <2>1. ASSUME NEW n \in 0 .. m PROVE g[n] = front[n]
    <3>1. CASE n = 0
      <4>1. front[n] = SubSeq(ks, 1, 0) /\ SubSeq(ks, 1, 0) = << >> /\ g[n] = << >>
        BY <1>1, <3>1
      <4> HIDE DEF g, front
      <4> QED BY <4>1
    <3>2. CASE n \in 1 .. m
      <4>1. n - 1 \in 0 .. m /\ n # 0 /\ n \in DOMAIN ks
        BY <1>1, <3>2
      <4>2. front[n] = SubSeq(ks, 1, n) /\ front[n - 1] = SubSeq(ks, 1, n - 1)
        BY <4>1
      <4>3. g[n] = Append(front[n - 1], ks[n])
        BY <4>1
      <4> HIDE DEF front, g
      <4> QED BY <1>2, <3>2, <4>2, <4>3
    <3> HIDE DEF g, front
    <3> QED BY <1>1, <3>1, <3>2
  <2>2. Keeps(front)
    <3>1. front = [n \in 0 .. m |-> front[n]] /\ g = [n \in 0 .. m |-> g[n]]
      OBVIOUS
    <3> HIDE DEF front, g
    <3>2. front = g
      BY <2>1, <3>1
    <3> QED BY <3>2 DEF g
  <2> QED BY <2>2
<1> DEFINE kept == CHOOSE f : Keeps(f)
<1>4. Keeps(kept) /\ Decoding(ks) = kept[m]
  BY <1>3 DEF Decoding
<1> HIDE DEF kept
<1>5. ASSUME NEW n \in 0 .. m
      PROVE  kept[n] = IF n = 0 THEN << >>
                       ELSE IF check_key(ks[n]) THEN Append(kept[n - 1], ks[n]) ELSE kept[n - 1]
  BY <1>4
<1> HIDE DEF Keeps, m
<1> DEFINE P == {n \in Nat : n <= m => kept[n] = SubSeq(ks, 1, n)}
<1>6. 0 \in P
  <2>1. 0 \in 0 .. m
    BY <1>1
  <2>2. kept[0] = << >>
    BY <1>5, <2>1
  <2>3. kept[0] = SubSeq(ks, 1, 0)
    BY <1>1, <2>2
  <2> QED BY <2>3
<1>7. ASSUME NEW n \in Nat, n \in P PROVE n + 1 \in P
  <2> SUFFICES ASSUME n + 1 <= m PROVE kept[n + 1] = SubSeq(ks, 1, n + 1)
    OBVIOUS
  <2>1. n + 1 \in 0 .. m /\ n + 1 \in 1 .. m /\ n + 1 - 1 = n /\ n + 1 # 0 /\ n <= m
    BY <1>1
  <2>2. n + 1 \in DOMAIN ks /\ check_key(ks[n + 1])
    BY <2>1 DEF m
  <2>3. kept[n + 1] = Append(kept[n], ks[n + 1])
    <3>1. kept[n + 1] = IF n + 1 = 0 THEN << >>
                        ELSE IF check_key(ks[n + 1]) THEN Append(kept[n + 1 - 1], ks[n + 1])
                        ELSE kept[n + 1 - 1]
      BY <1>5, <2>1
    <3> QED BY <2>1, <2>2, <3>1
  <2>4. SubSeq(ks, 1, n + 1) = Append(SubSeq(ks, 1, n), ks[n + 1])
    BY <1>2, <2>1
  <2> QED BY <1>7, <2>1, <2>3, <2>4
<1>8. Nat \subseteq P
  <2> HIDE DEF P
  <2> QED BY <1>6, <1>7, Upwards
<1>9. kept[m] = ks
  BY <1>1, <1>8
<1> QED BY <1>4, <1>9

(* ScansAgree: over keys that all decode, the two scanners agree on any    *)
(* output with an index.                                                   *)
LEMMA ScansAgree ==
  ASSUME NEW w, NEW out_key \in OneTimeKey, NEW P \in Point, NEW ks \in Seq(Point),
         NEW i \in Nat \ {0}, NEW tag,
         check_key(P), \A n \in DOMAIN ks : check_key(ks[n])
  PROVE  is_out_to_acc(Account(w), out_key, P, ks, i, tag)
         <=> is_out_to_acc_precomp(MainOnly(w), out_key, SharedDerivation(Account(w), P),
               AdditionalDerivations(Account(w), ks), i, tag).found
<1> DEFINE B == get_subaddress_spend_public_key(w, 0)
           a == view_secret(w)
           Mine(Q) == /\ out_can_be_to_acc(tag, generate_key_derivation(Q, a), i)
                      /\ out_key = derive_public_key(generate_key_derivation(Q, a), i, B)
           acc == MainOnly(w)
<1>1. /\ Account(w).wallet = w /\ acc.wallet = w /\ acc.subaddresses = {0}
  BY DEF Account, MainOnly
<1>2. is_out_to_acc(Account(w), out_key, P, ks, i, tag) <=>
        (Mine(P) \/ (i <= Len(ks) /\ Mine(ks[i])))
  <2>1. i <= Len(ks) => i \in DOMAIN ks
    OBVIOUS
  <2> QED BY <1>1, <2>1 DEF is_out_to_acc, DerivationFails
<1>3. ASSUME NEW Q
      PROVE  Try(acc, out_key, generate_key_derivation(Q, a), i, tag).found <=> Mine(Q)
  <2> DEFINE d == generate_key_derivation(Q, a)
             spend == derive_subaddress_public_key(out_key, d, i)
  <2>1. InTable(acc, spend) <=> spend = B
    BY <1>1 DEF InTable
  <2>2. B # [mult |-> {}, base |-> <<"unrelated">>]
    BY DEF get_subaddress_spend_public_key
  <2>3. spend = B <=> out_key.der = d /\ out_key.idx = i /\ out_key.spend = B
    <3> HIDE DEF d, B
    <3> QED BY <2>2 DEF derive_subaddress_public_key
  <2>4. out_key = derive_public_key(d, i, B) <=> out_key.der = d /\ out_key.idx = i /\ out_key.spend = B
    <3> HIDE DEF d, B
    <3> QED BY DEF derive_public_key, OneTimeKey
  <2>5. Try(acc, out_key, d, i, tag).found <=> out_can_be_to_acc(tag, d, i) /\ InTable(acc, spend)
    <3>1. Try(acc, out_key, d, i, tag) =
            IF out_can_be_to_acc(tag, d, i) /\ InTable(acc, spend)
            THEN Found(TableIndex(acc, spend), d) ELSE NotFound
      BY DEF Try
    <3>2. \A n : Found(n, d).found = TRUE
      BY DEF Found
    <3>3. NotFound.found = FALSE
      BY DEF NotFound
    <3> HIDE DEF d, spend
    <3> QED BY <3>1, <3>2, <3>3
  <2> HIDE DEF d, spend, B
  <2>6. Try(acc, out_key, d, i, tag).found <=> out_can_be_to_acc(tag, d, i) /\ out_key = derive_public_key(d, i, B)
    BY <2>1, <2>3, <2>4, <2>5
  <2> QED BY <2>6 DEF d
<1>4. SharedDerivation(Account(w), P) = generate_key_derivation(P, a)
  BY <1>1 DEF SharedDerivation, DerivationFails
<1>5. /\ Len(AdditionalDerivations(Account(w), ks)) = Len(ks)
      /\ i <= Len(ks) => AdditionalDerivations(Account(w), ks)[i] = generate_key_derivation(ks[i], a)
  <2>1. AdditionalDerivations(Account(w), ks) = [n \in 1 .. Len(ks) |-> generate_key_derivation(ks[n], a)]
    BY <1>1, DecodingAll DEF AdditionalDerivations
  <2>2. Len(ks) \in Nat
    OBVIOUS
  <2> QED BY <2>1, <2>2
<1>6. ASSUME NEW Q, out_key = UnwrittenKey PROVE ~Mine(Q)
  <2>1. out_key.idx = 0
    BY <1>6 DEF UnwrittenKey
  <2>2. derive_public_key(generate_key_derivation(Q, a), i, B).idx = i
    BY DEF derive_public_key
  <2> QED BY <2>1, <2>2
<1>7. NotFound.found = FALSE
  BY DEF NotFound
<1> DEFINE shared == Try(acc, out_key, generate_key_derivation(P, a), i, tag)
           additional == Try(acc, out_key, generate_key_derivation(ks[i], a), i, tag)
<1>8. is_out_to_acc_precomp(acc, out_key, SharedDerivation(Account(w), P),
        AdditionalDerivations(Account(w), ks), i, tag) =
        IF out_key # UnwrittenKey /\ shared.found THEN shared
        ELSE IF out_key # UnwrittenKey /\ i <= Len(ks) THEN additional ELSE NotFound
  <2> HIDE DEF acc, a
  <2>1. is_out_to_acc_precomp(acc, out_key, SharedDerivation(Account(w), P),
          AdditionalDerivations(Account(w), ks), i, tag) =
          IF out_key # UnwrittenKey /\ shared.found THEN shared
          ELSE IF out_key # UnwrittenKey /\ i <= Len(ks)
               THEN Try(acc, out_key, AdditionalDerivations(Account(w), ks)[i], i, tag) ELSE NotFound
    BY <1>4, <1>5 DEF is_out_to_acc_precomp
  <2> HIDE DEF shared
  <2>2. i <= Len(ks) => Try(acc, out_key, AdditionalDerivations(Account(w), ks)[i], i, tag) = additional
    BY <1>5
  <2> HIDE DEF additional
  <2> QED BY <2>1, <2>2
<1>9. (shared.found <=> Mine(P)) /\ (additional.found <=> Mine(ks[i]))
  BY <1>3
<1>10. out_key = UnwrittenKey => ~Mine(P) /\ ~Mine(ks[i])
  BY <1>6
<1> HIDE DEF Mine, acc, a, shared, additional
<1>11. is_out_to_acc_precomp(acc, out_key, SharedDerivation(Account(w), P),
         AdditionalDerivations(Account(w), ks), i, tag).found
       <=> (Mine(P) \/ (i <= Len(ks) /\ Mine(ks[i])))
  <2>1. CASE out_key = UnwrittenKey
    BY <1>7, <1>8, <1>10, <2>1
  <2>2. CASE out_key # UnwrittenKey /\ shared.found
    BY <1>8, <1>9, <2>2
  <2>3. CASE out_key # UnwrittenKey /\ ~shared.found
    BY <1>7, <1>8, <1>9, <2>3
  <2> QED BY <2>1, <2>2, <2>3
<1> QED BY <1>2, <1>11 DEF acc

-----------------------------------------------------------------------------
(* The keys that are published decode: a transaction key that would not    *)
(* throws, and so does an additional key.                                  *)
ScanInv ==
  /\ (pc \in {"outputs", "money", "sign"} \/ result = "true") => check_key(txkey_pub)
  /\ \A n \in DOMAIN keys.additional : check_key(keys.additional[n])

(* InitScan: nothing is published at first.                                *)
LEMMA InitScan == Init => ScanInv
<1> SUFFICES ASSUME Init PROVE ScanInv
  OBVIOUS
<1>1. pc \in {"open", "extra"} /\ result = "none" /\ keys.additional = << >>
  BY DEF Init
<1>2. DOMAIN << >> = {}
  OBVIOUS
<1> QED BY <1>1, <1>2 DEF ScanInv

(* NextScan: every step keeps published keys decodable.                    *)
LEMMA NextScan == IInv /\ ExtraInv /\ ScanInv /\ [Next]_vars => ScanInv'
<1> SUFFICES ASSUME IInv, ExtraInv, ScanInv, [Next]_vars PROVE ScanInv'
  OBVIOUS
<1>0. TypeOK /\ (result = "none" <=> pc \notin {"close", "done"})
  BY DEF IInv, ExtraInv
<1>1. check_key(G) /\ \A P, k : check_key(P) => check_key(scalarmultKey(P, k))
  BY DEF check_key, G, scalarmultKey
<1>2. ASSUME UNCHANGED <<txkey_pub, keys>>,
             (pc' \in {"outputs", "money", "sign"} \/ result' = "true") =>
               (pc \in {"outputs", "money", "sign"} \/ result = "true")
      PROVE  ScanInv'
  BY <1>2 DEF ScanInv
<1>3. CASE SetTxPubKey
  <2> DEFINE single == SingleSubaddress(destinations, req.change)
             D == single_dest_subaddress(destinations, req.change).spend
             R == IF single THEN scalarmultKey(D, tx_key) ELSE scalarmultBase(tx_key)
  <2>1. CASE single /\ ~check_key(D)
    BY <1>0, <1>2, <1>3, <2>1 DEF SetTxPubKey, Return
  <2>2. CASE ~(single /\ ~check_key(D))
    <3>1. check_key(R)
      BY <1>1, <2>2 DEF scalarmultBase
    <3>2. txkey_pub' = R /\ keys' = keys
      BY <1>3, <2>2 DEF SetTxPubKey
    <3> QED BY <3>1, <3>2 DEF ScanInv
  <2> QED BY <2>1, <2>2
<1>4. CASE AddOutput
  <2>1. CASE (Return("false") \/ Return("throw")) /\ keys' = keys
    BY <1>0, <1>2, <1>4, <2>1 DEF AddOutput, Return
  <2>2. CASE keys' # keys
    <3> DEFINE i == Len(tx.vout) + 1
               d == destinations[i]
    <3>1. PICK before \in Uninitialised :
            keys' = [additional |-> keys.additional \o OutputKeys(d, i, NeedsKeys, before).additional,
                     amount |-> keys.amount \o OutputKeys(d, i, NeedsKeys, before).amount]
      BY <1>4, <2>2 DEF AddOutput, Return, NeedsKeys
    <3>2. NeedsKeys /\ d.is_subaddress => check_key(d.addr.spend)
      BY <1>4, <2>2 DEF AddOutput, NeedsKeys
    <3> DEFINE more == OutputKeys(d, i, NeedsKeys, before).additional
               one == IF d.is_subaddress THEN scalarmultKey(d.addr.spend, additional_tx_keys[i])
                                         ELSE scalarmultBase(additional_tx_keys[i])
    <3>3. more = << >> \/ (NeedsKeys /\ more = <<one>>)
      BY DEF OutputKeys
    <3>4. NeedsKeys => check_key(one)
      BY <1>1, <3>2 DEF scalarmultBase
    <3>5. keys.additional \in Seq(Point) /\ \A n \in DOMAIN keys.additional : check_key(keys.additional[n])
      BY <1>0 DEF TypeOK, ScanInv
    <3>6. keys'.additional = keys.additional \o more
      BY <3>1
    <3> HIDE DEF one, more
    <3>7. keys'.additional = keys.additional \/ (NeedsKeys /\ keys'.additional = Append(keys.additional, one))
      BY <3>3, <3>5, <3>6, ConcatEmptySeq
    <3>8. \A n \in DOMAIN keys'.additional : check_key(keys'.additional[n])
      <4>1. CASE keys'.additional = keys.additional
        BY <3>5, <4>1
      <4>2. CASE NeedsKeys /\ keys'.additional = Append(keys.additional, one)
        <5>1. \A n \in DOMAIN Append(keys.additional, one) :
                IF n = Len(keys.additional) + 1 THEN Append(keys.additional, one)[n] = one
                ELSE n \in DOMAIN keys.additional /\ Append(keys.additional, one)[n] = keys.additional[n]
          BY <3>5
        <5> QED BY <3>4, <3>5, <4>2, <5>1
      <4> QED BY <3>7, <4>1, <4>2
    <3>9. check_key(txkey_pub')
      BY <1>4 DEF AddOutput, ScanInv
    <3> QED BY <3>8, <3>9 DEF ScanInv
  <2>3. CASE keys' = keys /\ Goto("outputs")
    BY <1>2, <1>4, <2>3 DEF AddOutput, Goto
  <2> QED BY <1>4, <2>1, <2>2, <2>3 DEF AddOutput
<1>5. CASE OpenTx
  BY <1>2, <1>5 DEF OpenTx, Goto
<1>6. CASE EmptySources \/ UnparsableExtra \/ EncryptPaymentId \/ DummyPaymentId
  BY <1>0, <1>2, <1>6 DEF EmptySources, UnparsableExtra, EncryptPaymentId, DummyPaymentId, ExtraUnchanged, Goto, Return
<1>7. CASE AddInput
  BY <1>0, <1>2, <1>7 DEF AddInput, Goto, Return
<1>8. CASE ShuffleDestinations \/ SortInputs
  BY <1>0, <1>2, <1>8 DEF ShuffleDestinations, SortInputs, Goto
<1>9. CASE FinishExtra
  BY <1>0, <1>2, <1>9 DEF FinishExtra, Goto, Return
<1>10. CASE CheckMoney
  BY <1>0, <1>2, <1>10 DEF CheckMoney, Goto, Return
<1>11. CASE SignV1 \/ SignV2
  BY <1>0, <1>2, <1>11 DEF SignV1, SignV2, Return
<1>12. CASE CloseTx \/ Done \/ UNCHANGED vars
  BY <1>0, <1>2, <1>12 DEF CloseTx, Done, vars
<1> QED BY <1>3, <1>4, <1>5, <1>6, <1>7, <1>8, <1>9, <1>10, <1>11, <1>12 DEF Next

(* ReadBack: the public key read off a canonical extra is the transaction's.*)
LEMMA ReadBack ==
  ASSUME Canonical, tx.extra \in Seq(Field)
  PROVE  ReadPubKey = txkey_pub /\ ReadAdditional = keys.additional
<1>1. tx_extra_fields(tx.extra) = tx.extra
  BY ParsesWhole DEF Canonical
<1>2. /\ find_tx_extra_field_by_type(tx.extra, "pub_key", 1)
      /\ tx_extra_field(tx.extra, "pub_key", 1) = TheKey
  BY DEF Canonical, find_tx_extra_field_by_type, tx_extra_field
<1>3. ReadPubKey = TheKey.key
  BY <1>1, <1>2 DEF ReadPubKey, get_tx_pub_key_from_extra
<1> QED BY <1>3 DEF Canonical, TheKey

(* The older scanner and the one with a table agree on every output of a   *)
(* finished transaction, whoever scans and whatever was asked for.         *)
THEOREM ScannersAlwaysAgree == Spec => []ScannersAgree
<1>1. ASSUME IInv, ExtraInv, ScanInv PROVE ScannersAgree
  <2> SUFFICES ASSUME result = "true", NEW w \in Wallet, NEW i \in DOMAIN tx.vout
               PROVE  is_out_to_acc(Account(w), tx.vout[i].key, ReadPubKey, ReadAdditional, i,
                        tx.vout[i].view_tag)
                      <=> is_out_to_acc_precomp(MainOnly(w), tx.vout[i].key,
                            SharedDerivation(Account(w), ReadPubKey),
                            AdditionalDerivations(Account(w), ReadAdditional), i,
                            tx.vout[i].view_tag).found
    BY DEF ScannersAgree
  <2>1. ReadPubKey = txkey_pub /\ ReadAdditional = keys.additional
    BY <1>1, ReadBack DEF ExtraInv
  <2>2. /\ txkey_pub \in Point /\ check_key(txkey_pub) /\ keys.additional \in Seq(Point)
        /\ \A n \in DOMAIN keys.additional : check_key(keys.additional[n])
    BY <1>1 DEF IInv, TypeOK, ScanInv
  <2>3. i \in Nat \ {0} /\ tx.vout[i].key \in OneTimeKey
    <3> DEFINE output_type == [amount : Amount, key : OneTimeKey, view_tag : {NoTag} \cup (Point \X Nat)]
    <3>1. tx.vout \in Seq(output_type)
      BY <1>1 DEF IInv, TypeOK
    <3>2. i \in 1 .. Len(tx.vout) /\ Len(tx.vout) \in Nat /\ tx.vout[i] \in output_type
      <4> HIDE DEF output_type
      <4> QED BY <3>1
    <3> QED BY <3>2
  <2> QED BY <2>1, <2>2, <2>3, ScansAgree
<1> QED BY InitIInv, NextIInv, InitExtra, NextExtra, InitScan, NextScan, <1>1, PTL DEF Spec

-----------------------------------------------------------------------------
(* Rings and offsets.                                                      *)
Indices(src) == [n \in DOMAIN src.outputs |-> src.outputs[n].index]

(* IncreasingIsIdentity: a permutation that keeps the order moves nothing. *)
LEMMA IncreasingIsIdentity ==
  ASSUME NEW n \in Nat, NEW p \in [1 .. n -> 1 .. n],
         \A i, j \in 1 .. n : i < j => p[i] < p[j]
  PROVE  \A i \in 1 .. n : p[i] = i
<1> DEFINE A == {k \in Nat : k \in 1 .. n => p[k] >= k}
           B == {k \in Nat : k < n => p[n - k] <= n - k}
<1>1. \A k \in 1 .. n : p[k] \in 1 .. n
  OBVIOUS
<1>2. 0 \in A /\ 0 \in B
  BY <1>1
<1>3. ASSUME NEW k \in Nat, k \in A PROVE k + 1 \in A
  <2>1. CASE k \in 1 .. n /\ k + 1 \in 1 .. n
    <3>1. p[k] < p[k + 1] /\ p[k] \in 1 .. n /\ p[k + 1] \in 1 .. n
      BY <1>1, <2>1
    <3> QED BY <1>3, <2>1, <3>1
  <2>2. CASE k + 1 \notin 1 .. n
    BY <2>2
  <2>3. CASE k = 0 /\ k + 1 \in 1 .. n
    BY <1>1, <2>3
  <2> QED BY <2>1, <2>2, <2>3
<1>4. ASSUME NEW k \in Nat, k \in B PROVE k + 1 \in B
  <2>1. CASE k + 1 < n
    <3>1. n - k \in 1 .. n /\ n - (k + 1) \in 1 .. n /\ n - (k + 1) < n - k
      BY <2>1
    <3>2. p[n - (k + 1)] < p[n - k] /\ p[n - k] \in 1 .. n /\ p[n - (k + 1)] \in 1 .. n
      BY <1>1, <3>1
    <3>3. p[n - k] <= n - k
      BY <1>4, <2>1
    <3>4. p[n - (k + 1)] <= n - (k + 1)
      <4> DEFINE u == p[n - (k + 1)]
                 v == p[n - k]
      <4>1. u \in Int /\ v \in Int /\ u < v /\ v <= n - k
        BY <3>2, <3>3
      <4> HIDE DEF u, v
      <4>2. u <= n - (k + 1)
        BY <4>1
      <4> QED BY <4>2 DEF u
    <3> QED BY <3>4
  <2>2. CASE ~(k + 1 < n)
    BY <2>2
  <2> QED BY <2>1, <2>2
<1> HIDE DEF A, B
<1>5. Nat \subseteq A /\ Nat \subseteq B
  BY <1>2, <1>3, <1>4, Upwards
<1> SUFFICES ASSUME NEW i \in 1 .. n PROVE p[i] = i
  OBVIOUS
<1>6. i \in A /\ n - i \in B /\ n - i \in Nat /\ n - (n - i) = i /\ n - i < n
  BY <1>5
<1>7. p[i] >= i
  BY <1>6 DEF A
<1>8. p[n - (n - i)] <= n - (n - i)
  BY <1>6 DEF B
<1> QED BY <1>1, <1>6, <1>7, <1>8

(* SortedAscending: sorting what is in ascending order changes nothing.    *)
LEMMA SortedAscending ==
  ASSUME NEW off \in Seq(Nat), \A m, n \in DOMAIN off : m < n => off[m] < off[n],
         NEW res \in Sorted(off)
  PROVE  res = off
<1> DEFINE N == Len(off)
<1>1. PICK p \in Permutation(N) : res = Permuted(off, p)
  BY DEF Sorted
<1>2. N \in Nat /\ DOMAIN off = 1 .. N /\ \A i \in 1 .. N : off[i] \in Nat
  OBVIOUS
<1>3. p \in [1 .. N -> 1 .. N] /\ \A i, j \in 1 .. N : p[i] = p[j] => i = j
  BY <1>1 DEF Permutation
<1>4. DOMAIN res = 1 .. N /\ \A i \in 1 .. N : res[i] = off[p[i]]
  BY <1>1, <1>2 DEF Permuted
<1>5. \A m, n \in 1 .. N : m < n => res[m] <= res[n]
  BY <1>4 DEF Sorted
<1> HIDE DEF N
<1>6. ASSUME NEW i \in 1 .. N, NEW j \in 1 .. N, i < j PROVE p[i] < p[j]
  <2>1. p[i] \in 1 .. N /\ p[j] \in 1 .. N /\ p[i] # p[j]
    BY <1>2, <1>3, <1>6
  <2>2. off[p[i]] <= off[p[j]]
    BY <1>4, <1>5, <1>6
  <2>3. ~(p[j] < p[i])
    BY <1>2, <2>1, <2>2
  <2> QED BY <1>2, <2>1, <2>3
<1>7. \A i \in 1 .. N : p[i] = i
  BY <1>2, <1>3, <1>6, IncreasingIsIdentity
<1>8. \A i \in 1 .. N : res[i] = off[i]
  BY <1>4, <1>7
<1>9. res = [i \in 1 .. N |-> off[p[i]]]
  BY <1>1, <1>2 DEF Permuted
<1> QED BY <1>2, <1>7, <1>9

(* OffsetsAddUp: relative offsets of what is in ascending order add up to  *)
(* it again.                                                               *)
LEMMA OffsetsAddUp ==
  ASSUME NEW off \in Seq(Nat), \A m, n \in DOMAIN off : m < n => off[m] < off[n],
         NEW relative \in absolute_output_offsets_to_relative(off)
  PROVE  relative_output_offsets_to_absolute(relative) = off
<1> DEFINE N == Len(off)
           Adds(f) == f = [i \in 1 .. N |-> IF i = 1 THEN relative[1] ELSE relative[i] + f[i - 1]]
<1>1. N \in Nat /\ DOMAIN off = 1 .. N /\ \A i \in 1 .. N : off[i] \in Nat
  OBVIOUS
<1>2. relative = [i \in 1 .. N |-> IF i = 1 THEN off[1] ELSE off[i] - off[i - 1]]
  <2>1. PICK res \in Sorted(off) :
          relative = [i \in DOMAIN res |-> IF i = 1 THEN res[1] ELSE res[i] - res[i - 1]]
    BY DEF absolute_output_offsets_to_relative
  <2>2. res = off
    BY SortedAscending
  <2> QED BY <1>1, <2>1, <2>2
<1>3. off = [i \in 1 .. N |-> off[i]]
  BY <1>1
<1> HIDE DEF N
<1>4. Adds(off)
  <2>1. ASSUME NEW i \in 1 .. N
        PROVE  off[i] = IF i = 1 THEN relative[1] ELSE relative[i] + off[i - 1]
    <3>1. CASE i = 1
      BY <1>2, <3>1
    <3>2. CASE i # 1
      <4>1. i - 1 \in 1 .. N
        BY <1>1, <3>2
      <4>2. relative[i] = off[i] - off[i - 1]
        BY <1>2, <3>2
      <4> QED BY <1>1, <3>2, <4>1, <4>2
    <3> QED BY <3>1, <3>2
  <2> QED BY <1>3, <2>1
<1> DEFINE sum == CHOOSE f : Adds(f)
<1>5. Adds(sum)
  <2> HIDE DEF Adds
  <2> QED BY <1>4
<1>6. relative_output_offsets_to_absolute(relative) = [i \in 1 .. N |-> sum[i]]
  <2>1. DOMAIN relative = 1 .. N
    BY <1>2
  <2> QED BY <2>1 DEF relative_output_offsets_to_absolute
<1> HIDE DEF sum
<1>7. ASSUME NEW i \in 1 .. N
      PROVE  sum[i] = IF i = 1 THEN relative[1] ELSE relative[i] + sum[i - 1]
  BY <1>5
<1>8. ASSUME NEW i \in 1 .. N
      PROVE  off[i] = IF i = 1 THEN relative[1] ELSE relative[i] + off[i - 1]
  BY <1>4
<1> DEFINE P == {k \in Nat : k \in 1 .. N => sum[k] = off[k]}
<1>9. 0 \in P
  OBVIOUS
<1>10. ASSUME NEW k \in Nat, k \in P PROVE k + 1 \in P
  <2> SUFFICES ASSUME k + 1 \in 1 .. N PROVE sum[k + 1] = off[k + 1]
    OBVIOUS
  <2>1. CASE k = 0
    BY <1>7, <1>8, <2>1
  <2>2. CASE k # 0
    <3>1. k \in 1 .. N /\ k + 1 # 1 /\ k + 1 - 1 = k
      BY <1>1, <2>2
    <3>2. sum[k] = off[k]
      BY <1>10, <3>1
    <3>3. sum[k + 1] = relative[k + 1] + sum[k] /\ off[k + 1] = relative[k + 1] + off[k]
      BY <1>7, <1>8, <3>1
    <3> QED BY <3>2, <3>3
  <2> QED BY <2>1, <2>2
<1>11. Nat \subseteq P
  <2> HIDE DEF P
  <2> QED BY <1>9, <1>10, Upwards
<1>12. \A k \in 1 .. N : sum[k] = off[k]
  BY <1>1, <1>11
<1> QED BY <1>3, <1>6, <1>12

-----------------------------------------------------------------------------
(* What the signatures are made from.  The sources are the caller's, in    *)
(* another order; each input was made from the source at its index, with   *)
(* a secret that goes with the real output; a finished transaction is      *)
(* signed as it stands.                                                    *)
FullPair(pair) == pair.pub = secret_key_to_public_key(pair.sec)
InputOf(i) ==
  /\ sources[i].real_output \in DOMAIN sources[i].outputs
  /\ tx.vin[i].key_offsets \in absolute_output_offsets_to_relative(Indices(sources[i]))
  /\ req.sender.kind = "full" => FullPair(in_contexts[i])
Signed ==
  /\ Len(tx.vin) = Len(sources)
  /\ \A i \in DOMAIN sources : tx.signatures[i] = <<RingSignature(i, Prefix(tx))>>
SignInv ==
  /\ \A k \in DOMAIN sources : \E m \in DOMAIN req.sources : sources[k] = req.sources[m]
  /\ \A i \in DOMAIN tx.vin : InputOf(i)
  /\ (result = "true" /\ req.sender.kind = "full") => Signed

(* InitSign: no input is made, the sources are the caller's.               *)
LEMMA InitSign == Init => SignInv
<1> SUFFICES ASSUME Init PROVE SignInv
  OBVIOUS
<1>1. tx.vin = << >> /\ DOMAIN << >> = {} /\ result = "none" /\ sources = req.sources
  BY DEF Init, EmptyTx
<1> QED BY <1>1 DEF SignInv

(* PairIsFull: an account with the spend secret has the secret of the key. *)
LEMMA PairIsFull ==
  ASSUME NEW acc, acc.kind = "full", NEW out_key, NEW P, NEW ks, NEW i
  PROVE  FullPair(generate_key_image_helper(acc, out_key, P, ks, i).in_ephemeral)
BY DEF FullPair, generate_key_image_helper, in_ephemeral

(* SignStays: steps that leave sources, inputs and secrets alone and do    *)
(* not end the call with a transaction.                                    *)
LEMMA SignStays ==
  ASSUME SignInv, req' = req, sources' = sources, in_contexts' = in_contexts,
         tx'.vin = tx.vin, result' # "true"
  PROVE  SignInv'
BY DEF SignInv, InputOf

(* NextSign: every step keeps what the signatures are made from.           *)
LEMMA NextSign == IInv /\ ExtraInv /\ SignInv /\ [Next]_vars => SignInv'
<1> SUFFICES ASSUME IInv, ExtraInv, SignInv, [Next]_vars PROVE SignInv'
  OBVIOUS
<1>0. TypeOK /\ Phases /\ (result = "none" <=> pc \notin {"close", "done"})
  BY DEF IInv, ExtraInv
<1>1. /\ tx.vin \in Seq([amount : Amount, k_image : KeyImage, key_offsets : Seq(Int)])
      /\ in_contexts \in Seq([pub : OneTimeKey, sec : OneTimeSecretKey])
      /\ sources \in Seq(SourceEntry)
      /\ DOMAIN tx = {"extra", "vin", "vout", "signatures", "rct"}
  BY <1>0 DEF TypeOK
<1>2. CASE OpenTx
  BY <1>0, <1>2, SignStays DEF OpenTx, Goto
<1>3. CASE EmptySources \/ UnparsableExtra
  BY <1>0, <1>3, SignStays DEF EmptySources, UnparsableExtra, ExtraUnchanged, Goto, Return
<1>4. CASE EncryptPaymentId
  <2>1. tx'.vin = tx.vin /\ result' # "true"
    BY <1>0, <1>1, <1>4 DEF EncryptPaymentId, Goto, Return
  <2> QED BY <1>4, <2>1, SignStays DEF EncryptPaymentId, ExtraUnchanged
<1>5. CASE DummyPaymentId
  <2>1. tx'.vin = tx.vin /\ result' # "true"
    BY <1>0, <1>1, <1>5 DEF DummyPaymentId, Goto
  <2> QED BY <1>5, <2>1, SignStays DEF DummyPaymentId, ExtraUnchanged
<1>6. CASE AddInput
  <2>0. PICK k \in Nat : k = Len(tx.vin) + 1
    BY <1>1
  <2> DEFINE src == sources[k]
             out_key == src.outputs[src.real_output].dest
             made == generate_key_image_helper(req.sender, out_key,
                       src.real_out_tx_key, src.real_out_additional_tx_keys,
                       src.real_output_in_tx_index)
  <2>1. /\ UNCHANGED <<req, sources>> /\ Len(tx.vin) < Len(sources) /\ result = "none"
        /\ result' # "true"
    BY <1>0, <1>6 DEF AddInput, Goto, Return
  <2>2. CASE UNCHANGED <<tx, in_contexts>>
    BY <2>1, <2>2, SignStays
  <2>3. CASE /\ src.real_output <= Len(src.outputs)
             /\ in_contexts' = Append(in_contexts, made.in_ephemeral)
             /\ \E relative \in absolute_output_offsets_to_relative(Indices(src)) :
                  tx' = [tx EXCEPT !.vin = Append(@,
                    [amount |-> src.amount, k_image |-> made.k_image,
                     key_offsets |-> relative])]
    <3>1. PICK relative \in absolute_output_offsets_to_relative(Indices(src)) :
            tx' = [tx EXCEPT !.vin = Append(@,
              [amount |-> src.amount, k_image |-> made.k_image,
               key_offsets |-> relative])]
      BY <2>3
    <3> DEFINE input == [amount |-> src.amount, k_image |-> made.k_image,
                         key_offsets |-> relative]
    <3>2. tx'.vin = Append(tx.vin, input) /\ input.key_offsets = relative
      BY <1>1, <3>1
    <3> HIDE DEF input
    <3>3. k \in 1 .. Len(sources) /\ src \in SourceEntry
      BY <1>1, <2>0, <2>1
    <3>4. src.real_output \in DOMAIN src.outputs
      <4>1. src.real_output \in Nat \ {0} /\ src.outputs \in Seq(RingMember)
        BY <3>3 DEF SourceEntry
      <4>2. src.real_output <= Len(src.outputs)
        BY <2>3
      <4> HIDE DEF src
      <4> QED BY <4>1, <4>2
    <3>5. req.sender.kind = "full" => FullPair(made.in_ephemeral)
      <4>1. \A P, Q : req.sender.kind = "full" =>
              FullPair(generate_key_image_helper(req.sender, P, src.real_out_tx_key,
                         src.real_out_additional_tx_keys, src.real_output_in_tx_index).in_ephemeral)
        BY PairIsFull
      <4> QED BY <4>1
    <3> HIDE DEF made
    <3>6. Len(in_contexts) = Len(tx.vin)
      BY <1>0 DEF Phases
    <3>7. DOMAIN tx'.vin = 1 .. k /\ tx'.vin[k] = input /\ in_contexts'[k] = made.in_ephemeral
      BY <1>1, <2>0, <2>3, <3>2, <3>6
    <3>8. ASSUME NEW i \in 1 .. Len(tx.vin)
          PROVE  tx'.vin[i] = tx.vin[i] /\ in_contexts'[i] = in_contexts[i]
      BY <1>1, <2>3, <3>2, <3>6
    <3>9. InputOf(k)'
      BY <2>1, <3>1, <3>2, <3>4, <3>5, <3>7 DEF InputOf
    <3>10. ASSUME NEW i \in 1 .. Len(tx.vin) PROVE InputOf(i)'
      <4>1. InputOf(i)
        BY <1>1 DEF SignInv
      <4> QED BY <2>1, <3>8, <4>1 DEF InputOf
    <3>11. \A i \in 1 .. k : i = k \/ i \in 1 .. Len(tx.vin)
      BY <1>1, <2>0
    <3>12. \A i \in DOMAIN tx'.vin : InputOf(i)'
      BY <3>7, <3>9, <3>10, <3>11
    <3> QED BY <2>1, <3>12 DEF SignInv
  <2>4. \/ UNCHANGED <<tx, in_contexts>>
        \/ /\ src.real_output <= Len(src.outputs)
           /\ in_contexts' = Append(in_contexts, made.in_ephemeral)
           /\ \E relative \in absolute_output_offsets_to_relative(Indices(src)) :
                tx' = [tx EXCEPT !.vin = Append(@,
                  [amount |-> src.amount, k_image |-> made.k_image,
                   key_offsets |-> relative])]
    <3> DEFINE Adds(n) ==
          LET from == sources[n]
              helped == generate_key_image_helper(req.sender, from.outputs[from.real_output].dest,
                          from.real_out_tx_key, from.real_out_additional_tx_keys, from.real_output_in_tx_index)
          IN  \/ UNCHANGED <<tx, in_contexts>>
              \/ /\ from.real_output <= Len(from.outputs)
                 /\ in_contexts' = Append(in_contexts, helped.in_ephemeral)
                 /\ \E relative \in absolute_output_offsets_to_relative(Indices(from)) :
                      tx' = [tx EXCEPT !.vin = Append(@,
                        [amount |-> from.amount, k_image |-> helped.k_image,
                         key_offsets |-> relative])]
    <3>1. Adds(Len(tx.vin) + 1)
      BY <1>6 DEF AddInput, Indices
    <3> HIDE DEF Adds
    <3>2. Adds(k)
      BY <2>0, <3>1
    <3> QED BY <3>2 DEF Adds
  <2> QED BY <2>2, <2>3, <2>4
<1>7. CASE ShuffleDestinations
  BY <1>0, <1>7, SignStays DEF ShuffleDestinations, Goto
<1>8. CASE SortInputs
  <2>1. PICK p \in Permutation(Len(sources)) :
          /\ sources' = Permuted(sources, p)
          /\ in_contexts' = Permuted(in_contexts, p)
          /\ tx'.vin = Permuted(tx.vin, p)
    BY <1>1, <1>8 DEF SortInputs
  <2>2. Len(tx.vin) = Len(sources) /\ Len(in_contexts) = Len(sources) /\ req' = req
        /\ result' # "true"
    BY <1>0, <1>8 DEF SortInputs, Phases, Goto
  <2>3. DOMAIN sources' = 1 .. Len(sources) /\ DOMAIN tx'.vin = 1 .. Len(sources)
    BY <1>1, <2>1, <2>2 DEF Permuted
  <2>4. ASSUME NEW i \in 1 .. Len(sources)
        PROVE  /\ p[i] \in 1 .. Len(sources) /\ sources'[i] = sources[p[i]]
               /\ in_contexts'[i] = in_contexts[p[i]] /\ tx'.vin[i] = tx.vin[p[i]]
    BY <1>1, <2>1, <2>2, PermutedType
  <2>5. DOMAIN tx.vin = 1 .. Len(sources) /\ DOMAIN sources = 1 .. Len(sources)
    BY <1>1, <2>2
  <2>6. ASSUME NEW i \in 1 .. Len(sources) PROVE InputOf(i)'
    <3>1. InputOf(p[i])
      BY <2>4, <2>5 DEF SignInv
    <3> QED BY <2>2, <2>4, <3>1 DEF InputOf
  <2>7. \A k \in 1 .. Len(sources) : \E m \in DOMAIN req.sources : sources'[k] = req.sources[m]
    BY <2>4, <2>5 DEF SignInv
  <2> QED BY <2>2, <2>3, <2>6, <2>7 DEF SignInv
<1>9. CASE SetTxPubKey
  <2>1. tx'.vin = tx.vin /\ result' # "true"
    BY <1>0, <1>1, <1>9 DEF SetTxPubKey, Goto, Return
  <2> QED BY <1>9, <2>1, SignStays DEF SetTxPubKey
<1>10. CASE AddOutput
  <2>1. tx'.vin = tx.vin /\ result' # "true"
    BY <1>0, <1>1, <1>10 DEF AddOutput, Goto, Return
  <2> QED BY <1>10, <2>1, SignStays DEF AddOutput
<1>11. CASE FinishExtra
  <2>1. tx'.vin = tx.vin /\ result' # "true"
    BY <1>0, <1>1, <1>11 DEF FinishExtra, Goto, Return
  <2> QED BY <1>11, <2>1, SignStays DEF FinishExtra
<1>12. CASE CheckMoney
  BY <1>0, <1>12, SignStays DEF CheckMoney, Goto, Return
<1>13. CASE SignV1
  <2>1. UNCHANGED <<req, sources, in_contexts>> /\ Len(tx.vin) = Len(sources)
    BY <1>0, <1>13 DEF SignV1, Phases
  <2>2. /\ tx'.vin = tx.vin /\ Prefix(tx') = Prefix(tx)
        /\ tx'.signatures = [i \in DOMAIN sources |->
              IF req.sender.kind = "watch" THEN << >> ELSE <<RingSignature(i, Prefix(tx))>>]
    BY <1>1, <1>13 DEF SignV1, Prefix
  <2>3. ASSUME NEW i PROVE RingSignature(i, Prefix(tx))' = RingSignature(i, Prefix(tx))
    BY <2>1, <2>2 DEF RingSignature
  <2>4. (req.sender.kind = "full" => Signed)'
    <3>1. ASSUME req.sender.kind = "full", NEW i \in DOMAIN sources
          PROVE  tx'.signatures[i] = <<RingSignature(i, Prefix(tx))>>
      BY <2>2, <3>1
    <3>2. Len(tx'.vin) = Len(sources')
      BY <2>1, <2>2
    <3> QED BY <2>1, <2>3, <3>1, <3>2 DEF Signed
  <2> QED BY <2>1, <2>2, <2>4 DEF SignInv, InputOf
<1>14. CASE SignV2
  <2>1. UNCHANGED <<req, sources, in_contexts>> /\ Len(tx.vin) = Len(sources)
    BY <1>0, <1>14 DEF SignV2, Phases
  <2>2. DOMAIN Masked(tx) = DOMAIN tx /\ Masked(tx).extra = tx.extra
        /\ Len(Masked(tx).vin) = Len(tx.vin) /\ DOMAIN Masked(tx).vin = DOMAIN tx.vin
        /\ \A i \in DOMAIN tx.vin : Masked(tx).vin[i].key_offsets = tx.vin[i].key_offsets
    BY <1>1 DEF Masked
  <2>3. tx'.vin = Masked(tx).vin /\ tx'.vout = Masked(tx).vout /\ tx'.extra = Masked(tx).extra
    BY <1>1, <1>14, <2>2 DEF SignV2
  <2>4. \A i \in DOMAIN tx'.vin : InputOf(i)'
    BY <2>1, <2>2, <2>3 DEF SignInv, InputOf
  <2>5. CASE result' # "true"
    BY <2>1, <2>4, <2>5 DEF SignInv
  <2>6. CASE result' = "true"
    <3>1. tx'.signatures = [i \in DOMAIN sources |-> <<RingSignature(i, Prefix(Masked(tx)))>>]
      BY <1>1, <1>14, <2>2, <2>6 DEF SignV2, Return
    <3>2. Prefix(Masked(tx)) = Prefix(tx)'
      BY <2>3 DEF Prefix
    <3>3. Signed'
      BY <2>1, <2>2, <2>3, <3>1, <3>2, ZenonT(60) DEF Signed, RingSignature
    <3> QED BY <2>1, <2>4, <3>3 DEF SignInv
  <2> QED BY <2>5, <2>6
<1>15. CASE CloseTx \/ Done \/ UNCHANGED vars
  BY <1>15 DEF SignInv, InputOf, Signed, RingSignature, CloseTx, Done, vars
<1> QED BY <1>2, <1>3, <1>4, <1>5, <1>6, <1>7, <1>8, <1>9, <1>10, <1>11, <1>12, <1>13,
           <1>14, <1>15 DEF Next

(* A verifier accepts every signature of a finished transaction whose      *)
(* sources list their rings in ascending order: each is over the prefix    *)
(* that is sent and the ring that the input's relative offsets name, and   *)
(* made with the secret of the member the key image belongs to.            *)
THEOREM SignaturesAlwaysVerify == Spec => []SignaturesVerify
<1>1. Init => IInv /\ ExtraInv /\ InputsAligned /\ SignInv
  BY InitIInv, InitExtra, InitAligned, InitSign
<1>2. IInv /\ ExtraInv /\ InputsAligned /\ SignInv /\ [Next]_vars =>
        (IInv /\ ExtraInv /\ InputsAligned /\ SignInv)'
  BY NextIInv, NextExtra, NextAligned, NextSign
<1>3. IInv /\ InputsAligned /\ SignInv => SignaturesVerify
  <2> SUFFICES ASSUME IInv, InputsAligned, SignInv, result = "true",
                      req.sender.kind = "full", \A k \in DOMAIN sources : Ascending(sources[k]),
                      NEW i \in DOMAIN tx.vin
               PROVE  \E sig \in {tx.signatures[i][1]} :
                        /\ sig.prefix = Prefix(tx)
                        /\ sig.ring = ResolvedRing(tx.vin[i])
                        /\ sig.ring[sig.real] = secret_key_to_public_key(sig.sec)
                        /\ tx.vin[i].k_image = generate_key_image(sig.ring[sig.real], sig.sec)
    BY DEF SignaturesVerify
  <2> DEFINE src == sources[i]
             sig == RingSignature(i, Prefix(tx))
             off == Indices(src)
  <2>1. /\ tx.vin \in Seq([amount : Amount, k_image : KeyImage, key_offsets : Seq(Int)])
        /\ sources \in Seq(SourceEntry) /\ req \in Requests
    BY DEF IInv, TypeOK
  <2>2. Signed
    BY DEF SignInv
  <2>3. i \in DOMAIN sources
    BY <2>1, <2>2 DEF Signed
  <2>4. tx.signatures[i] = <<sig>> /\ tx.signatures[i][1] = sig
    BY <2>2, <2>3 DEF Signed
  <2>5. InputOf(i)
    BY DEF SignInv
  <2>6. src.outputs \in Seq(RingMember)
    <3>1. src \in SourceEntry
      BY <2>1, <2>3
    <3> HIDE DEF src
    <3> QED BY <3>1 DEF SourceEntry
  <2>7. off \in Seq(Nat) /\ DOMAIN off = DOMAIN src.outputs
    <3>1. ASSUME NEW o \in Seq(RingMember)
          PROVE  [n \in DOMAIN o |-> o[n].index] \in Seq(Nat)
      <4>1. DOMAIN o = 1 .. Len(o) /\ Len(o) \in Nat /\ \A n \in 1 .. Len(o) : o[n] \in RingMember
        OBVIOUS
      <4>2. \A n \in 1 .. Len(o) : o[n].index \in Nat
        BY <4>1 DEF RingMember
      <4> QED BY <4>1, <4>2
    <3> HIDE DEF src
    <3> QED BY <2>6, <3>1 DEF Indices
  <2>8. \A m, n \in DOMAIN off : m < n => off[m] < off[n]
    <3>1. Ascending(src)
      BY <2>3
    <3> HIDE DEF src
    <3> QED BY <2>7, <3>1 DEF Ascending, Indices
  <2>9. relative_output_offsets_to_absolute(tx.vin[i].key_offsets) = off
    <3>1. tx.vin[i].key_offsets \in absolute_output_offsets_to_relative(off)
      BY <2>5 DEF InputOf
    <3> HIDE DEF off
    <3> QED BY <2>7, <2>8, <3>1, OffsetsAddUp
  <2>10. ASSUME NEW n \in DOMAIN src.outputs
         PROVE  (CHOOSE o \in OutputsOnChain : o.index = off[n]).dest = src.outputs[n].dest
    <3>1. src.outputs[n] \in OutputsOnChain
      BY <2>3 DEF SignInv, OutputsOnChain, RingMembers
    <3>2. off[n] = src.outputs[n].index
      BY DEF Indices
    <3> DEFINE o == CHOOSE o \in OutputsOnChain : o.index = off[n]
    <3>3. o \in OutputsOnChain /\ o.index = off[n]
      <4> HIDE DEF src, off
      <4> QED BY <3>1, <3>2
    <3> HIDE DEF o, src, off
    <3>4. o.dest = src.outputs[n].dest
      BY <2>1, <3>1, <3>2, <3>3, OneChainAssumption DEF OutputsOnChain
    <3> QED BY <3>4 DEF o
  <2>11. sig.ring = ResolvedRing(tx.vin[i])
    <3>1. sig.ring = [n \in DOMAIN src.outputs |-> src.outputs[n].dest]
      BY DEF RingSignature
    <3>2. ResolvedRing(tx.vin[i]) =
            [n \in DOMAIN off |-> (CHOOSE o \in OutputsOnChain : o.index = off[n]).dest]
      BY <2>9 DEF ResolvedRing
    <3> HIDE DEF sig, src, off
    <3> QED BY <2>7, <2>10, <3>1, <3>2
  <2>12. sig.real = src.real_output /\ sig.sec = in_contexts[i].sec /\ sig.prefix = Prefix(tx)
    BY DEF RingSignature
  <2>13. sig.ring[sig.real] = src.outputs[src.real_output].dest
    BY <2>5 DEF RingSignature, InputOf
  <2>14. /\ in_contexts[i].pub = src.outputs[src.real_output].dest
         /\ tx.vin[i].k_image = generate_key_image(in_contexts[i].pub, in_contexts[i].sec)
    BY DEF InputsAligned
  <2>15. in_contexts[i].pub = secret_key_to_public_key(in_contexts[i].sec)
    BY <2>5 DEF InputOf, FullPair
  <2> HIDE DEF sig, src
  <2> QED BY <2>4, <2>11, <2>12, <2>13, <2>14, <2>15
<1> QED BY <1>1, <1>2, <1>3, PTL DEF Spec

-----------------------------------------------------------------------------
(* Sums of the first n of some amounts, a being a function on the numbers. *)
Adding(f, a, n) == f = [i \in 0 .. n |-> IF i = 0 THEN 0 ELSE f[i - 1] + a[i]]
Total(a, n) == (CHOOSE f : Adding(f, a, n))[n]

(* SumsExist: there are running sums of the first n amounts.               *)
LEMMA SumsExist ==
  ASSUME NEW a, NEW n \in Nat
  PROVE  \E f : Adding(f, a, n)
<1> DEFINE P == {k \in Nat : \E f : Adding(f, a, k)}
<1>1. 0 \in P
  <2> DEFINE f == [i \in 0 .. 0 |-> 0]
  <2>1. ASSUME NEW i \in 0 .. 0 PROVE i = 0
    OBVIOUS
  <2>2. f = [i \in 0 .. 0 |-> IF i = 0 THEN 0 ELSE f[i - 1] + a[i]]
    BY <2>1
  <2> HIDE DEF f
  <2> QED BY <2>2 DEF Adding
<1>2. ASSUME NEW k \in Nat, k \in P PROVE k + 1 \in P
  <2>1. PICK f : Adding(f, a, k)
    BY <1>2
  <2> DEFINE g == [i \in 0 .. k + 1 |-> IF i = k + 1 THEN f[k] + a[k + 1] ELSE f[i]]
  <2>2. ASSUME NEW i \in 0 .. k + 1 PROVE g[i] = IF i = 0 THEN 0 ELSE g[i - 1] + a[i]
    <3>1. CASE i = k + 1
      BY <3>1
    <3>2. CASE i # k + 1
      <4>1. i \in 0 .. k /\ g[i] = f[i]
        BY <3>2
      <4>2. i # 0 => i - 1 \in 0 .. k + 1 /\ i - 1 # k + 1 /\ g[i - 1] = f[i - 1]
        BY <3>2
      <4>3. f[i] = IF i = 0 THEN 0 ELSE f[i - 1] + a[i]
        BY <2>1, <4>1 DEF Adding
      <4> QED BY <4>1, <4>2, <4>3
    <3> QED BY <3>1, <3>2
  <2>3. g = [i \in 0 .. k + 1 |-> g[i]]
    OBVIOUS
  <2> HIDE DEF g
  <2>4. Adding(g, a, k + 1)
    BY <2>2, <2>3 DEF Adding
  <2> QED BY <2>4
<1> HIDE DEF P
<1>3. n \in P
  BY <1>1, <1>2, Upwards
<1> QED BY <1>3 DEF P

(* SumsAgree: functions that add up the same amounts agree.                *)
LEMMA SumsAgree ==
  ASSUME NEW a, NEW b, NEW f, NEW g, NEW m \in Nat, NEW n \in Nat, m <= n,
         Adding(f, a, m), Adding(g, b, n), \A i \in 1 .. m : a[i] = b[i]
  PROVE  f[m] = g[m]
<1> DEFINE P == {k \in Nat : k <= m => f[k] = g[k]}
<1>1. ASSUME NEW i \in 0 .. m
      PROVE  f[i] = IF i = 0 THEN 0 ELSE f[i - 1] + a[i]
  BY DEF Adding
<1>2. ASSUME NEW i \in 0 .. n
      PROVE  g[i] = IF i = 0 THEN 0 ELSE g[i - 1] + b[i]
  BY DEF Adding
<1>3. 0 \in P
  BY <1>1, <1>2
<1>4. ASSUME NEW k \in Nat, k \in P PROVE k + 1 \in P
  <2> SUFFICES ASSUME k + 1 <= m PROVE f[k + 1] = g[k + 1]
    OBVIOUS
  <2>1. k + 1 \in 0 .. m /\ k + 1 \in 0 .. n /\ k + 1 # 0 /\ k + 1 - 1 = k /\ k + 1 \in 1 .. m
    OBVIOUS
  <2>2. f[k] = g[k]
    BY <1>4, <2>1
  <2>3. f[k + 1] = f[k] + a[k + 1] /\ g[k + 1] = g[k] + b[k + 1]
    BY <1>1, <1>2, <2>1
  <2> QED BY <2>1, <2>2, <2>3
<1>5. Nat \subseteq P
  <2> HIDE DEF P
  <2> QED BY <1>3, <1>4, Upwards
<1> QED BY <1>5

(* TotalIs: any function that adds up says what the total is, and so do    *)
(* other amounts that are the same as far as it goes.                      *)
LEMMA TotalIs ==
  ASSUME NEW a, NEW b, NEW n \in Nat, \A i \in 1 .. n : a[i] = b[i],
         NEW f, Adding(f, b, n)
  PROVE  Total(a, n) = f[n]
<1> DEFINE g == CHOOSE g : Adding(g, a, n)
<1>1. Adding(g, a, n)
  BY SumsExist
<1> HIDE DEF g
<1>2. g[n] = f[n]
  BY <1>1, SumsAgree
<1> QED BY <1>2 DEF Total, g

(* TotalStep: how totals grow.                                             *)
LEMMA TotalStep ==
  ASSUME NEW a, NEW n \in Nat
  PROVE  Total(a, 0) = 0 /\ Total(a, n + 1) = Total(a, n) + a[n + 1]
<1>1. PICK f : Adding(f, a, n + 1)
  BY SumsExist
<1>2. PICK g : Adding(g, a, n)
  BY SumsExist
<1>3. PICK h : Adding(h, a, 0)
  BY SumsExist
<1>4. Total(a, 0) = h[0] /\ Total(a, n + 1) = f[n + 1] /\ Total(a, n) = g[n]
  BY <1>1, <1>2, <1>3, TotalIs
<1>5. f[n] = g[n]
  BY <1>1, <1>2, SumsAgree
<1>6. f[n + 1] = f[n] + a[n + 1]
  <2>1. n + 1 \in 0 .. n + 1 /\ n + 1 # 0 /\ n + 1 - 1 = n
    OBVIOUS
  <2>2. f[n + 1] = IF n + 1 = 0 THEN 0 ELSE f[n + 1 - 1] + a[n + 1]
    BY <1>1, <2>1 DEF Adding
  <2> QED BY <2>1, <2>2
<1>7. h[0] = 0
  BY <1>3 DEF Adding
<1> QED BY <1>4, <1>5, <1>6, <1>7

(* TotalGrows: amounts are not negative, so totals only grow.              *)
LEMMA TotalGrows ==
  ASSUME NEW a \in [Nat -> Nat], NEW m \in Nat, NEW n \in Nat, m <= n
  PROVE  Total(a, m) \in Nat /\ Total(a, n) \in Nat /\ Total(a, m) <= Total(a, n)
<1> DEFINE P == {k \in Nat : Total(a, k) \in Nat}
           Q == {k \in Nat : Total(a, m) <= Total(a, m + k)}
<1>1. ASSUME NEW k \in Nat PROVE Total(a, 0) = 0 /\ Total(a, k + 1) = Total(a, k) + a[k + 1]
  BY TotalStep
<1>2. 0 \in P /\ \A k \in Nat : k \in P => k + 1 \in P
  BY <1>1
<1>3. Nat \subseteq P
  <2> HIDE DEF P
  <2> QED BY <1>2, Upwards
<1>4. 0 \in Q
  BY <1>3
<1>5. ASSUME NEW k \in Nat, k \in Q PROVE k + 1 \in Q
  <2>1. m + k \in Nat /\ m + (k + 1) = (m + k) + 1
    OBVIOUS
  <2>2. Total(a, (m + k) + 1) = Total(a, m + k) + a[(m + k) + 1] /\ a[(m + k) + 1] \in Nat
    BY <1>1, <2>1
  <2>3. Total(a, m) \in Nat /\ Total(a, m + k) \in Nat
    BY <1>3, <2>1
  <2>4. Total(a, m) <= Total(a, m + k)
    BY <1>5
  <2>5. Total(a, m) <= Total(a, m + (k + 1))
    BY <2>1, <2>2, <2>3, <2>4
  <2> QED BY <2>5
<1>6. Nat \subseteq Q
  <2> HIDE DEF Q
  <2> QED BY <1>4, <1>5, Upwards
<1>7. n - m \in Nat /\ m + (n - m) = n
  OBVIOUS
<1>8. n - m \in Q
  BY <1>6, <1>7
<1>9. Total(a, m) <= Total(a, m + (n - m))
  BY <1>8
<1> QED BY <1>3, <1>7, <1>9

(* TotalSame: totals of the same amounts are the same.                     *)
LEMMA TotalSame ==
  ASSUME NEW a, NEW b, NEW n \in Nat, \A i \in 1 .. n : a[i] = b[i]
  PROVE  Total(a, n) = Total(b, n)
<1>1. PICK f : Adding(f, b, n)
  BY SumsExist
<1> QED BY <1>1, TotalIs

Without(a, k) == [i \in Nat |-> IF i < k THEN a[i] ELSE a[i + 1]]

(* TotalWithout: taking an amount out lowers the total by it.              *)
LEMMA TotalWithout ==
  ASSUME NEW a \in [Nat -> Nat], NEW n \in Nat, NEW k \in 1 .. n + 1
  PROVE  Total(a, n + 1) = Total(Without(a, k), n) + a[k]
<1> DEFINE w == Without(a, k)
           P == {m \in Nat : k <= m + 1 => Total(a, m + 1) = Total(w, m) + a[k]}
<1>1. w \in [Nat -> Nat] /\ \A i \in Nat : w[i] = IF i < k THEN a[i] ELSE a[i + 1]
  BY DEF Without
<1>2. k \in Nat \ {0} /\ a[k] \in Nat
  OBVIOUS
<1> HIDE DEF w
<1>3. ASSUME NEW m \in Nat
      PROVE  /\ Total(a, m + 1) = Total(a, m) + a[m + 1] /\ Total(w, m + 1) = Total(w, m) + w[m + 1]
             /\ Total(a, m) \in Nat /\ Total(w, m) \in Nat
  <2>1. m <= m
    OBVIOUS
  <2>2. Total(a, m) \in Nat /\ Total(w, m) \in Nat
    BY <1>1, <2>1, TotalGrows
  <2>3. Total(a, m + 1) = Total(a, m) + a[m + 1]
    BY TotalStep
  <2>4. Total(w, m + 1) = Total(w, m) + w[m + 1]
    BY TotalStep
  <2> QED BY <2>2, <2>3, <2>4
<1>4. ASSUME NEW m \in Nat, k = m + 1 PROVE Total(w, m) = Total(a, m)
  <2>1. \A i \in 1 .. m : w[i] = a[i]
    BY <1>1, <1>4
  <2> QED BY <2>1, TotalSame
<1>5. 0 \in P
  <2> SUFFICES ASSUME k <= 0 + 1 PROVE Total(a, 0 + 1) = Total(w, 0) + a[k]
    OBVIOUS
  <2>1. k = 0 + 1
    BY <1>2
  <2> QED BY <1>3, <1>4, <2>1
<1>6. ASSUME NEW m \in Nat, m \in P PROVE m + 1 \in P
  <2> SUFFICES ASSUME k <= (m + 1) + 1 PROVE Total(a, (m + 1) + 1) = Total(w, m + 1) + a[k]
    OBVIOUS
  <2>1. Total(a, (m + 1) + 1) = Total(a, m + 1) + a[(m + 1) + 1] /\ Total(a, m + 1) \in Nat
    BY <1>3
  <2>2. CASE k = (m + 1) + 1
    <3>1. Total(w, m + 1) = Total(a, m + 1)
      BY <1>4, <2>2
    <3> QED BY <2>1, <2>2, <3>1
  <2>3. CASE k # (m + 1) + 1
    <3>1. k <= m + 1
      BY <1>2, <2>3
    <3>2. Total(a, m + 1) = Total(w, m) + a[k]
      BY <1>6, <3>1
    <3>3. Total(w, m + 1) = Total(w, m) + a[(m + 1) + 1]
      BY <1>1, <1>3, <3>1
    <3>4. a[(m + 1) + 1] \in Nat /\ Total(w, m) \in Nat
      BY <1>3
    <3> QED BY <1>2, <2>1, <3>2, <3>3, <3>4
  <2> QED BY <2>2, <2>3
<1>7. Nat \subseteq P
  <2> HIDE DEF P
  <2> QED BY <1>5, <1>6, Upwards
<1>8. k <= n + 1 /\ n \in P
  BY <1>7
<1>9. Total(a, n + 1) = Total(w, n) + a[k]
  BY <1>8
<1> QED BY <1>9 DEF w

Reordered(a, p) == [i \in Nat |-> IF i \in DOMAIN p THEN a[p[i]] ELSE 0]

(* TotalPermuted: the order of amounts does not change what they add up to.*)
LEMMA TotalPermuted ==
  ASSUME NEW a \in [Nat -> Nat], NEW n \in Nat, NEW p \in Permutation(n)
  PROVE  Total(Reordered(a, p), n) = Total(a, n)
<1> DEFINE Same(m, q) == Total(Reordered(a, q), m) = Total(a, m)
           P == {m \in Nat : \A q \in Permutation(m) : Same(m, q)}
<1>1. 0 \in P
  BY TotalStep
<1>2. ASSUME NEW m \in Nat, m \in P, NEW q \in Permutation(m + 1) PROVE Same(m + 1, q)
  <2>0. m + 1 \in Nat /\ \A x \in 1 .. m + 1 : x # m + 1 => x \in 1 .. m
    OBVIOUS
  <2>1. /\ DOMAIN q = 1 .. m + 1 /\ q = [i \in 1 .. m + 1 |-> q[i]]
        /\ \A i \in 1 .. m + 1 : q[i] \in 1 .. m + 1
        /\ \A i, j \in 1 .. m + 1 : q[i] = q[j] => i = j
    BY DEF Permutation
  <2>2. PICK k \in 1 .. m + 1 : q[k] = m + 1
    <3> SUFFICES ASSUME \A k \in 1 .. m + 1 : q[k] # m + 1 PROVE FALSE
      OBVIOUS
    <3>1. q \in [1 .. m + 1 -> 1 .. m]
      <4>1. \A i \in 1 .. m + 1 : q[i] \in 1 .. m
        BY <2>0, <2>1
      <4> QED BY <2>1, <4>1
    <3>2. IsFiniteSet(1 .. m + 1) /\ IsFiniteSet(1 .. m)
      BY FS_Interval
    <3>3. Cardinality(1 .. m + 1) = m + 1 /\ Cardinality(1 .. m) = m
      BY FS_Interval
    <3>4. \E i, j \in 1 .. m + 1 : i # j /\ q[i] = q[j]
      <4>1. Cardinality(1 .. m) < Cardinality(1 .. m + 1)
        BY <3>3
      <4> QED BY <3>1, <3>2, <4>1, FS_PigeonHole
    <3> QED BY <2>1, <3>4
  <2> DEFINE r == [i \in 1 .. m |-> IF i < k THEN q[i] ELSE q[i + 1]]
             b == Reordered(a, q)
  <2>3. r \in [1 .. m -> 1 .. m]
    <3> SUFFICES ASSUME NEW i \in 1 .. m PROVE r[i] \in 1 .. m
      OBVIOUS
    <3>1. i \in 1 .. m + 1 /\ i + 1 \in 1 .. m + 1 /\ (i < k => i # k) /\ (~(i < k) => i + 1 # k)
      OBVIOUS
    <3>2. \A j \in 1 .. m + 1 : j # k => q[j] \in 1 .. m
      BY <2>0, <2>1, <2>2
    <3> QED BY <3>1, <3>2
  <2>4. \A i, j \in 1 .. m : r[i] = r[j] => i = j
    <3> SUFFICES ASSUME NEW i \in 1 .. m, NEW j \in 1 .. m, r[i] = r[j] PROVE i = j
      OBVIOUS
    <3> DEFINE x == IF i < k THEN i ELSE i + 1
               y == IF j < k THEN j ELSE j + 1
    <3>1. x \in 1 .. m + 1 /\ y \in 1 .. m + 1 /\ q[x] = r[i] /\ q[y] = r[j]
      OBVIOUS
    <3>2. x = y
      BY <2>1, <3>1
    <3> QED BY <3>2
  <2>5. r \in Permutation(m)
    BY <2>3, <2>4 DEF Permutation
  <2>6. b \in [Nat -> Nat]
    <3>1. \A i \in DOMAIN q : q[i] \in Nat
      BY <2>1
    <3> QED BY <3>1 DEF Reordered
  <2>7. Total(b, m + 1) = Total(Without(b, k), m) + b[k]
    <3> HIDE DEF b
    <3> QED BY <2>6, TotalWithout
  <2>8. b[k] = a[m + 1]
    BY <2>1, <2>2 DEF Reordered
  <2>9. ASSUME NEW i \in 1 .. m PROVE Without(b, k)[i] = Reordered(a, r)[i]
    <3>1. i \in Nat /\ i \in 1 .. m + 1 /\ i + 1 \in 1 .. m + 1
      OBVIOUS
    <3>2. Without(b, k)[i] = IF i < k THEN b[i] ELSE b[i + 1]
      BY <3>1 DEF Without
    <3>3. b[i] = a[q[i]] /\ b[i + 1] = a[q[i + 1]]
      BY <2>1, <3>1 DEF Reordered
    <3>4. Reordered(a, r)[i] = a[r[i]]
      BY <2>3, <3>1 DEF Reordered
    <3>5. r[i] = IF i < k THEN q[i] ELSE q[i + 1]
      OBVIOUS
    <3> HIDE DEF b, r
    <3> QED BY <3>2, <3>3, <3>4, <3>5
  <2>10. Total(Without(b, k), m) = Total(Reordered(a, r), m)
    <3> HIDE DEF b, r
    <3> QED BY <2>9, TotalSame
  <2>11. Same(m, r)
    BY <1>2, <2>5
  <2>12. Total(a, m + 1) = Total(a, m) + a[m + 1]
    BY TotalStep
  <2> HIDE DEF r
  <2> QED BY <2>7, <2>8, <2>10, <2>11, <2>12
<1>3. Nat \subseteq P
  <2>1. \A m \in Nat : m \in P => m + 1 \in P
    BY <1>2
  <2> HIDE DEF P
  <2> QED BY <1>1, <2>1, Upwards
<1>4. n \in P
  BY <1>3
<1> QED BY <1>4

-----------------------------------------------------------------------------
(* The amounts of entries, as a function on the numbers. *)
AmountsOf(s) == [i \in Nat |-> IF i \in DOMAIN s THEN s[i].amount ELSE 0]

(* AmountInIs: what entries hold is the total of their amounts.            *)
LEMMA AmountInIs ==
  ASSUME NEW s, Len(s) \in Nat, DOMAIN s = 1 .. Len(s)
  PROVE  AmountIn(s) = Total(AmountsOf(s), Len(s))
<1> DEFINE n == Len(s)
           a == AmountsOf(s)
           Adds(f) == f = [i \in 0 .. n |-> IF i = 0 THEN 0 ELSE f[i - 1] + s[i].amount]
<1>1. ASSUME NEW i \in 1 .. n PROVE a[i] = s[i].amount
  BY DEF AmountsOf
<1> HIDE DEF a
<1>2. ASSUME NEW f PROVE Adds(f) <=> Adding(f, a, n)
  <2>1. ASSUME NEW i \in 0 .. n
        PROVE  (IF i = 0 THEN 0 ELSE f[i - 1] + s[i].amount) = (IF i = 0 THEN 0 ELSE f[i - 1] + a[i])
    <3>1. CASE i = 0
      BY <3>1
    <3>2. CASE i # 0
      <4>1. i \in 1 .. n
        BY <3>2
      <4> QED BY <1>1, <3>2, <4>1
    <3> QED BY <3>1, <3>2
  <2>2. [i \in 0 .. n |-> IF i = 0 THEN 0 ELSE f[i - 1] + s[i].amount]
          = [i \in 0 .. n |-> IF i = 0 THEN 0 ELSE f[i - 1] + a[i]]
    BY <2>1
  <2> QED BY <2>2 DEF Adding
<1>3. \E f : Adds(f)
  <2>1. PICK f : Adding(f, a, n)
    BY SumsExist
  <2> HIDE DEF Adds
  <2> QED BY <1>2, <2>1
<1> DEFINE sum == CHOOSE f : Adds(f)
<1>4. Adds(sum)
  <2> HIDE DEF Adds
  <2> QED BY <1>3
<1>5. AmountIn(s) = sum[n]
  BY DEF AmountIn
<1> HIDE DEF sum
<1>6. Adding(sum, a, n)
  BY <1>2, <1>4
<1>7. Total(a, n) = sum[n]
  BY <1>6, TotalIs
<1> QED BY <1>5, <1>7 DEF a

(* AmountsType: amounts are numbers.                                       *)
LEMMA AmountsType ==
  ASSUME NEW s \in Seq(SourceEntry) \cup Seq(DestinationEntry)
  PROVE  /\ AmountsOf(s) \in [Nat -> Nat]
         /\ \A i \in 1 .. Len(s) : AmountsOf(s)[i] = s[i].amount /\ s[i].amount \in Amount
         /\ Len(s) \in Nat /\ DOMAIN s = 1 .. Len(s)
         /\ AmountIn(s) = Total(AmountsOf(s), Len(s))
<1>1. Len(s) \in Nat /\ DOMAIN s = 1 .. Len(s)
  OBVIOUS
<1>2. \A i \in 1 .. Len(s) : s[i].amount \in Amount
  <2>1. CASE s \in Seq(SourceEntry)
    <3>1. \A i \in 1 .. Len(s) : s[i] \in SourceEntry
      BY <2>1
    <3> QED BY <3>1 DEF SourceEntry
  <2>2. CASE s \in Seq(DestinationEntry)
    <3>1. \A i \in 1 .. Len(s) : s[i] \in DestinationEntry
      BY <2>2
    <3> QED BY <3>1 DEF DestinationEntry
  <2> QED BY <2>1, <2>2
<1>3. Amount \subseteq Nat
  BY ModulusAssumption DEF Amount
<1>4. AmountsOf(s) \in [Nat -> Nat]
  <2>1. \A i \in Nat : (IF i \in DOMAIN s THEN s[i].amount ELSE 0) \in Nat
    BY <1>1, <1>2, <1>3
  <2> QED BY <2>1 DEF AmountsOf
<1>5. \A i \in 1 .. Len(s) : AmountsOf(s)[i] = s[i].amount
  BY <1>1 DEF AmountsOf
<1>6. AmountIn(s) = Total(AmountsOf(s), Len(s))
  BY <1>1, AmountInIs
<1> QED BY <1>1, <1>2, <1>4, <1>5, <1>6

(* NoWrap: a running total within a word is added to without wrapping.     *)
LEMMA NoWrap ==
  ASSUME NEW s \in Seq(SourceEntry) \cup Seq(DestinationEntry), AmountIn(s) < Modulus,
         NEW n \in Nat, n + 1 <= Len(s)
  PROVE  Plus(Total(AmountsOf(s), n), s[n + 1].amount) = Total(AmountsOf(s), n + 1)
<1>1. /\ AmountsOf(s) \in [Nat -> Nat] /\ AmountIn(s) = Total(AmountsOf(s), Len(s)) /\ Len(s) \in Nat
      /\ AmountsOf(s)[n + 1] = s[n + 1].amount
  <2>1. /\ AmountsOf(s) \in [Nat -> Nat] /\ AmountIn(s) = Total(AmountsOf(s), Len(s)) /\ Len(s) \in Nat
        /\ \A i \in 1 .. Len(s) : AmountsOf(s)[i] = s[i].amount
    BY AmountsType
  <2>2. n + 1 \in 1 .. Len(s)
    BY <2>1
  <2> QED BY <2>1, <2>2
<1> DEFINE a == AmountsOf(s)
           N == Len(s)
<1>2. n + 1 \in Nat /\ N \in Nat /\ a \in [Nat -> Nat] /\ n + 1 <= N /\ N <= N
  <2>1. N \in Nat /\ a \in [Nat -> Nat] /\ n + 1 <= N
    BY <1>1
  <2> HIDE DEF a, N
  <2> QED BY <2>1, SMTT(30)
<1>3. Total(a, N) < Modulus /\ a[n + 1] = s[n + 1].amount
  BY <1>1
<1> HIDE DEF a, N
<1>4. Total(a, n + 1) \in Nat /\ Total(a, N) \in Nat /\ Total(a, n + 1) <= Total(a, N)
  BY <1>2, TotalGrows
<1>5. Total(a, n + 1) = Total(a, n) + a[n + 1]
  BY TotalStep
<1>6. Total(a, n + 1) < Modulus /\ Modulus \in Nat \ {0}
  BY <1>3, <1>4, ModulusAssumption
<1>7. Total(a, n + 1) % Modulus = Total(a, n + 1)
  BY <1>4, <1>6
<1>8. Plus(Total(a, n), a[n + 1]) = Total(a, n + 1)
  BY <1>5, <1>7 DEF Plus
<1> QED BY <1>3, <1>8 DEF a

(* ShuffledAmounts: a shuffle changes no sum.                              *)
LEMMA ShuffledAmounts ==
  ASSUME NEW s \in Seq(DestinationEntry), NEW p \in Permutation(Len(s))
  PROVE  AmountIn(Permuted(s, p)) = AmountIn(s)
<1> DEFINE t == Permuted(s, p)
<1>1. t \in Seq(DestinationEntry) /\ Len(t) = Len(s)
      /\ \A i \in 1 .. Len(s) : p[i] \in 1 .. Len(s) /\ t[i] = s[p[i]]
  BY PermutedType
<1>2. AmountsOf(s) \in [Nat -> Nat] /\ AmountIn(s) = Total(AmountsOf(s), Len(s)) /\ Len(s) \in Nat
  BY AmountsType
<1>3. \A i \in 1 .. Len(s) : AmountsOf(s)[i] = s[i].amount
  BY AmountsType
<1>4. AmountIn(t) = Total(AmountsOf(t), Len(s)) /\ \A i \in 1 .. Len(s) : AmountsOf(t)[i] = t[i].amount
  <2> HIDE DEF t
  <2> QED BY <1>1, AmountsType
<1>5. ASSUME NEW i \in 1 .. Len(s) PROVE AmountsOf(t)[i] = Reordered(AmountsOf(s), p)[i]
  <2>1. DOMAIN p = 1 .. Len(s) /\ i \in Nat
    BY <1>2 DEF Permutation
  <2>2. Reordered(AmountsOf(s), p)[i] = AmountsOf(s)[p[i]]
    BY <2>1 DEF Reordered
  <2> HIDE DEF t
  <2> QED BY <1>1, <1>3, <1>4, <2>2
<1> HIDE DEF t
<1>6. Total(AmountsOf(t), Len(s)) = Total(Reordered(AmountsOf(s), p), Len(s))
  BY <1>2, <1>5, TotalSame
<1>7. Total(Reordered(AmountsOf(s), p), Len(s)) = Total(AmountsOf(s), Len(s))
  BY <1>2, TotalPermuted
<1> QED BY <1>2, <1>4, <1>6, <1>7 DEF t

-----------------------------------------------------------------------------
(* The two sums on the way: of the inputs made so far, and of the outputs; *)
(* after the loops they are those of the request, which the shuffle does   *)
(* not change, and they are compared before the fee is taken.              *)
InWord == TotalIn(req) < Modulus /\ TotalOut(req) < Modulus
Money ==
  /\ pc \in {"open", "extra", "inputs"} =>
       sources = req.sources /\ money.ins = Total(AmountsOf(sources), Len(tx.vin))
  /\ pc \in {"sort", "pubkey", "outputs", "money", "sign"} => money.ins = TotalIn(req)
  /\ AmountIn(destinations) = TotalOut(req)
  /\ pc \in {"open", "extra", "inputs", "sort", "pubkey", "outputs"} =>
       money.outs = Total(AmountsOf(destinations), Len(tx.vout))
  /\ pc \in {"money", "sign"} => money.outs = TotalOut(req)
  /\ pc = "sign" => money.outs <= money.ins
  /\ (result = "true" /\ req.version = 2) => TotalIn(req) = TotalOut(req) + tx.rct.fee
MoneyInv == InWord => Money

(* InitMoney: nothing is added up yet.                                     *)
LEMMA InitMoney == Init => MoneyInv
<1> SUFFICES ASSUME Init PROVE Money
  BY DEF MoneyInv
<1>1. /\ pc \in {"open", "extra"} /\ result = "none" /\ sources = req.sources
      /\ destinations = req.destinations /\ tx.vin = << >> /\ tx.vout = << >>
      /\ money = [ins |-> 0, outs |-> 0]
  BY DEF Init, EmptyTx
<1>2. Len(<< >>) = 0 /\ Total(AmountsOf(sources), 0) = 0 /\ Total(AmountsOf(destinations), 0) = 0
  BY TotalStep
<1> QED BY <1>1, <1>2 DEF Money, TotalOut

(* MoneyStays: steps that add nothing up.                                  *)
LEMMA MoneyStays ==
  ASSUME Money, UNCHANGED <<req, sources, destinations, money>>,
         Len(tx'.vin) = Len(tx.vin), Len(tx'.vout) = Len(tx.vout), result' # "true",
         pc' \in {"open", "extra", "inputs"} => pc \in {"open", "extra", "inputs"},
         pc' \in {"sort", "pubkey", "outputs"} => pc \in {"sort", "pubkey", "outputs"},
         pc' \notin {"money", "sign"}
  PROVE  Money'
BY DEF Money, TotalIn, TotalOut

(* NextMoney: every step keeps the sums right.                             *)
LEMMA NextMoney == IInv /\ ExtraInv /\ MoneyInv /\ [Next]_vars => MoneyInv'
<1> SUFFICES ASSUME IInv, ExtraInv, MoneyInv, [Next]_vars, InWord' PROVE Money'
  BY DEF MoneyInv
<1>0. TypeOK /\ Phases /\ (result = "none" <=> pc \notin {"close", "done"})
  BY DEF IInv, ExtraInv
<1>1. req' = req
  BY DEF Next, OpenTx, EmptySources, UnparsableExtra, EncryptPaymentId, DummyPaymentId,
         ExtraUnchanged, AddInput, ShuffleDestinations, SortInputs, SetTxPubKey, AddOutput,
         FinishExtra, CheckMoney, SignV1, SignV2, CloseTx, Done, vars
<1>2. InWord /\ Money
  BY <1>1 DEF InWord, MoneyInv, TotalIn, TotalOut
<1>3. /\ DOMAIN tx = {"extra", "vin", "vout", "signatures", "rct"}
      /\ tx.vin \in Seq([amount : Amount, k_image : KeyImage, key_offsets : Seq(Int)])
      /\ tx.vout \in Seq([amount : Amount, key : OneTimeKey,
                          view_tag : {NoTag} \cup (Point \X Nat)])
      /\ sources \in Seq(SourceEntry) /\ destinations \in Seq(DestinationEntry)
      /\ money \in [ins : Amount, outs : Amount]
  BY <1>0 DEF TypeOK
<1>4. req.sources \in Seq(SourceEntry) /\ req.destinations \in Seq(DestinationEntry)
  BY <1>0, RequestTypes DEF Request
<1>5. CASE OpenTx
  BY <1>0, <1>2, <1>5, MoneyStays DEF OpenTx, Goto
<1>6. CASE EmptySources \/ UnparsableExtra
  BY <1>0, <1>2, <1>6, MoneyStays DEF EmptySources, UnparsableExtra, ExtraUnchanged, Goto, Return
<1>7. CASE EncryptPaymentId \/ DummyPaymentId
  <2>1. /\ tx'.vin = tx.vin /\ tx'.vout = tx.vout /\ result' # "true"
        /\ pc' \in {"inputs", "close", "done"} /\ pc = "extra"
    BY <1>0, <1>3, <1>7 DEF EncryptPaymentId, DummyPaymentId, Goto, Return
  <2>2. UNCHANGED <<req, sources, destinations, money>>
    BY <1>7 DEF EncryptPaymentId, DummyPaymentId, ExtraUnchanged
  <2> QED BY <1>2, <2>1, <2>2, MoneyStays
<1>8. CASE AddInput
  <2>0. PICK k \in Nat : k = Len(tx.vin)
    BY <1>3
  <2>1. /\ UNCHANGED <<sources, destinations>> /\ pc = "inputs" /\ k + 1 <= Len(sources)
        /\ result' # "true" /\ tx'.vout = tx.vout
    <3>1. UNCHANGED <<sources, destinations>> /\ pc = "inputs" /\ Len(tx.vin) < Len(sources)
      BY <1>8 DEF AddInput
    <3>2. Len(sources) \in Nat
      BY <1>3
    <3>3. result' # "true" /\ tx'.vout = tx.vout
      BY <1>0, <1>3, <1>8 DEF AddInput, Goto, Return
    <3> QED BY <2>0, <3>1, <3>2, <3>3
  <2>2. CASE pc' # "inputs"
    <3>1. pc' \in {"close", "done"}
      BY <1>8, <2>1, <2>2 DEF AddInput, Goto, Return
    <3> QED BY <1>1, <1>2, <2>1, <3>1 DEF Money, TotalOut
  <2>3. CASE pc' = "inputs"
    <3>1. /\ money' = [money EXCEPT !.ins = Plus(@, sources[k + 1].amount)]
          /\ \E x : tx' = [tx EXCEPT !.vin = Append(@, x)]
      BY <1>8, <2>0, <2>3 DEF AddInput, Return
    <3>2. Len(tx'.vin) = k + 1
      BY <1>3, <2>0, <3>1
    <3>3. money'.ins = Plus(money.ins, sources[k + 1].amount) /\ money'.outs = money.outs
      BY <1>3, <3>1
    <3>4. money.ins = Total(AmountsOf(sources), k) /\ sources = req.sources
      BY <1>2, <2>0, <2>1 DEF Money
    <3>5. AmountIn(sources) < Modulus
      BY <1>2, <3>4 DEF InWord, TotalIn
    <3>6. money'.ins = Total(AmountsOf(sources), k + 1)
      BY <1>3, <2>1, <3>3, <3>4, <3>5, NoWrap
    <3> QED BY <1>1, <1>2, <2>1, <2>3, <3>2, <3>3, <3>4, <3>6 DEF Money, TotalOut
  <2> QED BY <2>2, <2>3
<1>9. CASE ShuffleDestinations
  <2>1. /\ UNCHANGED <<sources, tx, money>> /\ pc = "inputs" /\ pc' = "sort" /\ result' # "true"
        /\ Len(tx.vin) = Len(sources) /\ tx.vout = << >>
    BY <1>0, <1>9 DEF ShuffleDestinations, Goto, Phases
  <2>2. AmountIn(destinations') = AmountIn(destinations)
    BY <1>3, <1>9, ShuffledAmounts DEF ShuffleDestinations
  <2>3. money.ins = TotalIn(req)
    BY <1>2, <1>4, <2>1, AmountsType DEF Money, TotalIn
  <2>4. Len(<< >>) = 0 /\ Total(AmountsOf(destinations), 0) = 0 /\ Total(AmountsOf(destinations'), 0) = 0
    BY TotalStep
  <2>5. money'.outs = Total(AmountsOf(destinations'), Len(tx'.vout))
    BY <1>2, <2>1, <2>4 DEF Money
  <2> QED BY <1>1, <1>2, <2>1, <2>2, <2>3, <2>5 DEF Money, TotalIn, TotalOut
<1>10. CASE SortInputs
  <2>1. /\ UNCHANGED <<destinations, money>> /\ pc = "sort" /\ pc' = "pubkey" /\ result' # "true"
        /\ tx'.vout = tx.vout
    BY <1>0, <1>3, <1>10 DEF SortInputs, Goto
  <2> QED BY <1>1, <1>2, <2>1 DEF Money, TotalIn, TotalOut
<1>11. CASE SetTxPubKey
  <2>1. /\ tx'.vin = tx.vin /\ tx'.vout = tx.vout /\ result' # "true"
        /\ pc' \in {"outputs", "close", "done"} /\ pc = "pubkey"
    BY <1>0, <1>3, <1>11 DEF SetTxPubKey, Goto, Return
  <2>2. UNCHANGED <<req, sources, destinations, money>>
    BY <1>11 DEF SetTxPubKey
  <2> QED BY <1>2, <2>1, <2>2, MoneyStays
<1>12. CASE AddOutput
  <2>0. PICK k \in Nat : k = Len(tx.vout)
    BY <1>3
  <2>1. /\ UNCHANGED <<sources, destinations>> /\ pc = "outputs" /\ k + 1 <= Len(destinations)
        /\ result' # "true" /\ pc' \in {"outputs", "close", "done"}
    <3>1. UNCHANGED <<sources, destinations>> /\ pc = "outputs" /\ Len(tx.vout) < Len(destinations)
      BY <1>12 DEF AddOutput
    <3>2. Len(destinations) \in Nat
      BY <1>3
    <3>3. result' # "true" /\ pc' \in {"outputs", "close", "done"}
      BY <1>0, <1>12 DEF AddOutput, Goto, Return
    <3> QED BY <2>0, <3>1, <3>2, <3>3
  <2>2. CASE pc' # "outputs"
    BY <1>1, <1>2, <2>1, <2>2 DEF Money, TotalOut
  <2>3. CASE pc' = "outputs"
    <3>1. /\ money' = [money EXCEPT !.outs = Plus(@, destinations[k + 1].amount)]
          /\ \E x : tx' = [tx EXCEPT !.vout = Append(@, x)]
      BY <1>12, <2>0, <2>3 DEF AddOutput, Return
    <3>2. Len(tx'.vout) = k + 1
      BY <1>3, <2>0, <3>1
    <3>3. money'.outs = Plus(money.outs, destinations[k + 1].amount) /\ money'.ins = money.ins
      BY <1>3, <3>1
    <3>4. money.outs = Total(AmountsOf(destinations), k)
      BY <1>2, <2>0, <2>1 DEF Money
    <3>5. AmountIn(destinations) < Modulus
      BY <1>2 DEF InWord, Money
    <3>6. money'.outs = Total(AmountsOf(destinations), k + 1)
      BY <1>3, <2>1, <3>3, <3>4, <3>5, NoWrap
    <3> QED BY <1>1, <1>2, <2>1, <2>3, <3>2, <3>3, <3>6 DEF Money, TotalIn, TotalOut
  <2> QED BY <2>2, <2>3
<1>13. CASE FinishExtra
  <2>1. /\ UNCHANGED <<sources, destinations, money>> /\ pc = "outputs" /\ result' # "true"
        /\ Len(tx.vout) = Len(destinations) /\ pc' \in {"money", "close", "done"}
    BY <1>0, <1>13 DEF FinishExtra, Goto, Return
  <2>2. money.outs = TotalOut(req)
    BY <1>2, <1>3, <2>1, AmountsType DEF Money
  <2> QED BY <1>1, <1>2, <2>1, <2>2 DEF Money, TotalIn, TotalOut
<1>14. CASE CheckMoney
  <2>1. /\ UNCHANGED <<sources, destinations, money>> /\ pc = "money" /\ result' # "true"
        /\ pc' \in {"sign", "close", "done"} /\ (pc' = "sign" => ~(money.outs > money.ins))
    BY <1>0, <1>14 DEF CheckMoney, Goto, Return
  <2>2. Amount \subseteq Nat
    BY ModulusAssumption DEF Amount
  <2>3. pc' = "sign" => money.outs <= money.ins
    <3>1. money.ins \in Nat /\ money.outs \in Nat
      BY <1>3, <2>2
    <3> QED BY <2>1, <3>1
  <2> QED BY <1>1, <1>2, <2>1, <2>3 DEF Money, TotalIn, TotalOut
<1>15. CASE SignV1
  <2>1. /\ UNCHANGED <<sources, destinations, money>> /\ req.version = 1 /\ pc' \in {"close", "done"}
    BY <1>15 DEF SignV1, Return
  <2> QED BY <1>1, <1>2, <2>1 DEF Money, TotalOut
<1>16. CASE SignV2
  <2>1. /\ UNCHANGED <<sources, destinations, money>> /\ pc = "sign" /\ pc' \in {"close", "done"}
    BY <1>16 DEF SignV2, Return
  <2>2. CASE result' # "true"
    BY <1>1, <1>2, <2>1, <2>2 DEF Money, TotalOut
  <2>3. CASE result' = "true"
    <3>1. DOMAIN Masked(tx) = DOMAIN tx
      BY <1>3 DEF Masked
    <3>2. tx'.rct.fee = (money.ins - money.outs) % Modulus
      <4>1. ~genRctThrows
        BY <1>16, <2>3 DEF SignV2, Return
      <4>2. \E sigs, ecdh : tx' = [Masked(tx) EXCEPT !.signatures = sigs,
              !.rct = [ecdh |-> ecdh, fee |-> (money.ins - money.outs) % Modulus]]
        BY <1>16, <4>1 DEF SignV2
      <4> QED BY <1>3, <3>1, <4>2
    <3>3. money.ins = TotalIn(req) /\ money.outs = TotalOut(req) /\ money.outs <= money.ins
      BY <1>2, <2>1 DEF Money
    <3>4. money.ins \in 0 .. Modulus - 1 /\ money.outs \in 0 .. Modulus - 1
      BY <1>3 DEF Amount
    <3>5. (money.ins - money.outs) % Modulus = money.ins - money.outs
      <4>1. money.ins - money.outs \in 0 .. Modulus - 1
        BY <3>3, <3>4, ModulusAssumption
      <4> QED BY <4>1, ModulusAssumption
    <3>6. TotalIn(req) = TotalOut(req) + tx'.rct.fee
      BY <3>2, <3>3, <3>4, <3>5, ModulusAssumption
    <3> QED BY <1>1, <1>2, <2>1, <3>6 DEF Money, TotalIn, TotalOut
  <2> QED BY <2>2, <2>3
<1>17. CASE CloseTx \/ Done \/ UNCHANGED vars
  BY <1>2, <1>17 DEF Money, CloseTx, Done, vars, TotalIn, TotalOut
<1> QED BY <1>5, <1>6, <1>7, <1>8, <1>9, <1>10, <1>11, <1>12, <1>13, <1>14, <1>15, <1>16,
           <1>17 DEF Next

(* No money is made: whatever is shuffled and sorted on the way, the fee   *)
(* of a finished transaction is exactly what its inputs hold beyond its    *)
(* outputs, as long as the sums the caller asks for fit a word.            *)
THEOREM MoneyAlwaysConserved == Spec => []MoneyConserved
<1>1. Init => IInv /\ ExtraInv /\ MoneyInv
  BY InitIInv, InitExtra, InitMoney
<1>2. IInv /\ ExtraInv /\ MoneyInv /\ [Next]_vars => (IInv /\ ExtraInv /\ MoneyInv)'
  BY NextIInv, NextExtra, NextMoney
<1>3. MoneyInv => MoneyConserved
  BY DEF MoneyInv, InWord, Money, MoneyConserved
<1> QED BY <1>1, <1>2, <1>3, PTL DEF Spec

-----------------------------------------------------------------------------
(* What an output carries for its owner: a view tag and an amount made     *)
(* from the derivation that its key was made from.                         *)
AsSent(i) ==
  LET der == tx.vout[i].key.der
  IN  /\ tx.vout[i].view_tag \in {NoTag, derive_view_tag(der, i)}
      /\ (result = "none" \/ req.version = 1) => tx.vout[i].amount = destinations[i].amount
      /\ (result = "none" /\ req.version = 2) =>
           keys.amount[i] = derivation_to_scalar(der, i)
      /\ (result = "true" /\ req.version = 2) =>
           tx.rct.ecdh[i] = [amount |-> destinations[i].amount,
                             key |-> derivation_to_scalar(der, i)]
Shuffled ==
  \E p \in Permutation(Len(req.destinations)) : destinations = Permuted(req.destinations, p)
PayInv ==
  /\ GenuineDestinations
  /\ Shuffled
  /\ pc \in {"open", "extra", "inputs"} => destinations = req.destinations
  /\ (result = "none" /\ req.version = 2) => Len(keys.amount) = Len(tx.vout)
  /\ (pc \in {"money", "sign"} \/ result = "true") => Len(tx.vout) = Len(destinations)
  /\ result \in {"none", "true"} => \A i \in DOMAIN tx.vout : AsSent(i)

(* TheOwner: a genuine destination stands for one payment, to the wallet   *)
(* and the index its address names.                                        *)
LEMMA TheOwner ==
  ASSUME NEW d, NEW w \in Wallet, NEW n \in Minor, Names(d, w, n)
  PROVE  Ordered(d) = [wallet |-> w, index |-> n, amount |-> <<d.amount>>]
<1> DEFINE P == [wallet : Wallet, index : Minor, amount : {<<d.amount>>}]
           x == [wallet |-> w, index |-> n, amount |-> <<d.amount>>]
<1>1. x \in P /\ OwnedBy(d.addr, x.wallet, x.index)
  BY DEF Names, OwnedBy
<1>2. ASSUME NEW p \in P, OwnedBy(d.addr, p.wallet, p.index)
      PROVE  p = x
  <2>1. get_subaddress(w, n) = get_subaddress(p.wallet, p.index)
    BY <1>2 DEF Names, OwnedBy
  <2>2. p.wallet = w /\ p.index = n
    BY <2>1, AddressNames
  <2> QED BY <2>2
<1> HIDE DEF x, P
<1>3. (CHOOSE p \in P : OwnedBy(d.addr, p.wallet, p.index)) = x
  BY <1>1, <1>2
<1> QED BY <1>3 DEF Ordered, P, x

(* OnlyTheOwner: an output whose key is derived from a key that is read    *)
(* off the transaction is found by its owner, at its index, with the       *)
(* derivation it was made from, and by nobody else.                        *)
LEMMA OnlyTheOwner ==
  ASSUME NEW R \in Point, NEW ks \in Seq(Point), check_key(R),
         \A m \in DOMAIN ks : check_key(ks[m]),
         NEW out_key, NEW i \in Nat \ {0}, NEW tag,
         NEW w \in Wallet, NEW n \in Minor,
         NEW K, K = R \/ (i \in DOMAIN ks /\ K = ks[i]),
         out_key = derive_public_key(generate_key_derivation(K, view_secret(w)), i,
                                     get_subaddress_spend_public_key(w, n)),
         tag \in {NoTag, derive_view_tag(out_key.der, i)},
         NEW v \in Wallet
  PROVE  is_out_to_acc_precomp(Account(v), out_key, SharedDerivation(Account(v), R),
           AdditionalDerivations(Account(v), ks), i, tag) =
         IF v = w THEN Found(n, out_key.der) ELSE NotFound
<1> DEFINE a == view_secret(v)
           D == get_subaddress_spend_public_key(w, n)
           answer == IF v = w THEN Found(n, out_key.der) ELSE NotFound
<1>1. Account(v).wallet = v /\ Account(v).subaddresses = Minor
  BY DEF Account
<1>2. out_key.spend = D /\ out_key.idx = i /\ out_key.der = generate_key_derivation(K, view_secret(w))
  BY DEF derive_public_key
<1>3. ASSUME NEW m PROVE D = get_subaddress_spend_public_key(v, m) <=> v = w /\ m = n
  <2>1. D = get_subaddress_spend_public_key(v, m) => <<"spend", w, n>> = <<"spend", v, m>>
    BY DEF get_subaddress_spend_public_key
  <2> QED BY <2>1
<1>4. InTable(Account(v), D) <=> v = w
  BY <1>1, <1>3 DEF InTable
<1>5. v = w => TableIndex(Account(v), D) = n
  <2> SUFFICES ASSUME v = w PROVE TableIndex(Account(v), D) = n
    OBVIOUS
  <2>1. TableIndex(Account(v), D) =
          CHOOSE m \in Minor : D = get_subaddress_spend_public_key(v, m)
    BY <1>1 DEF TableIndex
  <2> HIDE DEF D
  <2> QED BY <1>3, <2>1
<1>6. ~InTable(Account(v), [mult |-> {}, base |-> <<"unrelated">>])
  BY DEF InTable, get_subaddress_spend_public_key
<1>7. ASSUME NEW der
      PROVE  Try(Account(v), out_key, der, i, tag) =
               IF der = out_key.der /\ v = w THEN Found(n, out_key.der) ELSE NotFound
  <2>1. CASE der = out_key.der
    <3>1. derive_subaddress_public_key(out_key, der, i) = D
      BY <1>2, <2>1 DEF derive_subaddress_public_key
    <3>2. out_can_be_to_acc(tag, der, i)
      BY <2>1 DEF out_can_be_to_acc
    <3>3. Try(Account(v), out_key, der, i, tag) =
            IF InTable(Account(v), D) THEN Found(TableIndex(Account(v), D), der) ELSE NotFound
      <4> HIDE DEF D
      <4> QED BY <3>1, <3>2 DEF Try
    <3> HIDE DEF D
    <3> QED BY <1>4, <1>5, <2>1, <3>3
  <2>2. CASE der # out_key.der
    <3>1. derive_subaddress_public_key(out_key, der, i) = [mult |-> {}, base |-> <<"unrelated">>]
      BY <2>2 DEF derive_subaddress_public_key
    <3> QED BY <1>6, <2>2, <3>1 DEF Try
  <2> QED BY <2>1, <2>2
<1>8. SharedDerivation(Account(v), R) = generate_key_derivation(R, a)
  BY <1>1 DEF SharedDerivation, DerivationFails
<1>9. /\ Len(AdditionalDerivations(Account(v), ks)) = Len(ks)
      /\ i <= Len(ks) => AdditionalDerivations(Account(v), ks)[i] = generate_key_derivation(ks[i], a)
  <2>1. AdditionalDerivations(Account(v), ks) = [m \in 1 .. Len(ks) |-> generate_key_derivation(ks[m], a)]
    BY <1>1, DecodingAll DEF AdditionalDerivations
  <2>2. Len(ks) \in Nat
    OBVIOUS
  <2> QED BY <2>1, <2>2
<1>10. out_key # UnwrittenKey
  BY <1>2 DEF UnwrittenKey
<1>11. Found(n, out_key.der).found = TRUE /\ NotFound.found = FALSE
  BY DEF Found, NotFound
<1> DEFINE first == generate_key_derivation(R, a)
           second == generate_key_derivation(ks[i], a)
           shared == Try(Account(v), out_key, first, i, tag)
           other == Try(Account(v), out_key, second, i, tag)
           found == is_out_to_acc_precomp(Account(v), out_key, SharedDerivation(Account(v), R),
                      AdditionalDerivations(Account(v), ks), i, tag)
<1>12. found = IF shared.found THEN shared ELSE IF i <= Len(ks) THEN other ELSE NotFound
  <2>1. found = IF shared.found THEN shared
                ELSE IF i <= Len(ks)
                     THEN Try(Account(v), out_key, AdditionalDerivations(Account(v), ks)[i], i, tag)
                     ELSE NotFound
    BY <1>8, <1>9, <1>10 DEF is_out_to_acc_precomp
  <2>2. i <= Len(ks) => Try(Account(v), out_key, AdditionalDerivations(Account(v), ks)[i], i, tag) = other
    BY <1>9
  <2> HIDE DEF shared, other, found
  <2> QED BY <2>1, <2>2
<1>13. /\ shared = IF first = out_key.der /\ v = w THEN Found(n, out_key.der) ELSE NotFound
       /\ other = IF second = out_key.der /\ v = w THEN Found(n, out_key.der) ELSE NotFound
  BY <1>7
<1>14. v = w => first = out_key.der \/ (i <= Len(ks) /\ second = out_key.der)
  <2>1. i \in DOMAIN ks => i <= Len(ks)
    OBVIOUS
  <2> QED BY <1>2, <2>1
<1> HIDE DEF shared, other, first, second, found
<1>15. found = answer
  BY <1>11, <1>12, <1>13, <1>14
<1> QED BY <1>15 DEF found

(* PermutationIsOnto: a permutation leaves no number out.                  *)
LEMMA PermutationIsOnto ==
  ASSUME NEW m \in Nat, NEW p \in Permutation(m), NEW k \in 1 .. m
  PROVE  \E i \in 1 .. m : p[i] = k
<1> SUFFICES ASSUME \A i \in 1 .. m : p[i] # k PROVE FALSE
  OBVIOUS
<1> DEFINE S == 1 .. m
           T == (1 .. m) \ {k}
<1>1. p \in [S -> S] /\ \A i, j \in S : p[i] = p[j] => i = j
  BY DEF Permutation
<1>2. p \in [S -> T]
  BY <1>1
<1>3. IsFiniteSet(S) /\ Cardinality(S) = m
  BY FS_Interval
<1>4. IsFiniteSet(T) /\ Cardinality(T) = m - 1
  BY <1>3, FS_RemoveElement
<1> HIDE DEF S, T
<1>5. \E i, j \in S : i # j /\ p[i] = p[j]
  BY <1>2, <1>3, <1>4, FS_PigeonHole
<1> QED BY <1>1, <1>5

(* WhoFinds: who finds an output of a finished transaction, and how.       *)
LEMMA WhoFinds ==
  ASSUME IInv, OutputsInv, ExtraInv, ScanInv, PayInv, result = "true",
         NEW i \in DOMAIN tx.vout, NEW w \in Wallet, NEW n \in Minor,
         Names(destinations[i], w, n), NEW v \in Wallet
  PROVE  Scan(v, i, ReadKeys) = IF v = w THEN Found(n, tx.vout[i].key.der) ELSE NotFound
<1>1. ReadPubKey = txkey_pub /\ ReadAdditional = keys.additional
  BY ReadBack DEF ExtraInv
<1>2. /\ txkey_pub \in Point /\ check_key(txkey_pub) /\ keys.additional \in Seq(Point)
      /\ \A m \in DOMAIN keys.additional : check_key(keys.additional[m])
  BY DEF IInv, TypeOK, ScanInv
<1>3. i \in Nat \ {0} /\ i \in 1 .. Len(tx.vout) /\ Len(tx.vout) \in Nat
  <2>1. tx.vout \in Seq([amount : Amount, key : OneTimeKey,
                         view_tag : {NoTag} \cup (Point \X Nat)])
    BY DEF IInv, TypeOK
  <2>2. Len(tx.vout) \in Nat /\ i \in 1 .. Len(tx.vout)
    BY <2>1
  <2> QED BY <2>2
<1>4. PICK K \in Published(i) :
        tx.vout[i].key = derive_public_key(generate_key_derivation(K, view_secret(w)), i,
                                           get_subaddress_spend_public_key(w, n))
  BY DEF OutputsInv, OutputsReachOwners, PayInv, FoundBy
<1>5. K = txkey_pub \/ (i \in DOMAIN keys.additional /\ K = keys.additional[i])
  <2>1. NeedsKeys => Len(keys.additional) = Len(tx.vout)
    BY DEF ExtraInv, Canonical
  <2>2. NeedsKeys => i \in DOMAIN keys.additional
    BY <1>2, <1>3, <2>1
  <2> QED BY <2>2 DEF Published, NeedsKeys
<1>6. tx.vout[i].view_tag \in {NoTag, derive_view_tag(tx.vout[i].key.der, i)}
  BY DEF PayInv, AsSent
<1> DEFINE out_key == tx.vout[i].key
           tag == tx.vout[i].view_tag
<1>7. Scan(v, i, ReadKeys) =
        is_out_to_acc_precomp(Account(v), out_key, SharedDerivation(Account(v), txkey_pub),
          AdditionalDerivations(Account(v), keys.additional), i, tag)
  BY <1>1 DEF Scan, ReadKeys
<1> HIDE DEF out_key, tag
<1>8. is_out_to_acc_precomp(Account(v), out_key, SharedDerivation(Account(v), txkey_pub),
          AdditionalDerivations(Account(v), keys.additional), i, tag)
        = IF v = w THEN Found(n, out_key.der) ELSE NotFound
  <2>1. out_key = derive_public_key(generate_key_derivation(K, view_secret(w)), i,
                                    get_subaddress_spend_public_key(w, n))
    BY <1>4 DEF out_key
  <2>2. tag \in {NoTag, derive_view_tag(out_key.der, i)}
    BY <1>6 DEF out_key, tag
  <2> QED BY <1>2, <1>3, <1>5, <2>1, <2>2, OnlyTheOwner, SMTT(30)
<1> QED BY <1>7, <1>8 DEF out_key

(* Delivered: what the wallets read off a finished transaction is what was *)
(* ordered, each payment as often.                                         *)
LEMMA Delivered ==
  ASSUME IInv, OutputsInv, ExtraInv, ScanInv, PayInv, result = "true"
  PROVE  Received = Promise!AsBag(Order(req))
<1> DEFINE N == Len(req.destinations)
           s == Order(req)
           item(i) == Ordered(destinations[i])
           who(i) == CHOOSE x \in Wallet \X Minor : Names(destinations[i], x[1], x[2])
           found(i) == <<who(i)[1], i, Found(who(i)[2], tx.vout[i].key.der)>>
           read == {<<c, Credit(c)>> : c \in Credits}
<1>0. N \in Nat /\ DOMAIN req.destinations = 1 .. N
  <2>1. req.destinations \in Seq(DestinationEntry)
    BY RequestTypes DEF IInv, Request
  <2> QED BY <2>1
<1>1. PICK p \in Permutation(N) : destinations = Permuted(req.destinations, p)
  BY DEF PayInv, Shuffled
<1>2. /\ \A i \in 1 .. N : p[i] \in 1 .. N /\ destinations[i] = req.destinations[p[i]]
      /\ DOMAIN destinations = 1 .. N
      /\ \A i, j \in 1 .. N : p[i] = p[j] => i = j
  BY <1>0, <1>1 DEF Permuted, Permutation
<1>3. DOMAIN tx.vout = 1 .. N
  <2>1. tx.vout \in Seq([amount : Amount, key : OneTimeKey,
                         view_tag : {NoTag} \cup (Point \X Nat)])
    BY DEF IInv, TypeOK
  <2>2. destinations \in Seq(DestinationEntry) /\ Len(tx.vout) = Len(destinations)
    BY DEF IInv, TypeOK, PayInv
  <2>3. DOMAIN tx.vout = 1 .. Len(tx.vout) /\ DOMAIN destinations = 1 .. Len(destinations)
    BY <2>1, <2>2
  <2> QED BY <1>2, <2>2, <2>3
<1>4. DOMAIN s = 1 .. N /\ \A k \in 1 .. N : s[k] = Ordered(req.destinations[k])
  BY <1>0 DEF Order
<1>5. \A i \in 1 .. N : item(i) = s[p[i]]
  BY <1>2, <1>4
<1>6. ASSUME NEW i \in 1 .. N
      PROVE  who(i) \in Wallet \X Minor /\ Names(destinations[i], who(i)[1], who(i)[2])
  <2>1. PICK w \in Wallet, n \in Minor : Names(destinations[i], w, n)
    BY <1>2 DEF PayInv, GenuineDestinations
  <2>2. <<w, n>> \in Wallet \X Minor /\ Names(destinations[i], <<w, n>>[1], <<w, n>>[2])
    BY <2>1
  <2> QED BY <2>2
<1> HIDE DEF who
<1>7. ASSUME NEW i \in 1 .. N, NEW v \in Wallet
      PROVE  Scan(v, i, ReadKeys) =
               IF v = who(i)[1] THEN Found(who(i)[2], tx.vout[i].key.der) ELSE NotFound
  <2>1. who(i)[1] \in Wallet /\ who(i)[2] \in Minor /\ Names(destinations[i], who(i)[1], who(i)[2])
    BY <1>6
  <2>2. i \in DOMAIN tx.vout
    BY <1>3
  <2> QED BY <2>1, <2>2, WhoFinds
<1>8. Scanned = {<<v, i, Scan(v, i, ReadKeys)>> : v \in Wallet, i \in 1 .. N}
  BY <1>3 DEF Scanned
<1>9. ASSUME NEW c
      PROVE  c \in Credits <=> \E i \in 1 .. N : c = found(i)
  <2>1. \A m, der : Found(m, der).found = TRUE
    BY DEF Found
  <2>2. NotFound.found = FALSE
    BY DEF NotFound
  <2>3. ASSUME c \in Credits PROVE \E i \in 1 .. N : c = found(i)
    <3>1. PICK v \in Wallet, i \in 1 .. N : c = <<v, i, Scan(v, i, ReadKeys)>>
      BY <1>8, <2>3 DEF Credits
    <3>2. Scan(v, i, ReadKeys).found = TRUE
      BY <2>3, <3>1 DEF Credits
    <3>3. v = who(i)[1] /\ Scan(v, i, ReadKeys) = Found(who(i)[2], tx.vout[i].key.der)
      BY <1>7, <2>2, <3>2
    <3> QED BY <3>1, <3>3
  <2>4. ASSUME NEW i \in 1 .. N, c = found(i) PROVE c \in Credits
    <3>1. who(i)[1] \in Wallet
      BY <1>6
    <3>2. c = <<who(i)[1], i, Scan(who(i)[1], i, ReadKeys)>>
      BY <1>7, <2>4, <3>1
    <3>3. c \in Scanned /\ c[3] = Found(who(i)[2], tx.vout[i].key.der)
      BY <1>8, <2>4, <3>1, <3>2
    <3> QED BY <2>1, <3>3 DEF Credits
  <2> QED BY <2>3, <2>4
<1>10. ASSUME NEW i \in 1 .. N
       PROVE  Credit(found(i)) = item(i)
  <2> DEFINE d == destinations[i]
             der == tx.vout[i].key.der
  <2>1. ReadAmount(i, der) = <<d.amount>>
    <3>1. AsSent(i)
      BY <1>3 DEF PayInv
    <3>2. req.version \in 1 .. 2
      BY RequestsAssumption DEF IInv, TypeOK, Request
    <3>3. CASE req.version = 1
      BY <3>1, <3>3 DEF AsSent, ReadAmount
    <3>4. CASE req.version = 2
      <4>1. tx.rct.ecdh[i] = [amount |-> d.amount, key |-> derivation_to_scalar(der, i)]
        BY <3>1, <3>4 DEF AsSent
      <4> QED BY <3>4, <4>1 DEF ReadAmount
    <3> QED BY <3>2, <3>3, <3>4
  <2>2. item(i) = [wallet |-> who(i)[1], index |-> who(i)[2], amount |-> <<d.amount>>]
    <3>1. who(i)[1] \in Wallet /\ who(i)[2] \in Minor /\ Names(d, who(i)[1], who(i)[2])
      BY <1>6
    <3> QED BY <3>1, TheOwner
  <2> HIDE DEF d, der
  <2>3. Credit(<<who(i)[1], i, Found(who(i)[2], der)>>) =
          [wallet |-> who(i)[1], index |-> who(i)[2], amount |-> ReadAmount(i, der)]
    BY DEF Credit, Found
  <2> QED BY <2>1, <2>2, <2>3 DEF der
<1> HIDE DEF item
<1>11. ASSUME NEW r
       PROVE  r \in read <=> \E i \in 1 .. N : r = <<found(i), item(i)>>
  BY <1>9, <1>10
<1>12. \A i \in 1 .. N : found(i)[2] = i
  OBVIOUS
<1> HIDE DEF found, read, s, N
<1>13. ASSUME NEW k \in 1 .. N PROVE \E i \in 1 .. N : p[i] = k
  BY <1>0, <1>1, PermutationIsOnto
<1>14. {r[2] : r \in read} = {s[k] : k \in DOMAIN s}
  <2>1. ASSUME NEW r \in read PROVE r[2] \in {s[k] : k \in DOMAIN s}
    <3>1. PICK i \in 1 .. N : r = <<found(i), item(i)>>
      BY <1>11
    <3> QED BY <1>2, <1>4, <1>5, <3>1
  <2>2. ASSUME NEW k \in DOMAIN s PROVE \E r \in read : r[2] = s[k]
    <3>1. PICK i \in 1 .. N : p[i] = k
      BY <1>4, <1>13
    <3>2. <<found(i), item(i)>> \in read /\ item(i) = s[k]
      BY <1>5, <1>11, <3>1
    <3> QED BY <3>2
  <2> QED BY <2>1, <2>2
<1>15. ASSUME NEW x
       PROVE  Cardinality({r \in read : r[2] = x}) = Cardinality({k \in DOMAIN s : s[k] = x})
  <2> DEFINE S == {k \in 1 .. N : s[k] = x}
             T == {r \in read : r[2] = x}
             back == [r \in T |-> p[r[1][2]]]
  <2>1. ASSUME NEW r \in T
        PROVE  \E i \in 1 .. N : r = <<found(i), item(i)>> /\ back[r] = p[i] /\ p[i] \in S
    <3>1. PICK i \in 1 .. N : r = <<found(i), item(i)>>
      BY <1>11
    <3>2. back[r] = p[i] /\ item(i) = x
      BY <1>12, <3>1
    <3> QED BY <1>2, <1>5, <3>1, <3>2
  <2>2. ASSUME NEW k \in S PROVE \E r \in T : back[r] = k
    <3>1. PICK i \in 1 .. N : p[i] = k
      BY <1>13
    <3>2. <<found(i), item(i)>> \in T
      BY <1>5, <1>11, <3>1
    <3>3. back[<<found(i), item(i)>>] = k
      BY <1>12, <3>1, <3>2
    <3> QED BY <3>2, <3>3
  <2>3. back \in [T -> S]
    BY <2>1
  <2> HIDE DEF back, S, T
  <2>4. \A r, q \in T : back[r] = back[q] => r = q
    BY <1>2, <2>1
  <2>5. back \in Bijection(T, S)
    BY <2>2, <2>3, <2>4, Fun_IsBij
  <2>6. ExistsBijection(S, T)
    BY <2>5, Fun_ExistsBij, Fun_BijInverse
  <2>7. IsFiniteSet(S)
    BY <1>0, FS_Interval, FS_Subset DEF S
  <2>8. Cardinality(T) = Cardinality(S)
    BY <2>6, <2>7, FS_Bijection
  <2> QED BY <1>4, <2>8 DEF S, T
<1>16. Received = [x \in {r[2] : r \in read} |-> Cardinality({r \in read : r[2] = x})]
  BY DEF Received, read
<1>17. Promise!AsBag(s) = [x \in {s[k] : k \in DOMAIN s} |-> Cardinality({k \in DOMAIN s : s[k] = x})]
  <2>1. ASSUME NEW S PROVE Promise!Cardinality(S) = Cardinality(S)
    BY DEF Promise!Cardinality, Cardinality
  <2> QED BY <2>1 DEF Promise!AsBag
<1>18. Received = Promise!AsBag(s)
  BY <1>14, <1>15, <1>16, <1>17
<1> QED BY <1>18 DEF s

-----------------------------------------------------------------------------
(* InitPay: at first there is no output and nothing is shuffled.           *)
LEMMA InitPay == Init /\ GenuineDestinations => PayInv
<1> SUFFICES ASSUME Init, GenuineDestinations PROVE PayInv
  OBVIOUS
<1>1. /\ pc \in {"open", "extra"} /\ result = "none" /\ destinations = req.destinations
      /\ tx.vout = << >> /\ keys.amount = << >>
  BY DEF Init, EmptyTx
<1>2. DOMAIN << >> = {} /\ Len(<< >>) = Len(<< >>)
  OBVIOUS
<1>3. req.destinations \in Seq(DestinationEntry)
  BY RequestsAssumption DEF Init, Request
<1>4. Shuffled
  <2> DEFINE m == Len(req.destinations)
             p == [i \in 1 .. m |-> i]
  <2>1. m \in Nat /\ DOMAIN req.destinations = 1 .. m
    BY <1>3
  <2>2. p \in Permutation(m)
    BY DEF Permutation
  <2>3. req.destinations = Permuted(req.destinations, p)
    <3>1. req.destinations = [i \in 1 .. m |-> req.destinations[i]]
      <4> HIDE DEF m
      <4> QED BY <1>3, <2>1
    <3>2. \A i \in 1 .. m : p[i] = i
      OBVIOUS
    <3> HIDE DEF p, m
    <3> QED BY <2>1, <3>1, <3>2 DEF Permuted
  <2> HIDE DEF p, m
  <2> QED BY <1>1, <2>2, <2>3 DEF Shuffled, m
<1> QED BY <1>1, <1>2, <1>4 DEF PayInv

(* PayRefused: a call that is refused promises nothing.                    *)
LEMMA PayRefused ==
  ASSUME PayInv, UNCHANGED <<req, destinations>>, result' \in {"false", "throw"},
         pc' \in {"close", "done"}
  PROVE  PayInv'
BY DEF PayInv, GenuineDestinations, Shuffled

(* PayStays: steps that leave outputs and destinations alone.              *)
LEMMA PayStays ==
  ASSUME PayInv, UNCHANGED <<req, destinations, keys, result, tx.vout, tx.rct>>,
         pc' \in {"open", "extra", "inputs"} => pc \in {"open", "extra", "inputs"},
         pc' \in {"money", "sign"} => Len(tx.vout) = Len(destinations)
  PROVE  PayInv'
BY DEF PayInv, GenuineDestinations, Shuffled, AsSent

(* OutputAsSent: what is made for a genuine destination goes with the      *)
(* derivation that its key was made from.                                  *)
LEMMA OutputAsSent ==
  ASSUME IInv, ScanInv, pc = "outputs", NEW i \in DOMAIN destinations, GenuineDestinations,
         NEW need \in BOOLEAN, NEW before
  PROVE  LET made == OutputKeys(destinations[i], i, need, before)
         IN  /\ made.view_tag \in {NoTag, derive_view_tag(made.key.der, i)}
             /\ made.amount = IF req.version > 1
                              THEN <<derivation_to_scalar(made.key.der, i)>> ELSE << >>
<1> DEFINE d == destinations[i]
           made == OutputKeys(d, i, need, before)
           is_change == d.addr = req.change
           from == IF is_change THEN txkey_pub ELSE d.addr.view
           secret == IF is_change THEN view_secret(req.sender.wallet)
                     ELSE IF d.is_subaddress /\ need THEN additional_tx_keys[i] ELSE tx_key
           derivation == generate_key_derivation(from, secret)
<1>1. PICK w \in Wallet, n \in Minor : d.addr = get_subaddress(w, n)
  BY DEF GenuineDestinations, Names
<1>2. check_key(d.addr.view) /\ check_key(d.addr.spend)
  BY <1>1, AddressDecodes
<1>3. check_key(txkey_pub)
  BY DEF ScanInv
<1>4. ~DerivationFails(from)
  BY <1>2, <1>3 DEF DerivationFails
<1>5. made.key = derive_public_key(derivation, i, d.addr.spend)
  BY <1>2, <1>4 DEF OutputKeys
<1>6. made.key.der = derivation
  <2> HIDE DEF derivation, made, d
  <2> QED BY <1>5 DEF derive_public_key
<1>7. made.view_tag = IF ~req.use_view_tags THEN NoTag ELSE derive_view_tag(derivation, i)
  BY <1>4 DEF OutputKeys
<1>8. made.amount = IF req.version > 1 THEN <<derivation_to_scalar(derivation, i)>> ELSE << >>
  BY <1>4 DEF OutputKeys
<1> HIDE DEF derivation, made
<1>9. /\ made.view_tag \in {NoTag, derive_view_tag(made.key.der, i)}
      /\ made.amount = IF req.version > 1
                       THEN <<derivation_to_scalar(made.key.der, i)>> ELSE << >>
  BY <1>6, <1>7, <1>8
<1> QED BY <1>9 DEF made

(* NextPay: every step keeps outputs and amounts as they are owed.         *)
LEMMA NextPay ==
  IInv /\ OutputsInv /\ ExtraInv /\ ScanInv /\ PayInv /\ [Next]_vars => PayInv'
<1> SUFFICES ASSUME IInv, OutputsInv, ExtraInv, ScanInv, PayInv, [Next]_vars PROVE PayInv'
  OBVIOUS
<1> DEFINE output_type == [amount : Amount, key : OneTimeKey,
                           view_tag : {NoTag} \cup (Point \X Nat)]
<1>1. /\ DOMAIN tx = {"extra", "vin", "vout", "signatures", "rct"}
      /\ destinations \in Seq(DestinationEntry)
      /\ keys.amount \in Seq(Point \X Nat)
      /\ tx.vout \in Seq(output_type)
      /\ req.version \in 1 .. 2
  BY RequestsAssumption DEF IInv, TypeOK, Request
<1> HIDE DEF output_type
<1>2. /\ result = "none" <=> pc \notin {"close", "done"}
      /\ result \in {"none", "true", "false", "throw"}
  BY DEF ExtraInv, IInv, TypeOK
<1>3. CASE OpenTx \/ EmptySources \/ UnparsableExtra \/ EncryptPaymentId \/ DummyPaymentId
  <2>1. UNCHANGED <<req, destinations, keys>> /\ tx'.vout = tx.vout /\ tx'.rct = tx.rct
    BY <1>1, <1>3 DEF OpenTx, EmptySources, UnparsableExtra, EncryptPaymentId,
       DummyPaymentId, ExtraUnchanged
  <2>2. \/ result' = "false" /\ pc' \in {"close", "done"}
        \/ result' = result /\ pc' \in {"extra", "inputs"} /\ pc \in {"open", "extra"}
    BY <1>3 DEF OpenTx, EmptySources, UnparsableExtra, EncryptPaymentId,
       DummyPaymentId, Goto, Return
  <2> QED BY <2>1, <2>2, PayRefused, PayStays
<1>4. CASE AddInput
  <2>1. /\ UNCHANGED <<req, destinations, keys>> /\ tx'.vout = tx.vout /\ tx'.rct = tx.rct
        /\ pc = "inputs"
    BY <1>1, <1>4 DEF AddInput
  <2>2. \/ result' = "false" /\ pc' \in {"close", "done"}
        \/ result' = result /\ pc' = "inputs"
    BY <1>4 DEF AddInput, Goto, Return
  <2> QED BY <2>1, <2>2, PayRefused, PayStays
<1>5. CASE ShuffleDestinations
  <2>1. /\ req' = req /\ tx' = tx /\ keys' = keys /\ result' = result /\ pc' = "sort"
        /\ pc = "inputs" /\ destinations = req.destinations
    BY <1>5 DEF ShuffleDestinations, Goto, PayInv
  <2>2. tx.vout = << >> /\ keys.amount = << >> /\ result = "none"
    BY <1>2, <2>1 DEF IInv, Phases
  <2>3. CASE destinations' = destinations
    BY <2>1, <2>3, PayStays
  <2>4. CASE \E p \in Permutation(Len(destinations)) : destinations' = Permuted(destinations, p)
    <3>1. PICK p \in Permutation(Len(destinations)) : destinations' = Permuted(destinations, p)
      BY <2>4
    <3>2. Shuffled'
      BY <2>1, <3>1 DEF Shuffled
    <3>3. \A i \in DOMAIN destinations' : \E k \in DOMAIN destinations : destinations'[i] = destinations[k]
      <4>1. destinations \in Seq(DestinationEntry)
        BY <1>1
      <4>2. /\ destinations' \in Seq(DestinationEntry) /\ Len(destinations') = Len(destinations)
            /\ \A i \in 1 .. Len(destinations) :
                 p[i] \in 1 .. Len(destinations) /\ destinations'[i] = destinations[p[i]]
        BY <3>1, <4>1, PermutedType
      <4> QED BY <4>1, <4>2
    <3>4. GenuineDestinations'
      BY <2>1, <3>3 DEF PayInv, GenuineDestinations, Names
    <3>5. DOMAIN tx'.vout = {} /\ Len(tx'.vout) = Len(keys'.amount)
      BY <2>1, <2>2
    <3> QED BY <2>1, <2>2, <3>2, <3>4, <3>5 DEF PayInv
  <2> QED BY <1>5, <2>3, <2>4 DEF ShuffleDestinations
<1>6. CASE SortInputs
  <2>1. /\ UNCHANGED <<req, destinations, keys, result>> /\ tx'.vout = tx.vout /\ tx'.rct = tx.rct
        /\ pc' = "pubkey"
    BY <1>1, <1>6 DEF SortInputs, Goto
  <2> QED BY <2>1, PayStays
<1>7. CASE SetTxPubKey
  <2>1. UNCHANGED <<req, destinations, keys>> /\ tx'.vout = tx.vout /\ tx'.rct = tx.rct
    BY <1>1, <1>7 DEF SetTxPubKey
  <2>2. \/ result' \in {"false", "throw"} /\ pc' \in {"close", "done"}
        \/ result' = result /\ pc' = "outputs"
    BY <1>7 DEF SetTxPubKey, Goto, Return
  <2> QED BY <2>1, <2>2, PayRefused, PayStays
<1>8. CASE AddOutput
  <2> DEFINE i == Len(tx.vout) + 1
             d == destinations[i]
             need == need_additional_txkeys(destinations, req.change)
  <2>1. /\ pc = "outputs" /\ Len(tx.vout) < Len(destinations) /\ result = "none"
        /\ UNCHANGED <<req, destinations>>
    BY <1>2, <1>8 DEF AddOutput
  <2>2. CASE result' \in {"false", "throw"} /\ pc' \in {"close", "done"}
    BY <2>1, <2>2, PayRefused
  <2>3. ASSUME NEW before \in Uninitialised, NEW made, NEW out,
               made = OutputKeys(d, i, need, before),
               out = [amount |-> d.amount, key |-> made.key, view_tag |-> made.view_tag],
               keys' = [additional |-> keys.additional \o made.additional,
                        amount |-> keys.amount \o made.amount],
               tx' = [tx EXCEPT !.vout = Append(@, out)],
               pc' = "outputs", result' = result
        PROVE  PayInv'
    <3>1. i \in DOMAIN destinations /\ i \in Nat /\ Len(tx.vout) \in Nat /\ DOMAIN tx.vout = 1 .. Len(tx.vout)
      BY <1>1, <2>1
    <3>2. need \in BOOLEAN
      BY DEF need_additional_txkeys
    <3>3. /\ made.view_tag \in {NoTag, derive_view_tag(made.key.der, i)}
          /\ made.amount = IF req.version > 1
                           THEN <<derivation_to_scalar(made.key.der, i)>> ELSE << >>
      <4> HIDE DEF i, need
      <4> QED BY <2>1, <2>3, <3>1, <3>2, OutputAsSent DEF PayInv
    <3>4. tx'.vout = Append(tx.vout, out) /\ keys'.amount = keys.amount \o made.amount
      BY <1>1, <2>3
    <3>5. out.amount = d.amount /\ out.key = made.key /\ out.view_tag = made.view_tag
      BY <2>3
    <3> HIDE DEF d, need
    <3>6. /\ Len(tx'.vout) = i /\ DOMAIN tx'.vout = 1 .. i /\ tx'.vout[i] = out
          /\ \A x \in 1 .. Len(tx.vout) : tx'.vout[x] = tx.vout[x]
      BY <1>1, <3>4
    <3>7. req.version = 2 =>
            /\ Len(keys'.amount) = i
            /\ keys'.amount[i] = derivation_to_scalar(made.key.der, i)
            /\ \A x \in 1 .. Len(tx.vout) : keys'.amount[x] = keys.amount[x]
      <4> SUFFICES ASSUME req.version = 2
                   PROVE  /\ Len(keys'.amount) = i
                          /\ keys'.amount[i] = derivation_to_scalar(made.key.der, i)
                          /\ \A x \in 1 .. Len(tx.vout) : keys'.amount[x] = keys.amount[x]
        OBVIOUS
      <4>1. Len(keys.amount) = Len(tx.vout)
        BY <2>1 DEF PayInv
      <4> DEFINE k == derivation_to_scalar(made.key.der, i)
      <4>2. made.amount = <<k>> /\ keys'.amount = keys.amount \o made.amount
        BY <3>3, <3>4
      <4>3. made.amount \in Seq(Point \X Nat)
        <5>1. need => Len(additional_tx_keys) = Len(destinations)
          BY <2>1 DEF IInv, Phases, need
        <5> HIDE DEF i
        <5> QED BY <2>3, <3>1, <3>2, <5>1, OutputKeysType DEF IInv, d
      <4> HIDE DEF k
      <4>4. Len(made.amount) = Len(<<k>>) /\ Len(<<k>>) \in {1} /\ made.amount[1] = k
        BY <4>2
      <4>5. Len(keys'.amount) = i /\ keys'.amount[i] = k
            /\ \A x \in 1 .. Len(tx.vout) : keys'.amount[x] = keys.amount[x]
        <5>1. /\ Len(keys'.amount) = Len(keys.amount) + Len(made.amount)
              /\ \A x \in 1 .. Len(keys.amount) + Len(made.amount) :
                   keys'.amount[x] = IF x <= Len(keys.amount) THEN keys.amount[x]
                                     ELSE made.amount[x - Len(keys.amount)]
          BY <1>1, <4>2, <4>3, ConcatProperties
        <5>2. Len(made.amount) = 1
          BY <4>4
        <5>3. Len(keys.amount) = i - 1
          BY <3>1, <4>1
        <5>4. i \in Nat \ {0} /\ Len(tx.vout) = i - 1
          BY <3>1
        <5> HIDE DEF i
        <5>5. i \in 1 .. (i - 1) + 1 /\ ~(i <= i - 1) /\ i - (i - 1) = 1 /\ (i - 1) + 1 = i
          BY <5>4
        <5>6. keys'.amount[i] = k
          BY <4>4, <5>1, <5>2, <5>3, <5>5
        <5>7. ASSUME NEW x \in 1 .. Len(tx.vout) PROVE keys'.amount[x] = keys.amount[x]
          <6>1. x \in 1 .. (i - 1) + 1 /\ x <= i - 1
            BY <5>4
          <6> QED BY <5>1, <5>2, <5>3, <6>1
        <5> QED BY <5>1, <5>2, <5>3, <5>5, <5>6, <5>7
      <4> QED BY <4>5 DEF k
    <3>8. ASSUME NEW x \in 1 .. i PROVE AsSent(x)'
      <4>1. CASE x = i
        <5>1. tx'.vout[x].view_tag \in {NoTag, derive_view_tag(tx'.vout[x].key.der, x)}
          BY <3>3, <3>5, <3>6, <4>1
        <5>2. tx'.vout[x].amount = destinations[x].amount
          BY <3>5, <3>6, <4>1 DEF d
        <5>3. req.version = 2 => keys'.amount[x] = derivation_to_scalar(tx'.vout[x].key.der, x)
          BY <3>5, <3>6, <3>7, <4>1
        <5> QED BY <2>1, <2>3, <5>1, <5>2, <5>3 DEF AsSent
      <4>2. CASE x # i
        <5>1. x \in 1 .. Len(tx.vout)
          BY <3>1, <4>2
        <5>2. AsSent(x)
          BY <2>1, <3>1, <5>1 DEF PayInv
        <5> QED BY <2>1, <2>3, <3>6, <3>7, <5>1, <5>2 DEF AsSent
      <4> QED BY <4>1, <4>2
    <3>9. GenuineDestinations' /\ Shuffled'
      BY <2>1 DEF PayInv, GenuineDestinations, Shuffled
    <3> HIDE DEF i
    <3> QED BY <2>1, <2>3, <3>6, <3>7, <3>8, <3>9 DEF PayInv
  <2>4. CASE tx' = tx /\ keys' = keys /\ result' \in {"false", "throw"} /\ pc' \in {"close", "done"}
    BY <2>2, <2>4
  <2> QED BY <1>8, <2>2, <2>3 DEF AddOutput, Goto, Return
<1>9. CASE FinishExtra
  <2>1. /\ UNCHANGED <<req, destinations, keys>> /\ tx'.vout = tx.vout /\ tx'.rct = tx.rct
        /\ Len(tx.vout) = Len(destinations)
    BY <1>1, <1>9 DEF FinishExtra
  <2>2. \/ result' = "false" /\ pc' \in {"close", "done"}
        \/ result' = result /\ pc' = "money"
    BY <1>9 DEF FinishExtra, Goto, Return
  <2> QED BY <2>1, <2>2, PayRefused, PayStays
<1>10. CASE CheckMoney
  <2>1. /\ UNCHANGED <<req, destinations, keys, tx>> /\ Len(tx.vout) = Len(destinations)
    BY <1>10 DEF CheckMoney, PayInv
  <2>2. \/ result' = "false" /\ pc' \in {"close", "done"}
        \/ result' = result /\ pc' = "sign"
    BY <1>10 DEF CheckMoney, Goto, Return
  <2> QED BY <2>1, <2>2, PayRefused, PayStays
<1>11. CASE SignV1
  <2>1. /\ UNCHANGED <<req, destinations, keys>> /\ tx'.vout = tx.vout
        /\ req.version = 1 /\ result' = "true" /\ pc' \in {"close", "done"} /\ pc = "sign"
    BY <1>1, <1>11 DEF SignV1, Return
  <2>2. result = "none"
    BY <1>2, <2>1
  <2> QED BY <2>1, <2>2 DEF PayInv, GenuineDestinations, Shuffled, AsSent
<1>12. CASE SignV2
  <2>1. /\ UNCHANGED <<req, destinations, keys>> /\ req.version = 2 /\ pc = "sign"
        /\ pc' \in {"close", "done"} /\ result = "none"
    BY <1>2, <1>12 DEF SignV2, Return
  <2>2. CASE result' = "throw"
    BY <2>1, <2>2, PayRefused
  <2>3. CASE result' = "true"
    <3>1. DOMAIN Masked(tx) = DOMAIN tx
      BY DEF Masked
    <3>2. /\ tx'.vout = Masked(tx).vout
          /\ tx'.rct.ecdh = [i \in DOMAIN tx.vout |-> [amount |-> tx.vout[i].amount, key |-> keys.amount[i]]]
      <4> DEFINE enc == [i \in DOMAIN tx.vout |-> [amount |-> tx.vout[i].amount, key |-> keys.amount[i]]]
      <4>1. tx' = [Masked(tx) EXCEPT
               !.signatures = [i \in DOMAIN sources |-> <<RingSignature(i, Prefix(Masked(tx)))>>],
               !.rct = [ecdh |-> enc, fee |-> (money.ins - money.outs) % Modulus]]
        BY <1>12, <2>3 DEF SignV2, Return
      <4> HIDE DEF enc
      <4>2. tx'.vout = Masked(tx).vout /\ tx'.rct = [ecdh |-> enc, fee |-> (money.ins - money.outs) % Modulus]
        BY <1>1, <3>1, <4>1
      <4>3. tx'.rct.ecdh = enc
        BY <4>2
      <4> QED BY <4>2, <4>3 DEF enc
    <3>3. tx'.vout = [i \in DOMAIN tx.vout |-> [tx.vout[i] EXCEPT !.amount = 0]]
      BY <1>1, <3>2 DEF Masked
    <3>4. /\ DOMAIN tx'.vout = DOMAIN tx.vout /\ DOMAIN tx.vout = 1 .. Len(tx.vout) /\ Len(tx.vout) \in Nat
      BY <1>1, <3>3
    <3>5. Len(tx'.vout) = Len(tx.vout)
      BY <3>3, <3>4
    <3>6. ASSUME NEW i \in DOMAIN tx.vout
          PROVE  tx'.vout[i].key = tx.vout[i].key /\ tx'.vout[i].view_tag = tx.vout[i].view_tag
      <4>1. tx.vout[i] \in output_type
        BY <1>1
      <4> QED BY <3>3, <4>1 DEF output_type
    <3>7. ASSUME NEW i \in DOMAIN tx.vout PROVE AsSent(i)'
      <4>1. AsSent(i)
        BY <2>1 DEF PayInv
      <4>2. tx'.rct.ecdh[i] = [amount |-> tx.vout[i].amount, key |-> keys.amount[i]]
        BY <3>2
      <4> QED BY <2>1, <2>3, <3>6, <4>1, <4>2 DEF AsSent
    <3>8. GenuineDestinations' /\ Shuffled'
      BY <2>1 DEF PayInv, GenuineDestinations, Shuffled
    <3>9. Len(tx'.vout) = Len(destinations')
      BY <2>1, <3>5 DEF PayInv
    <3> QED BY <2>1, <2>3, <3>4, <3>7, <3>8, <3>9 DEF PayInv
  <2> QED BY <1>12, <2>2, <2>3 DEF SignV2, Return
<1>13. CASE CloseTx
  <2>1. UNCHANGED <<req, destinations, keys, result, tx>> /\ pc' = "done"
    BY <1>13 DEF CloseTx
  <2> QED BY <2>1, PayStays
<1>14. CASE Done \/ UNCHANGED vars
  <2>1. UNCHANGED <<req, destinations, keys, result, tx, pc>>
    BY <1>14 DEF Done, vars
  <2> QED BY <2>1, PayStays DEF PayInv
<1> QED BY <1>3, <1>4, <1>5, <1>6, <1>7, <1>8, <1>9, <1>10, <1>11, <1>12, <1>13, <1>14 DEF Next

-----------------------------------------------------------------------------
(* What the mapping of Promise shows of a construction.                    *)
Status == CASE result = "none" -> "pending"
            [] result = "true" -> "made"
            [] OTHER -> "refused"
Read == IF result = "true" THEN Received ELSE << >>

(* A call that answers "true" has delivered the order.                     *)
Answered == result = "true" => Received = Promise!AsBag(Order(req))

(* PromiseState: the abstract state, in the terms of the construction.     *)
LEMMA PromiseState ==
  /\ UNCHANGED Promise!vars <=>
       Order(req)' = Order(req) /\ Status' = Status /\ Read' = Read
  /\ Promise!Pay <=> /\ Status = "pending" /\ Status' = "made"
                     /\ Read' = Promise!AsBag(Order(req))
                     /\ Order(req)' = Order(req)
  /\ Promise!Refuse <=> /\ Status = "pending" /\ Status' = "refused"
                        /\ Order(req)' = Order(req) /\ Read' = Read
BY DEF Promise!vars, Promise!Pay, Promise!Refuse, Status, Read

(* StepKeeps: a step of a construction answers the order or goes unseen.   *)
LEMMA StepKeeps ==
  IInv /\ ExtraInv /\ Answered /\ (IInv /\ Answered)' /\ [Next]_vars
  => [Promise!Next]_(Promise!vars)
<1> SUFFICES ASSUME IInv, ExtraInv, Answered, IInv', Answered', [Next]_vars
             PROVE  Promise!Pay \/ Promise!Refuse \/ UNCHANGED Promise!vars
  BY DEF Promise!Next
<1>1. req' = req
  BY DEF Next, vars, OpenTx, EmptySources, UnparsableExtra, EncryptPaymentId,
         DummyPaymentId, ExtraUnchanged, AddInput, ShuffleDestinations, SortInputs,
         SetTxPubKey, AddOutput, FinishExtra, CheckMoney, SignV1, SignV2, CloseTx, Done
<1>2. result # "none" => result' = result
  <2>1. result # "none" => pc \in {"close", "done"}
    BY DEF ExtraInv, IInv, TypeOK
  <2>2. pc \in {"close", "done"} => CloseTx \/ UNCHANGED vars
    BY DEF Next, OpenTx, EmptySources, UnparsableExtra, EncryptPaymentId,
           DummyPaymentId, AddInput, ShuffleDestinations, SortInputs,
           SetTxPubKey, AddOutput, FinishExtra, CheckMoney, SignV1, SignV2, Done
  <2> QED BY <2>1, <2>2 DEF CloseTx, vars
<1>3. result \in {"none", "true", "false", "throw"} /\ result' \in {"none", "true", "false", "throw"}
  BY DEF IInv, TypeOK
<1>4. Order(req)' = Order(req)
  BY <1>1 DEF Order, Ordered, OwnedBy
<1>5. result = "true" => Received = Promise!AsBag(Order(req))
  BY DEF Answered
<1>6. result' = "true" => Received' = Promise!AsBag(Order(req))'
  BY DEF Answered
<1>7. Promise!AsBag(Order(req))' = Promise!AsBag(Order(req))
  BY <1>4 DEF Promise!AsBag
<1>8. CASE result = "none" /\ result' = "true"
  BY <1>4, <1>6, <1>7, <1>8, PromiseState DEF Status, Read
<1>9. CASE result = "none" /\ result' \in {"false", "throw"}
  BY <1>4, <1>9, PromiseState DEF Status, Read
<1>10. CASE result' = result
  <2>1. Status' = Status
    BY <1>10 DEF Status
  <2>2. Read' = Read
    BY <1>5, <1>6, <1>7, <1>10 DEF Read
  <2> QED BY <1>4, <2>1, <2>2, PromiseState
<1> QED BY <1>2, <1>3, <1>8, <1>9, <1>10

(* Whatever genuine destinations a caller names: what all wallets read off *)
(* the finished transaction is exactly the order, each payment as often    *)
(* and with its amount, or the call is refused and nobody reads anything.  *)
THEOREM PaymentsKeepPromise == Spec /\ GenuineDestinations => Promise!Safety
<1> DEFINE Inv == IInv /\ OutputsInv /\ ExtraInv /\ ScanInv /\ PayInv
<1>1. Init /\ GenuineDestinations => Inv
  <2>1. Init => OutputsInv
    BY DEF Init, OutputsInv, OutputsReachOwners, EmptyTx
  <2> QED BY <2>1, InitIInv, InitExtra, InitScan, InitPay
<1>2. Inv /\ [Next]_vars => Inv'
  BY NextIInv, NextOutputsInv, NextExtra, NextScan, NextPay
<1>3. Init => Promise!Init
  BY DEF Init, Promise!Init, Promise!Nothing
<1>4. Inv => Answered
  BY Delivered DEF Answered
<1>5. Inv /\ Answered /\ Inv' /\ Answered' /\ [Next]_vars => [Promise!Next]_(Promise!vars)
  BY StepKeeps
<1> HIDE DEF Inv
<1> QED BY <1>1, <1>2, <1>3, <1>4, <1>5, PTL DEF Spec, Promise!Safety

-----------------------------------------------------------------------------
(* Destinations that are addresses of wallets, flagged as they were parsed.*)
Named(dests) ==
  \A i \in DOMAIN dests : \E w \in Wallet, n \in Minor : Names(dests[i], w, n)
(* Two payees, neither of them the change, one of them a subaddress. *)
PaysAnother(dests, change) ==
  \E i, j \in DOMAIN dests :
    /\ dests[i].is_subaddress
    /\ dests[i].addr # change /\ dests[j].addr # change
    /\ dests[i].addr # dests[j].addr

(* AdditionalIff: additional keys are needed for a subaddress that is not  *)
(* the only one paid.                                                      *)
LEMMA AdditionalIff ==
  ASSUME NEW dests \in Seq(DestinationEntry), NEW change, Named(dests)
  PROVE  need_additional_txkeys(dests, change) <=> PaysAnother(dests, change)
<1> DEFINE F == FirstUses(dests, change)
           S == SubaddressUses(dests, change)
           T == F \ S
<1>1. F \subseteq 1 .. Len(dests) /\ S \subseteq F /\ DOMAIN dests = 1 .. Len(dests)
  BY DEF FirstUses, SubaddressUses
<1>2. IsFiniteSet(F) /\ IsFiniteSet(S) /\ IsFiniteSet(T)
  BY <1>1, FS_Interval, FS_Subset, FS_Difference
<1>3. need_additional_txkeys(dests, change) <=>
        Cardinality(S) > 0 /\ (Cardinality(T) > 0 \/ Cardinality(S) > 1)
  BY DEF need_additional_txkeys, num_subaddresses, num_stdaddresses
<1>4. \A i \in S : i \in F /\ dests[i].is_subaddress
  BY DEF SubaddressUses
<1>5. \A i \in F : i \in 1 .. Len(dests) /\ dests[i].addr # change
  BY <1>1 DEF FirstUses
<1>6. ASSUME NEW i \in F, NEW j \in F, i # j PROVE dests[i].addr # dests[j].addr
  <2>1. i \in 1 .. j - 1 \/ j \in 1 .. i - 1
    BY <1>5, <1>6
  <2> QED BY <2>1 DEF FirstUses
<1>7. ASSUME NEW i \in F, NEW j \in DOMAIN dests, dests[i].addr = dests[j].addr,
             dests[j].is_subaddress
      PROVE  i \in S
  <2>1. PICK w \in Wallet, n \in Minor : Names(dests[i], w, n)
    BY <1>1 DEF Named
  <2>2. PICK v \in Wallet, m \in Minor : Names(dests[j], v, m)
    BY DEF Named
  <2>3. n = m
    <3>1. get_subaddress(w, n) = get_subaddress(v, m)
      BY <1>7, <2>1, <2>2 DEF Names
    <3> QED BY <3>1, AddressNames
  <2>4. dests[i].is_subaddress
    BY <1>7, <2>1, <2>2, <2>3 DEF Names
  <2> QED BY <2>4 DEF SubaddressUses
<1>8. Cardinality(S) \in Nat /\ Cardinality(T) \in Nat /\ (Cardinality(S) = 0 <=> S = {})
      /\ (Cardinality(T) = 0 <=> T = {})
  <2> HIDE DEF S, T
  <2> QED BY <1>2, FS_CardinalityType, FS_EmptySet
<1>9. Cardinality(S) = 1 <=> \E x : S = {x}
  <2> HIDE DEF S
  <2> QED BY <1>2, FS_Singleton
<1>10. ASSUME Cardinality(S) > 0, Cardinality(T) > 0 \/ Cardinality(S) > 1
       PROVE  PaysAnother(dests, change)
  <2>1. PICK i : i \in S
    BY <1>8, <1>10
  <2>2. \E j \in F : j # i
    <3>1. CASE Cardinality(T) > 0
      BY <1>8, <2>1, <3>1
    <3>2. CASE Cardinality(S) > 1
      <4>1. Cardinality(S) # 1
        BY <1>8, <3>2
      <4>2. S # {i}
        <5> HIDE DEF S
        <5> QED BY <1>9, <4>1
      <4> QED BY <1>1, <2>1, <4>2
    <3> QED BY <1>10, <3>1, <3>2
  <2>3. PICK j \in F : j # i
    BY <2>2
  <2> HIDE DEF F, S
  <2> QED BY <1>1, <1>4, <1>5, <1>6, <2>1, <2>3 DEF PaysAnother
<1>11. ASSUME PaysAnother(dests, change)
       PROVE  Cardinality(S) > 0 /\ (Cardinality(T) > 0 \/ Cardinality(S) > 1)
  <2>1. PICK i \in DOMAIN dests, j \in DOMAIN dests :
          /\ dests[i].is_subaddress
          /\ dests[i].addr # change /\ dests[j].addr # change
          /\ dests[i].addr # dests[j].addr
    BY <1>11 DEF PaysAnother
  <2>2. PICK x \in F : dests[x].addr = dests[i].addr
    BY <2>1, FirstUseExists
  <2>3. PICK y \in F : dests[y].addr = dests[j].addr
    BY <2>1, FirstUseExists
  <2>4. x \in S /\ x # y
    BY <1>7, <2>1, <2>2, <2>3
  <2>5. Cardinality(S) > 0
    BY <1>8, <2>4
  <2>6. CASE y \in S
    <3>1. Cardinality(S) # 1
      BY <1>9, <2>4, <2>6
    <3> QED BY <1>8, <2>5, <3>1
  <2>7. CASE y \notin S
    BY <1>8, <2>5, <2>7
  <2> QED BY <2>6, <2>7
<1> QED BY <1>3, <1>10, <1>11

(* ShuffleNeeds: a shuffle changes nobody's name and no need.              *)
LEMMA ShuffleNeeds ==
  ASSUME NEW dests \in Seq(DestinationEntry), NEW change, Named(dests),
         NEW p \in Permutation(Len(dests))
  PROVE  /\ Named(Permuted(dests, p))
         /\ need_additional_txkeys(Permuted(dests, p), change)
            <=> need_additional_txkeys(dests, change)
<1> DEFINE t == Permuted(dests, p)
           N == Len(dests)
<1>1. /\ t \in Seq(DestinationEntry) /\ Len(t) = N /\ N \in Nat /\ DOMAIN t = 1 .. N /\ DOMAIN dests = 1 .. N
      /\ \A i \in 1 .. N : p[i] \in 1 .. N /\ t[i] = dests[p[i]]
  <2>1. dests \in Seq(DestinationEntry) /\ N \in Nat /\ DOMAIN dests = 1 .. N
    OBVIOUS
  <2>2. /\ t \in Seq(DestinationEntry) /\ Len(t) = N
        /\ \A i \in 1 .. N : p[i] \in 1 .. N /\ t[i] = dests[p[i]]
    BY PermutedType
  <2> HIDE DEF t, N
  <2>3. DOMAIN t = 1 .. N
    BY <2>2
  <2> QED BY <2>1, <2>2, <2>3
<1>2. ASSUME NEW k \in 1 .. N PROVE \E i \in 1 .. N : p[i] = k
  BY <1>1, PermutationIsOnto
<1> HIDE DEF t, N
<1>3. Named(t)
  BY <1>1 DEF Named
<1>4. PaysAnother(t, change) => PaysAnother(dests, change)
  BY <1>1 DEF PaysAnother
<1>5. ASSUME PaysAnother(dests, change) PROVE PaysAnother(t, change)
  <2>1. PICK k \in 1 .. N, l \in 1 .. N :
          /\ dests[k].is_subaddress
          /\ dests[k].addr # change /\ dests[l].addr # change
          /\ dests[k].addr # dests[l].addr
    BY <1>1, <1>5 DEF PaysAnother
  <2>2. PICK i \in 1 .. N : p[i] = k
    BY <1>2
  <2>3. PICK j \in 1 .. N : p[j] = l
    BY <1>2
  <2>4. t[i] = dests[k] /\ t[j] = dests[l]
    BY <1>1, <2>2, <2>3
  <2> QED BY <1>1, <2>1, <2>4 DEF PaysAnother
<1> QED BY <1>1, <1>3, <1>4, <1>5, AdditionalIff DEF t

(* OwnSourceFound: the helper makes the key pair of a source that is the   *)
(* account's own, whatever secrets the account has.                        *)
LEMMA OwnSourceFound ==
  ASSUME NEW acc, acc.subaddresses \subseteq Minor, NEW src \in SourceEntry, Owned(src, acc)
  PROVE  LET out_key == src.outputs[src.real_output].dest
             made == generate_key_image_helper(acc, out_key, src.real_out_tx_key,
                       src.real_out_additional_tx_keys, src.real_output_in_tx_index)
         IN  /\ src.real_output <= Len(src.outputs)
             /\ key_image_helper_succeeds(acc, out_key, src.real_out_tx_key,
                  src.real_out_additional_tx_keys, src.real_output_in_tx_index)
             /\ made.in_ephemeral.pub = out_key
<1> DEFINE out_key == src.outputs[src.real_output].dest
           P == src.real_out_tx_key
           ks == src.real_out_additional_tx_keys
           i == src.real_output_in_tx_index
           a == view_secret(acc.wallet)
           w == acc.wallet
           made == generate_key_image_helper(acc, out_key, P, ks, i)
<1>1. src.outputs \in Seq(RingMember) /\ ks \in Seq(Point) /\ i \in Nat \ {0} /\ P \in Point
  BY DEF SourceEntry
<1>2. src.real_output \in DOMAIN src.outputs /\ \A m \in DOMAIN ks : check_key(ks[m])
  BY DEF Owned
<1>3. PICK R \in KeysFor(src), n \in acc.subaddresses :
        /\ check_key(R)
        /\ out_key = derive_public_key(generate_key_derivation(R, a), i,
                                       get_subaddress_spend_public_key(w, n))
  BY DEF Owned
<1>4. R = P \/ (i \in DOMAIN ks /\ R = ks[i])
  BY DEF KeysFor
<1> HIDE DEF out_key, made, a
<1> DEFINE D == get_subaddress_spend_public_key(w, n)
<1>5. out_key.spend = D /\ out_key.idx = i /\ out_key.der = generate_key_derivation(R, a)
  BY <1>3 DEF derive_public_key
<1>6. ASSUME NEW m PROVE D = get_subaddress_spend_public_key(w, m) <=> m = n
  <2>1. D = get_subaddress_spend_public_key(w, m) => <<"spend", w, n>> = <<"spend", w, m>>
    BY DEF get_subaddress_spend_public_key
  <2> QED BY <2>1
<1>7. InTable(acc, D) /\ TableIndex(acc, D) = n
  <2>1. TableIndex(acc, D) = CHOOSE m \in acc.subaddresses : D = get_subaddress_spend_public_key(w, m)
    BY DEF TableIndex
  <2>2. InTable(acc, D) <=> \E m \in acc.subaddresses : D = get_subaddress_spend_public_key(w, m)
    BY DEF InTable
  <2> HIDE DEF D
  <2> QED BY <1>6, <2>1, <2>2
<1>8. ~InTable(acc, [mult |-> {}, base |-> <<"unrelated">>])
  BY DEF InTable, get_subaddress_spend_public_key
<1> DEFINE there == Found(n, out_key.der)
<1>9. ASSUME NEW der
      PROVE  Try(acc, out_key, der, i, NoTag) = IF der = out_key.der THEN there ELSE NotFound
  <2>1. CASE der = out_key.der
    <3>1. derive_subaddress_public_key(out_key, der, i) = D
      BY <1>5, <2>1 DEF derive_subaddress_public_key
    <3>2. out_can_be_to_acc(NoTag, der, i)
      BY DEF out_can_be_to_acc
    <3> HIDE DEF D
    <3> QED BY <1>7, <2>1, <3>1, <3>2 DEF Try
  <2>2. CASE der # out_key.der
    <3>1. derive_subaddress_public_key(out_key, der, i) = [mult |-> {}, base |-> <<"unrelated">>]
      BY <2>2 DEF derive_subaddress_public_key
    <3> QED BY <1>8, <2>2, <3>1 DEF Try
  <2> QED BY <2>1, <2>2
<1>10. /\ Len(AdditionalDerivations(acc, ks)) = Len(ks)
       /\ i <= Len(ks) => AdditionalDerivations(acc, ks)[i] = generate_key_derivation(ks[i], a)
  <2>1. AdditionalDerivations(acc, ks) = [m \in 1 .. Len(ks) |-> generate_key_derivation(ks[m], a)]
    BY <1>1, <1>2, DecodingAll DEF AdditionalDerivations, a
  <2>2. Len(ks) \in Nat
    BY <1>1
  <2> HIDE DEF ks
  <2> QED BY <1>1, <2>1, <2>2
<1>11. R = P => SharedDerivation(acc, P) = out_key.der
  BY <1>3, <1>5 DEF SharedDerivation, DerivationFails, a
<1>12. out_key # UnwrittenKey
  BY <1>1, <1>5 DEF UnwrittenKey
<1>13. there.found = TRUE /\ NotFound.found = FALSE /\ there.index = n /\ there.derivation = out_key.der
  BY DEF Found, NotFound
<1>14. i \in DOMAIN ks <=> i <= Len(ks)
  BY <1>1
<1> DEFINE info == receive_info(acc, out_key, P, ks, i)
           shared == Try(acc, out_key, SharedDerivation(acc, P), i, NoTag)
           other == Try(acc, out_key, AdditionalDerivations(acc, ks)[i], i, NoTag)
<1>15. info = IF shared.found THEN shared ELSE IF i <= Len(ks) THEN other ELSE NotFound
  BY <1>10, <1>12 DEF receive_info, is_out_to_acc_precomp
<1>16. /\ shared = IF SharedDerivation(acc, P) = out_key.der THEN there ELSE NotFound
       /\ other = IF AdditionalDerivations(acc, ks)[i] = out_key.der THEN there ELSE NotFound
  BY <1>9
<1> HIDE DEF info, shared, other, there, ks, i, P
<1>17. info = there
  BY <1>4, <1>5, <1>10, <1>11, <1>13, <1>14, <1>15, <1>16
<1>18. in_ephemeral(acc, out_key, info.derivation, i, info.index).pub = out_key
  <2> DEFINE share == IF acc.kind = "multisig" THEN "part" ELSE "full"
             sec == OneTimeSecret(out_key.der, i, w, n, share)
  <2>1. info.derivation = out_key.der /\ info.index = n
    BY <1>13, <1>17
  <2>2. out_key = derive_public_key(out_key.der, i, D)
    BY <1>3, <1>5 DEF i
  <2>3. secret_key_to_public_key(sec) = derive_public_key(out_key.der, i, D)
    BY DEF secret_key_to_public_key, OneTimeSecret
  <2>4. in_ephemeral(acc, out_key, out_key.der, i, n) =
          IF acc.kind = "watch" THEN [pub |-> out_key, sec |-> null_skey]
          ELSE [pub |-> secret_key_to_public_key(sec), sec |-> sec]
    BY DEF in_ephemeral
  <2> HIDE DEF sec, D
  <2> QED BY <2>1, <2>2, <2>3, <2>4
<1>19. key_image_helper_succeeds(acc, out_key, P, ks, i)
  BY <1>13, <1>17, <1>18 DEF key_image_helper_succeeds, info
<1>20. made.in_ephemeral.pub = out_key
  BY <1>18 DEF made, generate_key_image_helper, info
<1>21. src.real_output <= Len(src.outputs)
  BY <1>1, <1>2
<1> QED BY <1>19, <1>20, <1>21 DEF made, out_key, ks, i, P

-----------------------------------------------------------------------------
(* A well-formed call on its way: nothing that would refuse it turns up.   *)
(* The destinations stay those of the request but for their order, the     *)
(* sources are the sender's until they have become inputs, the extra keeps *)
(* decoding, and there are as many keys as will be asked for.              *)
Going ==
  /\ result \in {"none", "true"}
  /\ Named(destinations) /\ \A i \in DOMAIN destinations : destinations[i].amount > 0
  /\ pc \in {"open", "extra", "inputs"} => destinations = req.destinations
  /\ pc \in {"open", "extra", "inputs"} => sources = req.sources
  /\ pc \in {"open", "extra"} => tx.extra = req.extra
  /\ pc \in {"open", "extra", "inputs", "sort", "pubkey", "outputs"} => parse_tx_extra(tx.extra)
  /\ pc = "open" => ~req.direct /\ additional_tx_keys = << >>
  /\ pc # "open" => Len(additional_tx_keys) = IF NeedsKeys THEN Len(destinations) ELSE 0
  /\ pc = "outputs" => Len(keys.additional) = IF NeedsKeys THEN Len(tx.vout) ELSE 0
  /\ result = "none" => Len(keys.amount) = IF req.version = 2 THEN Len(tx.vout) ELSE 0
GoingInv == WellFormed(req) => Going

(* There are as many destinations as the caller gave, and as many outputs  *)
(* once all are made.                                                      *)
CountsInv ==
  /\ Len(destinations) = Len(req.destinations)
  /\ pc \in {"money", "sign"} => Len(tx.vout) = Len(destinations)

(* NextCounts: the shuffle and the loop over the destinations keep count.  *)
LEMMA NextCounts == IInv /\ CountsInv /\ [Next]_vars => CountsInv'
<1> SUFFICES ASSUME IInv, CountsInv, [Next]_vars PROVE CountsInv'
  OBVIOUS
<1>1. /\ destinations \in Seq(DestinationEntry)
      /\ DOMAIN tx = {"extra", "vin", "vout", "signatures", "rct"}
  BY DEF IInv, TypeOK
<1>2. CASE ShuffleDestinations
  <2>1. UNCHANGED req /\ pc' = "sort"
    BY <1>2 DEF ShuffleDestinations, Goto
  <2>2. Len(destinations') = Len(destinations)
    <3>1. CASE destinations' = destinations
      BY <3>1
    <3>2. CASE \E p \in Permutation(Len(destinations)) : destinations' = Permuted(destinations, p)
      BY <1>1, <3>2, PermutedType
    <3> QED BY <1>2, <3>1, <3>2 DEF ShuffleDestinations
  <2> QED BY <2>1, <2>2 DEF CountsInv
<1>3. CASE FinishExtra
  <2>1. UNCHANGED <<req, destinations>> /\ Len(tx.vout) = Len(destinations)
    BY <1>3 DEF FinishExtra
  <2>2. tx'.vout = tx.vout
    BY <1>1, <1>3 DEF FinishExtra
  <2> QED BY <2>1, <2>2 DEF CountsInv
<1>4. CASE CheckMoney \/ CloseTx \/ Done \/ UNCHANGED vars
  <2>1. UNCHANGED <<req, destinations, tx>> /\ (pc' \in {"money", "sign"} => pc \in {"money", "sign"})
    BY <1>4 DEF CheckMoney, CloseTx, Done, vars, Goto, Return
  <2> QED BY <2>1 DEF CountsInv
<1>5. CASE \/ OpenTx \/ EmptySources \/ UnparsableExtra \/ EncryptPaymentId \/ DummyPaymentId
            \/ AddInput \/ SortInputs \/ SetTxPubKey \/ AddOutput \/ SignV1 \/ SignV2
  <2>1. UNCHANGED <<req, destinations>>
    BY <1>5 DEF OpenTx, EmptySources, UnparsableExtra, EncryptPaymentId, DummyPaymentId,
       ExtraUnchanged, AddInput, SortInputs, SetTxPubKey, AddOutput, SignV1, SignV2
  <2>2. pc' \notin {"money", "sign"}
    BY <1>5 DEF OpenTx, EmptySources, UnparsableExtra, EncryptPaymentId, DummyPaymentId,
       AddInput, SortInputs, SetTxPubKey, AddOutput, SignV1, SignV2, Goto, Return
  <2> QED BY <2>1, <2>2 DEF CountsInv
<1> QED BY <1>2, <1>3, <1>4, <1>5 DEF Next

(* Unrefused: genRct and genRctSimple refuse no call that is provable.     *)
LEMMA Unrefused ==
  ASSUME IInv, SignInv, CountsInv, Provable(req), pc = "sign", ~AmountKeysMissing
  PROVE  ~genRctThrows
<1>1. Len(tx.vout) = Len(req.destinations)
  BY DEF CountsInv
<1>2. ~UnsupportedVersion(req.rct_config)
  BY DEF Provable, UnsupportedVersion
<1>3. ~NoPaddedProof(req.rct_config, Len(tx.vout))
  BY <1>1 DEF Provable, NoPaddedProof
<1>4. ~RingTooSmall(req.rct_config)
  <2> SUFFICES ASSUME ~is_rct_clsag(req.rct_config), NEW i \in DOMAIN sources
               PROVE  ~(Len(sources[i].outputs) < 2)
    BY DEF RingTooSmall
  <2>1. PICK m \in DOMAIN req.sources : sources[i] = req.sources[m]
    BY DEF SignInv
  <2>2. Len(sources[i].outputs) >= 2
    BY <2>1 DEF Provable
  <2>3. Len(sources[i].outputs) \in Nat
    <3>1. sources \in Seq(SourceEntry)
      BY DEF IInv, TypeOK
    <3>2. sources[i] \in SourceEntry
      BY <3>1
    <3>3. sources[i].outputs \in Seq(RingMember)
      BY <3>2 DEF SourceEntry
    <3> QED BY <3>3
  <2> QED BY <2>2, <2>3
<1> QED BY <1>2, <1>3, <1>4 DEF genRctThrows

(* ExtraGoesOn: so does one that replaces those of its type.               *)
LEMMA ExtraGoesOn ==
  ASSUME NEW s \in Seq(Field), parse_tx_extra(s), OfType(s, "padding") = << >>,
         NEW x \in Field, x.type \in {"pub_key", "additional_pub_keys", "nonce"}
  PROVE  /\ parse_tx_extra(Append(s, x))
         /\ parse_tx_extra(remove_field_from_tx_extra(s, x.type))
         /\ parse_tx_extra(Append(remove_field_from_tx_extra(s, x.type), x))
<1> DEFINE r == remove_field_from_tx_extra(s, x.type)
<1>1. "padding" \in FieldTypes /\ x.type # "padding" /\ x.type # "junk"
  BY Known DEF Kept
<1>2. r \in Seq(Field) /\ OfType(r, "padding") = << >> /\ parse_tx_extra(r)
  BY <1>1, RemoveKeeps
<1> HIDE DEF r
<1> QED BY <1>1, <1>2, NoPadding DEF r

(* InitGoing: a well-formed call begins well.                              *)
LEMMA InitGoing == Init => GoingInv
<1> SUFFICES ASSUME Init, WellFormed(req) PROVE Going
  BY DEF GoingInv
<1>1. /\ pc = IF req.direct THEN "extra" ELSE "open"
      /\ result = "none" /\ sources = req.sources /\ destinations = req.destinations
      /\ additional_tx_keys = req.additional_tx_keys /\ tx.extra = req.extra
      /\ tx.vout = << >> /\ keys.additional = << >> /\ keys.amount = << >>
  BY DEF Init, EmptyTx
<1>2. req \in Request
  BY RequestsAssumption DEF Init
<1>3. req.additional_tx_keys \in Seq(Secret) /\ req.direct \in BOOLEAN
  BY <1>2 DEF Request
<1>4. Len(req.additional_tx_keys) = 0 => req.additional_tx_keys = << >>
  BY <1>3, EmptySeq
<1>5. Len(<< >>) = 0
  OBVIOUS
<1>6. /\ Named(req.destinations) /\ \A i \in DOMAIN req.destinations : req.destinations[i].amount > 0
      /\ parse_tx_extra(req.extra)
      /\ Len(req.additional_tx_keys) =
           IF req.direct /\ NeedsKeys THEN Len(req.destinations) ELSE 0
  BY <1>1 DEF WellFormed, Named, NeedsKeys
<1> QED BY <1>1, <1>3, <1>4, <1>5, <1>6 DEF Going

(* GoesOn: steps that do not touch what the next ones look at.             *)
LEMMA GoesOn ==
  ASSUME Going, UNCHANGED <<req, destinations, additional_tx_keys, keys>>,
         tx'.vout = tx.vout, result' \in {"none", "true"},
         result' = "none" => result = "none",
         pc' # "open", pc # "open" \/ Len(additional_tx_keys) = IF NeedsKeys THEN Len(destinations) ELSE 0,
         pc' \in {"extra", "inputs"} => pc \in {"open", "extra", "inputs"} /\ sources' = sources,
         pc' = "extra" => pc \in {"open", "extra"} /\ tx'.extra = tx.extra,
         pc' \in {"extra", "inputs", "sort", "pubkey", "outputs"} => parse_tx_extra(tx'.extra),
         pc' = "outputs" => pc = "outputs"
  PROVE  Going'
<1>1. NeedsKeys' = NeedsKeys
  BY DEF NeedsKeys
<1> QED BY <1>1 DEF Going

(* NoneRefused: an id to be encrypted is one that the caller's extra has,  *)
(* and a well-formed request has a key to encrypt it for.                  *)
LEMMA NoneRefused ==
  ASSUME WellFormed(req), req.extra \in Seq(Field), tx.extra = req.extra,
         destinations = req.destinations,
         HasNonce, get_encrypted_payment_id_from_tx_extra_nonce(Nonce)
  PROVE  ~(ViewKey = null_pkey \/ DerivationFails(ViewKey))
<1> DEFINE p == OfType(req.extra, "nonce")
<1>1. /\ p \in Seq(Field)
      /\ \A i \in DOMAIN p : p[i].type \in {"nonce"} /\ \E j \in DOMAIN req.extra : p[i] = req.extra[j]
  BY PickedOf DEF OfType
<1>2. 1 <= Len(p)
  BY DEF HasNonce, find_tx_extra_field_by_type
<1>3. Nonce = p[1].nonce
  BY DEF Nonce, tx_extra_field
<1>4. p[1].nonce.kind = "encrypted"
  BY <1>3 DEF get_encrypted_payment_id_from_tx_extra_nonce
<1> HIDE DEF p
<1>5. PICK j \in DOMAIN req.extra : p[1] = req.extra[j] /\ p[1].type = "nonce"
  BY <1>1, <1>2
<1>6. req.extra[j] \in IdsIn(req.extra)
  BY <1>4, <1>5 DEF IdsIn
<1>7. /\ get_destination_view_key_pub(req.destinations, req.change) # null_pkey
      /\ check_key(get_destination_view_key_pub(req.destinations, req.change))
  BY <1>6 DEF WellFormed
<1> QED BY <1>7 DEF ViewKey, DerivationFails

(* InputGoes: the next source of a well-formed call becomes an input.      *)
LEMMA InputGoes ==
  ASSUME IInv, WellFormed(req), Going, AddInput
  PROVE  /\ UNCHANGED <<req, destinations, sources, additional_tx_keys, keys, result, pc>>
         /\ tx'.vout = tx.vout /\ tx'.extra = tx.extra
<1>1. PICK k \in Nat : k = Len(tx.vin)
  BY DEF IInv, TypeOK
<1>2. /\ pc = "inputs" /\ k < Len(sources) /\ sources \in Seq(SourceEntry)
      /\ DOMAIN tx = {"extra", "vin", "vout", "signatures", "rct"}
      /\ UNCHANGED <<req, sources, destinations, additional_tx_keys, keys>>
  BY <1>1 DEF AddInput, IInv, TypeOK
<1>3. sources = req.sources
  BY <1>2 DEF Going
<1> DEFINE src == sources[k + 1]
           out_key == src.outputs[src.real_output].dest
           mine == key_image_helper_succeeds(req.sender, out_key, src.real_out_tx_key,
                     src.real_out_additional_tx_keys, src.real_output_in_tx_index)
           made == generate_key_image_helper(req.sender, out_key, src.real_out_tx_key,
                     src.real_out_additional_tx_keys, src.real_output_in_tx_index)
<1>4. k + 1 \in DOMAIN sources /\ src \in SourceEntry
  <2>1. k + 1 \in 1 .. Len(sources)
    BY <1>2
  <2> QED BY <1>2, <2>1
<1>5. Owned(src, req.sender)
  BY <1>3, <1>4 DEF WellFormed
<1>6. req.sender.subaddresses \subseteq Minor
  BY RequestsAssumption DEF IInv, TypeOK, Request, AccountKeys
<1>7. src.real_output <= Len(src.outputs) /\ mine /\ made.in_ephemeral.pub = out_key
  <2>1. ASSUME NEW s, s = src
        PROVE  LET k1 == s.outputs[s.real_output].dest
                   m1 == generate_key_image_helper(req.sender, k1, s.real_out_tx_key,
                           s.real_out_additional_tx_keys, s.real_output_in_tx_index)
               IN  /\ s.real_output <= Len(s.outputs)
                   /\ key_image_helper_succeeds(req.sender, k1, s.real_out_tx_key,
                        s.real_out_additional_tx_keys, s.real_output_in_tx_index)
                   /\ m1.in_ephemeral.pub = k1
    <3> HIDE DEF src
    <3>1. s \in SourceEntry /\ Owned(s, req.sender)
      BY <1>4, <1>5, <2>1
    <3> QED BY <1>6, <3>1, OwnSourceFound
  <2> QED BY <2>1
<1>8. Goto("inputs") /\ \E x : tx' = [tx EXCEPT !.vin = Append(@, x)]
  BY <1>1, <1>7 DEF AddInput
<1> QED BY <1>2, <1>8 DEF Goto

(* OutputGoes: so does the next destination; what is made for it is a key  *)
(* if additional keys are needed, and an amount key in version 2.          *)
LEMMA OutputGoes ==
  ASSUME IInv, ScanInv, pc = "outputs", NEW i \in DOMAIN destinations, Named(destinations),
         NEW need \in BOOLEAN, NEW before
  PROVE  LET made == OutputKeys(destinations[i], i, need, before)
         IN  /\ check_key(destinations[i].addr.spend)
             /\ \E x : made.additional = IF need THEN <<x>> ELSE << >>
             /\ \E x : made.amount = IF req.version > 1 THEN <<x>> ELSE << >>
<1> DEFINE d == destinations[i]
           from == IF d.addr = req.change THEN txkey_pub ELSE d.addr.view
<1>1. PICK w \in Wallet, n \in Minor : d.addr = get_subaddress(w, n)
  BY DEF Named, Names
<1>2. check_key(d.addr.view) /\ check_key(d.addr.spend)
  BY <1>1, AddressDecodes
<1>3. check_key(txkey_pub)
  BY DEF ScanInv
<1>4. ~DerivationFails(from)
  BY <1>2, <1>3 DEF DerivationFails
<1> QED BY <1>2, <1>4 DEF OutputKeys
(* TotalsAreNumbers: what a request holds and sends are natural numbers.   *)
LEMMA TotalsAreNumbers ==
  ASSUME NEW r \in Request
  PROVE  TotalIn(r) \in Nat /\ TotalOut(r) \in Nat
<1>1. ASSUME NEW s \in Seq(SourceEntry) \cup Seq(DestinationEntry) PROVE AmountIn(s) \in Nat
  <2>1. AmountsOf(s) \in [Nat -> Nat] /\ Len(s) \in Nat /\ AmountIn(s) = Total(AmountsOf(s), Len(s))
    BY AmountsType
  <2>2. Len(s) <= Len(s)
    BY <2>1
  <2> QED BY <2>1, <2>2, TotalGrows
<1>2. r.sources \in Seq(SourceEntry) /\ r.destinations \in Seq(DestinationEntry)
  BY DEF Request
<1> QED BY <1>1, <1>2 DEF TotalIn, TotalOut

(* NextGoing: every step of a well-formed call goes on or answers "true".  *)
LEMMA NextGoing ==
  /\ IInv /\ ExtraInv /\ ScanInv /\ MoneyInv /\ SignInv /\ CountsInv /\ GoingInv
  /\ [Next]_vars
  => GoingInv'
<1> SUFFICES ASSUME IInv, ExtraInv, ScanInv, MoneyInv, SignInv, CountsInv, GoingInv,
                    [Next]_vars, WellFormed(req)'
             PROVE  Going'
  BY DEF GoingInv
<1>1. req' = req
  BY DEF Next, OpenTx, EmptySources, UnparsableExtra, EncryptPaymentId, DummyPaymentId,
         ExtraUnchanged, AddInput, ShuffleDestinations, SortInputs, SetTxPubKey, AddOutput,
         FinishExtra, CheckMoney, SignV1, SignV2, CloseTx, Done, vars
<1>2. WellFormed(req) /\ Going
  BY <1>1 DEF GoingInv
<1>3. /\ DOMAIN tx = {"extra", "vin", "vout", "signatures", "rct"}
      /\ destinations \in Seq(DestinationEntry) /\ sources \in Seq(SourceEntry)
      /\ tx.extra \in Seq(Field)
      /\ req \in Request
      /\ result = "none" <=> pc \notin {"close", "done"}
  BY RequestsAssumption DEF IInv, TypeOK, ExtraInv
<1>4. OfType(tx.extra, "padding") = << >>
  <2>1. OfType(req.extra, "padding") = << >>
    BY <1>2 DEF WellFormed
  <2> QED BY <2>1 DEF ExtraInv, Kept
<1>5. NeedsKeys \in BOOLEAN
  BY DEF NeedsKeys, need_additional_txkeys
<1>6. CASE OpenTx
  <2>1. Len(additional_tx_keys') = IF NeedsKeys THEN Len(destinations) ELSE 0
    <3>1. Len(FreshKeys(Len(destinations))) = Len(destinations)
      <4>1. Len(destinations) \in Nat
        BY <1>3
      <4> QED BY <4>1 DEF FreshKeys
    <3>2. additional_tx_keys = << >> /\ Len(<< >>) = 0
      BY <1>2, <1>6 DEF OpenTx, Going
    <3> QED BY <1>6, <3>1, <3>2 DEF OpenTx, NeedsKeys
  <2> QED BY <1>2, <1>6, <2>1 DEF OpenTx, Goto, Going, NeedsKeys
<1>7. CASE EmptySources \/ UnparsableExtra
  BY <1>2, <1>7 DEF EmptySources, UnparsableExtra, Going, WellFormed
<1>8. ASSUME pc = "extra", Goto("inputs"), ExtraUnchanged, tx'.vout = tx.vout,
             parse_tx_extra(tx'.extra)
      PROVE  Going'
  BY <1>2, <1>3, <1>8, GoesOn DEF Goto, ExtraUnchanged, Going
<1>9. CASE EncryptPaymentId
  <2>1. pc = "extra" /\ ExtraUnchanged /\ HasNonce /\ get_encrypted_payment_id_from_tx_extra_nonce(Nonce)
    BY <1>9 DEF EncryptPaymentId
  <2>2. tx.extra = req.extra /\ destinations = req.destinations
    BY <1>2, <2>1 DEF Going
  <2>3. ~(ViewKey = null_pkey \/ DerivationFails(ViewKey))
    BY <1>2, <1>3, <2>1, <2>2, NoneRefused
  <2>4. Goto("inputs") /\ tx' = [tx EXCEPT !.extra =
                 add_extra_nonce_to_tx_extra(remove_field_from_tx_extra(@, "nonce"),
                   set_encrypted_payment_id_to_tx_extra_nonce(
                     encrypt_payment_id(Nonce.id, ViewKey, tx_key)))]
    BY <1>9, <2>3 DEF EncryptPaymentId
  <2> DEFINE id == encrypt_payment_id(Nonce.id, ViewKey, tx_key)
             x == [type |-> "nonce", nonce |-> [kind |-> "encrypted", id |-> id]]
  <2>5. x \in Field
    <3>1. id \in PaymentId
      <4>1. Nonce.id \in PaymentId
        BY <1>3, <2>1, NonceType
      <4>2. ViewKey \in Point
        BY ViewKeyType DEF IInv
      <4> QED BY <4>1, <4>2, EncryptedType, PointTypes DEF tx_key
    <3> HIDE DEF id
    <3> QED BY <3>1, FieldMade
  <2>6. x.type = "nonce"
    OBVIOUS
  <2>7. tx'.extra = Append(remove_field_from_tx_extra(tx.extra, "nonce"), x) /\ tx'.vout = tx.vout
    BY <1>3, <2>4 DEF add_extra_nonce_to_tx_extra, set_encrypted_payment_id_to_tx_extra_nonce
  <2>8. parse_tx_extra(tx.extra)
    BY <1>9 DEF EncryptPaymentId
  <2> HIDE DEF x
  <2>9. parse_tx_extra(tx'.extra)
    BY <1>3, <1>4, <2>5, <2>6, <2>7, <2>8, ExtraGoesOn
  <2> QED BY <1>8, <2>1, <2>4, <2>7, <2>9
<1>10. CASE DummyPaymentId
  <2>1. pc = "extra" /\ ExtraUnchanged /\ Goto("inputs") /\ parse_tx_extra(tx.extra)
    BY <1>10 DEF DummyPaymentId
  <2>2. CASE tx' = tx
    BY <1>8, <2>1, <2>2
  <2>3. CASE tx' # tx
    <3> DEFINE id == encrypt_payment_id(NullPaymentId, ViewKey, tx_key)
               x == [type |-> "nonce", nonce |-> [kind |-> "encrypted", id |-> id]]
    <3>1. tx' = [tx EXCEPT !.extra = Append(@, x)]
      BY <1>10, <2>3 DEF DummyPaymentId, add_extra_nonce_to_tx_extra,
         set_encrypted_payment_id_to_tx_extra_nonce
    <3>2. x \in Field
      <4>1. NullPaymentId \in PaymentId
        <5>1. "null" \in {"null"} \cup STRING /\ {} \in SUBSET Point
          OBVIOUS
        <5> QED BY <5>1 DEF NullPaymentId, PaymentId
      <4>2. ViewKey \in Point
        BY ViewKeyType DEF IInv
      <4>3. id \in PaymentId
        BY <4>1, <4>2, EncryptedType, PointTypes DEF tx_key
      <4> HIDE DEF id
      <4> QED BY <4>3, FieldMade
    <3>3. x.type = "nonce"
      OBVIOUS
    <3> HIDE DEF x
    <3>4. tx'.extra = Append(tx.extra, x) /\ tx'.vout = tx.vout
      BY <1>3, <3>1
    <3>5. parse_tx_extra(tx'.extra)
      BY <1>3, <1>4, <2>1, <3>2, <3>3, <3>4, ExtraGoesOn
    <3> QED BY <1>8, <2>1, <3>4, <3>5
  <2> QED BY <2>2, <2>3
<1>11. CASE AddInput
  <2>1. /\ UNCHANGED <<req, destinations, sources, additional_tx_keys, keys, result, pc>>
        /\ tx'.vout = tx.vout /\ tx'.extra = tx.extra
    BY <1>2, <1>11, InputGoes
  <2>2. pc = "inputs"
    BY <1>11 DEF AddInput
  <2> QED BY <1>2, <2>1, <2>2, GoesOn DEF Going
<1>12. CASE ShuffleDestinations
  <2>1. /\ UNCHANGED <<req, sources, additional_tx_keys, tx, keys, result>>
        /\ pc = "inputs" /\ pc' = "sort"
    BY <1>12 DEF ShuffleDestinations, Goto
  <2>2. CASE destinations' = destinations
    BY <1>2, <2>1, <2>2, GoesOn DEF Going
  <2>3. CASE \E p \in Permutation(Len(destinations)) : destinations' = Permuted(destinations, p)
    <3>1. PICK p \in Permutation(Len(destinations)) : destinations' = Permuted(destinations, p)
      BY <2>3
    <3>2. Named(destinations') /\ NeedsKeys' = NeedsKeys
      <4>1. Named(destinations)
        BY <1>2 DEF Going
      <4>2. need_additional_txkeys(destinations', req.change) <=> need_additional_txkeys(destinations, req.change)
        BY <1>3, <3>1, <4>1, ShuffleNeeds
      <4>3. NeedsKeys' \in BOOLEAN
        BY DEF NeedsKeys, need_additional_txkeys
      <4> QED BY <1>3, <1>5, <2>1, <3>1, <4>1, <4>2, <4>3, ShuffleNeeds DEF NeedsKeys
    <3>3. \A i \in DOMAIN destinations' : \E k \in DOMAIN destinations : destinations'[i] = destinations[k]
      BY <1>3, <3>1 DEF Permuted, Permutation
    <3>4. Len(destinations') = Len(destinations)
      BY <1>3, <3>1, PermutedType
    <3> QED BY <1>2, <2>1, <3>2, <3>3, <3>4 DEF Going
  <2> QED BY <1>12, <2>2, <2>3 DEF ShuffleDestinations
<1>13. CASE SortInputs
  <2>1. /\ UNCHANGED <<req, destinations, additional_tx_keys, keys, result>>
        /\ tx'.extra = tx.extra /\ tx'.vout = tx.vout /\ pc = "sort" /\ pc' = "pubkey"
    BY <1>3, <1>13 DEF SortInputs, Goto
  <2> QED BY <1>2, <2>1, GoesOn DEF Going
<1>14. CASE SetTxPubKey
  <2> DEFINE single == SingleSubaddress(destinations, req.change)
             D == single_dest_subaddress(destinations, req.change).spend
             R == IF single THEN scalarmultKey(D, tx_key) ELSE scalarmultBase(tx_key)
             x == [type |-> "pub_key", key |-> R]
  <2>1. ~(single /\ ~check_key(D))
    <3> SUFFICES ASSUME single PROVE check_key(D)
      OBVIOUS
    <3>1. PICK i \in DOMAIN destinations :
            single_dest_subaddress(destinations, req.change) = destinations[i].addr
      BY <1>3, SingleIsOne
    <3>2. PICK w \in Wallet, n \in Minor : destinations[i].addr = get_subaddress(w, n)
      BY <1>2 DEF Going, Named, Names
    <3> QED BY <3>1, <3>2, AddressDecodes
  <2>2. pc = "pubkey" /\ Len(additional_tx_keys) = IF NeedsKeys THEN Len(destinations) ELSE 0
    BY <1>2, <1>14 DEF SetTxPubKey, Going
  <2>3. /\ tx' = [tx EXCEPT !.extra = Append(remove_field_from_tx_extra(@, "pub_key"), x)]
        /\ Goto("outputs")
        /\ UNCHANGED <<req, destinations, sources, additional_tx_keys, keys>>
    BY <1>14, <2>1, <2>2 DEF SetTxPubKey, add_tx_pub_key_to_extra, NeedsKeys
  <2>4. x \in Field
    <3>1. R \in Point
      BY TxPubKeyType DEF IInv
    <3> HIDE DEF R
    <3> QED BY <3>1, FieldMade
  <2>5. x.type = "pub_key"
    OBVIOUS
  <2> HIDE DEF x
  <2>6. tx'.extra = Append(remove_field_from_tx_extra(tx.extra, "pub_key"), x) /\ tx'.vout = tx.vout
    BY <1>3, <2>3
  <2>7. parse_tx_extra(tx.extra)
    BY <1>2, <2>2 DEF Going
  <2>8. parse_tx_extra(tx'.extra)
    BY <1>3, <1>4, <2>4, <2>5, <2>6, <2>7, ExtraGoesOn
  <2>9. Len(keys.additional) = 0 /\ Len(tx.vout) = 0
    <3>1. keys.additional = << >> /\ tx.vout = << >> /\ Len(<< >>) = 0
      BY <2>2 DEF IInv, Phases
    <3> QED BY <3>1
  <2>10. NeedsKeys' = NeedsKeys
    BY <2>3 DEF NeedsKeys
  <2> QED BY <1>2, <2>2, <2>3, <2>6, <2>8, <2>9, <2>10 DEF Going, Goto
<1>15. CASE AddOutput
  <2> DEFINE i == Len(tx.vout) + 1
             d == destinations[i]
             need == need_additional_txkeys(destinations, req.change)
  <2>0. /\ pc = "outputs" /\ Len(tx.vout) < Len(destinations) /\ result = "none"
        /\ UNCHANGED <<req, destinations, sources, additional_tx_keys>>
    BY <1>3, <1>15 DEF AddOutput
  <2>1. i \in DOMAIN destinations /\ tx.vout \in Seq([amount : Amount, key : OneTimeKey,
                              view_tag : {NoTag} \cup (Point \X Nat)])
    BY <1>3, <2>0 DEF IInv, TypeOK
  <2>2. Named(destinations) /\ d.amount > 0 /\ d.amount \in Nat
    <3>1. d.amount \in Amount
      BY <2>1, DestinationTypes DEF IInv
    <3>2. Amount \subseteq Nat
      BY ModulusAssumption DEF Amount
    <3> QED BY <1>2, <2>1, <3>1, <3>2 DEF Going
  <2>3. need \in BOOLEAN
    BY DEF need_additional_txkeys
  <2>4. ASSUME NEW before
        PROVE  /\ check_key(d.addr.spend)
               /\ \E x : OutputKeys(d, i, need, before).additional = IF need THEN <<x>> ELSE << >>
               /\ \E y : OutputKeys(d, i, need, before).amount = IF req.version > 1 THEN <<y>> ELSE << >>
    <3> HIDE DEF i, need
    <3> QED BY <2>0, <2>1, <2>2, <2>3, OutputGoes
  <2>5. PICK before, made, out :
          /\ made = OutputKeys(d, i, need, before)
          /\ keys' = [additional |-> keys.additional \o made.additional,
                      amount |-> keys.amount \o made.amount]
          /\ tx' = [tx EXCEPT !.vout = Append(@, out)]
          /\ Goto("outputs")
    <3>1. ~(d.amount = 0) /\ check_key(d.addr.spend)
      BY <2>2, <2>4
    <3> QED BY <1>15, <3>1 DEF AddOutput
  <2>6. PICK x, y : /\ made.additional = IF need THEN <<x>> ELSE << >>
                    /\ made.amount = IF req.version > 1 THEN <<y>> ELSE << >>
    <3> HIDE DEF d, i, need
    <3> QED BY <2>4, <2>5
  <2>7. /\ tx'.vout = Append(tx.vout, out) /\ tx'.extra = tx.extra
        /\ Len(tx'.vout) = Len(tx.vout) + 1 /\ Len(tx.vout) \in Nat
    BY <1>3, <2>1, <2>5
  <2>8. /\ keys'.additional = keys.additional \o (IF need THEN <<x>> ELSE << >>)
        /\ keys'.amount = keys.amount \o (IF req.version > 1 THEN <<y>> ELSE << >>)
    <3> HIDE DEF d, i, need
    <3> QED BY <2>5, <2>6
  <2>9. ASSUME NEW S, NEW s \in Seq(S), NEW z
        PROVE  /\ Len(s \o <<z>>) = Len(s) + 1 /\ Len(s) \in Nat
               /\ Len(s \o << >>) = Len(s)
    <3>1. s \in Seq(S \cup {z}) /\ <<z>> \in Seq(S \cup {z}) /\ << >> \in Seq(S \cup {z})
      OBVIOUS
    <3>2. Len(s \o <<z>>) = Len(s) + Len(<<z>>) /\ Len(s \o << >>) = Len(s) + Len(<< >>)
      BY <3>1, ConcatProperties
    <3> QED BY <3>2
  <2>10. keys.additional \in Seq(Point) /\ keys.amount \in Seq(Point \X Nat) /\ req.version \in 1 .. 2
    BY <1>3 DEF IInv, TypeOK, Request
  <2>11. /\ Len(keys.additional) = IF need THEN Len(tx.vout) ELSE 0
         /\ Len(keys.amount) = IF req.version = 2 THEN Len(tx.vout) ELSE 0
    BY <1>2, <2>0 DEF Going, NeedsKeys
  <2> HIDE DEF need
  <2>12. /\ Len(keys'.additional) = IF need THEN Len(tx'.vout) ELSE 0
         /\ Len(keys'.amount) = IF req.version = 2 THEN Len(tx'.vout) ELSE 0
    <3> HIDE DEF i
    <3>1. Len(keys'.additional) = IF need THEN Len(keys.additional) + 1 ELSE Len(keys.additional)
      BY <2>8, <2>9, <2>10
    <3>2. Len(keys'.amount) = IF req.version > 1 THEN Len(keys.amount) + 1 ELSE Len(keys.amount)
      BY <2>8, <2>9, <2>10
    <3>3. req.version > 1 <=> req.version = 2
      BY <2>10
    <3> QED BY <2>7, <2>11, <3>1, <3>2, <3>3
  <2>13. NeedsKeys' = NeedsKeys /\ NeedsKeys = need
    BY <2>0 DEF NeedsKeys, need
  <2>14. pc' = "outputs" /\ result' = result
    BY <2>5 DEF Goto
  <2> HIDE DEF i, d
  <2> QED BY <1>2, <2>0, <2>7, <2>12, <2>13, <2>14 DEF Going
<1>16. CASE FinishExtra
  <2> DEFINE cleared == remove_field_from_tx_extra(tx.extra, "additional_pub_keys")
             x == [type |-> "additional_pub_keys", keys |-> keys.additional]
             full == IF NeedsKeys THEN Append(cleared, x) ELSE cleared
  <2>1. /\ pc = "outputs" /\ Len(tx.vout) = Len(destinations)
        /\ UNCHANGED <<req, destinations, sources, additional_tx_keys, keys>>
    BY <1>16 DEF FinishExtra
  <2>2. Len(keys.additional) = Len(additional_tx_keys)
    BY <1>2, <2>1 DEF Going
  <2>3. parse_tx_extra(tx.extra)
    BY <1>2, <2>1 DEF Going
  <2>4. x \in Field /\ x.type = "additional_pub_keys"
    <3>1. keys.additional \in Seq(Point)
      BY DEF IInv, TypeOK
    <3> QED BY <3>1, FieldMade
  <2>5. parse_tx_extra(full)
    <3> HIDE DEF x
    <3> QED BY <1>3, <1>4, <2>3, <2>4, ExtraGoesOn
  <2>6. full = IF need_additional_txkeys(destinations, req.change)
               THEN add_additional_tx_pub_keys_to_extra(cleared, keys.additional) ELSE cleared
    BY DEF NeedsKeys, add_additional_tx_pub_keys_to_extra
  <2> HIDE DEF full
  <2>7. Goto("money") /\ tx' = [tx EXCEPT !.extra = sort_tx_extra(full)]
    BY <1>16, <2>2, <2>5, <2>6 DEF FinishExtra, sort_succeeds
  <2>8. tx'.vout = tx.vout
    BY <1>3, <2>7
  <2> QED BY <1>2, <1>3, <2>1, <2>7, <2>8, GoesOn DEF Goto, Going
<1>17. CASE CheckMoney
  <2>1. /\ pc = "money" /\ UNCHANGED <<req, destinations, sources, additional_tx_keys, keys, tx>>
    BY <1>17 DEF CheckMoney
  <2>2. ~(money.outs > money.ins)
    <3>1. TotalOut(req) <= TotalIn(req) /\ TotalIn(req) < Modulus
      BY <1>2 DEF WellFormed
    <3>2. TotalIn(req) \in Nat /\ TotalOut(req) \in Nat
      BY <1>3, TotalsAreNumbers
    <3>3. InWord
      BY <3>1, <3>2, ModulusAssumption DEF InWord
    <3>4. money.ins = TotalIn(req) /\ money.outs = TotalOut(req)
      BY <2>1, <3>3 DEF MoneyInv, Money
    <3> QED BY <3>1, <3>2, <3>4
  <2>3. Goto("sign")
    BY <1>17, <2>2 DEF CheckMoney
  <2> QED BY <1>2, <1>3, <2>1, <2>3, GoesOn DEF Goto, Going
<1>18. CASE SignV1
  <2>1. /\ UNCHANGED <<req, destinations, sources, additional_tx_keys, keys>> /\ tx'.vout = tx.vout
        /\ result' = "true" /\ pc' \in {"close", "done"} /\ pc = "sign"
    BY <1>3, <1>18 DEF SignV1, Return
  <2> QED BY <1>2, <2>1, GoesOn DEF Going
<1>19. CASE SignV2
  <2>1. /\ UNCHANGED <<req, destinations, sources, additional_tx_keys, keys>>
        /\ pc' \in {"close", "done"} /\ pc = "sign" /\ result = "none" /\ req.version = 2
    BY <1>3, <1>19 DEF SignV2, Return
  <2>2. Len(keys.amount) = Len(tx.vout)
    BY <1>2, <2>1 DEF Going
  <2>3. result' = "true"
    <3>1. ~AmountKeysMissing
      BY <2>2 DEF AmountKeysMissing
    <3>2. Provable(req)
      BY <1>2, <2>1 DEF WellFormed
    <3>3. ~genRctThrows
      BY <2>1, <3>1, <3>2, Unrefused
    <3> QED BY <1>19, <3>3 DEF SignV2, Return
  <2>4. NeedsKeys' = NeedsKeys
    BY <2>1 DEF NeedsKeys
  <2> QED BY <1>2, <2>1, <2>3, <2>4 DEF Going
<1>20. CASE CloseTx \/ Done \/ UNCHANGED vars
  <2>1. /\ UNCHANGED <<req, destinations, sources, additional_tx_keys, keys, tx, result>>
        /\ pc' = pc \/ (pc = "close" /\ pc' = "done")
    BY <1>20 DEF CloseTx, Done, vars
  <2>2. NeedsKeys' = NeedsKeys
    BY <2>1 DEF NeedsKeys
  <2> QED BY <1>2, <1>3, <2>1, <2>2 DEF Going
<1> QED BY <1>6, <1>7, <1>9, <1>10, <1>11, <1>12, <1>13, <1>14, <1>15, <1>16,
           <1>17, <1>18, <1>19, <1>20 DEF Next

(* A call that nothing is wrong with is answered "true": no step on the    *)
(* way refuses it, and the counts that are compared agree.                 *)
THEOREM WellFormedAlwaysSucceeds == Spec => []WellFormedSucceeds
<1> DEFINE Inv == /\ IInv /\ ExtraInv /\ ScanInv /\ MoneyInv /\ SignInv
                  /\ CountsInv /\ GoingInv
<1>1. Init => Inv
  <2>1. Init => CountsInv
    BY DEF Init, CountsInv
  <2> QED BY <2>1, InitIInv, InitExtra, InitScan, InitMoney, InitGoing, InitSign
<1>2. Inv /\ [Next]_vars => Inv'
  BY NextIInv, NextExtra, NextScan, NextMoney, NextGoing, NextSign, NextCounts
<1>3. Inv => WellFormedSucceeds
  BY DEF GoingInv, Going, ExtraInv, WellFormedSucceeds
<1> QED BY <1>1, <1>2, <1>3, PTL DEF Spec

-----------------------------------------------------------------------------
(* Payment ids: the key one is encrypted for, what encrypting makes of the *)
(* caller's id or of the dummy one, and the nonces that hold such ids.     *)
ViewKeyOf == get_destination_view_key_pub(req.destinations, req.change)
Given ==
  IF IdsIn(req.extra) = {} THEN {"null"} ELSE {g.nonce.id.plain : g \in IdsIn(req.extra)}
Sealed == [plain : Given, pads : {{generate_key_derivation(ViewKeyOf, tx_key)}}]
SealedNonces(extra) ==
  \A i \in DOMAIN OfType(extra, "nonce") :
    get_encrypted_payment_id_from_tx_extra_nonce(OfType(extra, "nonce")[i].nonce) =>
      OfType(extra, "nonce")[i].nonce.id \in Sealed

(* The id that the caller wants encrypted is in the first nonce, which is  *)
(* the one construction looks at, and is not encrypted yet.                *)
IdsInPlace ==
  \A g \in IdsIn(req.extra) : g.nonce.id.pads = {} /\ OfType(req.extra, "nonce")[1] = g

(* The ids on the way.  The caller's are encrypted, or a dummy one is made,*)
(* in the step that looks at the extra; nonces are not touched later.      *)
IdInv ==
  /\ \A i \in DOMAIN destinations : \E k \in DOMAIN req.destinations :
       destinations[i] = req.destinations[k]
  /\ \A k \in DOMAIN req.destinations : \E i \in DOMAIN destinations :
       destinations[i] = req.destinations[k]
  /\ pc \in {"open", "extra", "inputs"} => destinations = req.destinations
  /\ pc \in {"open", "extra"} => tx.extra = req.extra
  /\ (pc \in {"outputs", "money", "sign"} \/ result = "true") => RightTxPubKey
  /\ (/\ parse_tx_extra(req.extra) /\ IdsInPlace /\ ~DerivationFails(ViewKeyOf)
      /\ pc \notin {"open", "extra"} /\ result \in {"none", "true"}) => SealedNonces(tx.extra)

(* NotNoAddress: no wallet has the address that stands for none.           *)
LEMMA NotNoAddress ==
  ASSUME NEW w, NEW n
  PROVE  get_subaddress(w, n) # NoAddress
<1>1. get_subaddress(w, n).spend.base = <<"spend", w, n>>
  BY DEF get_subaddress, get_subaddress_spend_public_key
<1>2. NoAddress.spend.base = <<"null">>
  BY DEF NoAddress, null_pkey
<1>3. <<"spend", w, n>> # <<"null">>
  OBVIOUS
<1> QED BY <1>1, <1>2, <1>3

(* RecipientKnows: the recipient makes, from the key that is published,    *)
(* the derivation that the id was encrypted under.                         *)
LEMMA RecipientKnows ==
  ASSUME TypeOK, IdInv, RightTxPubKey, Named(req.destinations), ~EmptyPayments,
         NEW r \in Recipients
  PROVE  /\ ~DerivationFails(ViewKeyOf)
         /\ generate_key_derivation(txkey_pub, view_secret(r[1])) =
              generate_key_derivation(ViewKeyOf, tx_key)
<1> DEFINE dests == req.destinations
           change == req.change
           paid == PaidAddresses(dests, change)
           w == r[1]
           n == r[2]
           address == get_subaddress(w, n)
           k == view_secret(w)
<1>1. /\ r \in Wallet \X Minor
      /\ paid = {address} \/ (paid = {} /\ change = address /\ n = 0)
  BY DEF Recipients
<1>2. ASSUME NEW i \in DOMAIN dests, dests[i].addr # change PROVE dests[i].addr \in paid
  <2>1. dests[i].amount # 0
    BY <1>2 DEF EmptyPayments
  <2>2. dests[i].addr # NoAddress
    BY NotNoAddress DEF Named, Names
  <2> QED BY <1>2, <2>1, <2>2 DEF PaidAddresses
<1>3. ASSUME NEW a \in paid PROVE a # change /\ \E i \in DOMAIN dests : dests[i].addr = a
  BY DEF PaidAddresses
<1>4. ViewKeyOf = address.view
  <2>1. ViewKeyOf = IF paid = {} THEN change.view
                    ELSE IF \E a \in paid : paid = {a} THEN (CHOOSE a \in paid : TRUE).view
                    ELSE null_pkey
    BY DEF ViewKeyOf, get_destination_view_key_pub
  <2> HIDE DEF paid, address
  <2>2. CASE paid = {}
    BY <1>1, <2>1, <2>2
  <2>3. CASE paid = {address}
    <3>1. (CHOOSE a \in paid : TRUE) = address
      <4>1. (CHOOSE a \in paid : TRUE) \in paid
        BY <2>3
      <4> QED BY <2>3, <4>1
    <3> QED BY <2>1, <2>3, <3>1
  <2> QED BY <1>1, <2>2, <2>3
<1>5. ~DerivationFails(ViewKeyOf)
  BY <1>4, AddressDecodes DEF DerivationFails
<1>6. ASSUME NEW i \in DOMAIN destinations, destinations[i].addr # change
      PROVE  /\ paid = {address} /\ destinations[i].addr = address
             /\ destinations[i].is_subaddress <=> n # 0
  <2>1. PICK m \in DOMAIN dests : destinations[i] = dests[m]
    BY DEF IdInv
  <2>2. dests[m].addr \in paid
    BY <1>2, <1>6, <2>1
  <2>3. paid = {address} /\ dests[m].addr = address
    <3> HIDE DEF paid, address
    <3> QED BY <1>1, <2>2
  <2>4. PICK v \in Wallet, l \in Minor : Names(dests[m], v, l)
    BY DEF Named
  <2>5. get_subaddress(v, l) = get_subaddress(w, n)
    BY <2>3, <2>4 DEF Names
  <2>6. l = n
    BY <2>5, AddressNames
  <2> QED BY <2>1, <2>3, <2>4, <2>6 DEF Names
<1>7. destinations \in Seq(DestinationEntry)
  BY DEF TypeOK
<1> DEFINE single == SingleSubaddress(destinations, change)
<1>8. single => /\ n # 0
                /\ single_dest_subaddress(destinations, change) = address
  <2> SUFFICES ASSUME single
               PROVE  n # 0 /\ single_dest_subaddress(destinations, change) = address
    OBVIOUS
  <2>1. PICK i \in DOMAIN destinations :
          /\ FirstUses(destinations, change) = {i}
          /\ destinations[i].is_subaddress
          /\ single_dest_subaddress(destinations, change) = destinations[i].addr
    BY <1>7, SingleIsOne
  <2>2. destinations[i].addr # change
    BY <2>1 DEF FirstUses
  <2> QED BY <1>6, <2>1, <2>2
<1>9. n # 0 => single
  <2> SUFFICES ASSUME n # 0 PROVE single
    OBVIOUS
  <2>1. paid = {address}
    <3> HIDE DEF paid, address
    <3> QED BY <1>1
  <2>2. PICK m \in DOMAIN dests : dests[m].addr = address
    BY <1>3, <2>1
  <2>3. PICK i \in DOMAIN destinations : destinations[i] = dests[m]
    BY DEF IdInv
  <2>4. address # change
    BY <1>3, <2>1
  <2>5. PICK j \in FirstUses(destinations, change) : destinations[j].addr = destinations[i].addr
    <3>1. destinations[i].addr # change
      BY <2>2, <2>3, <2>4
    <3> QED BY <1>7, <3>1, FirstUseExists
  <2>6. j \in DOMAIN destinations /\ destinations[j].addr # change
    BY DEF FirstUses
  <2>7. destinations[j].is_subaddress
    BY <1>6, <2>6
  <2>8. SubaddressUses(destinations, change) # {}
    BY <2>7 DEF SubaddressUses
  <2>9. ~PaysAnother(destinations, change)
    BY <1>6 DEF PaysAnother
  <2>10. Named(destinations)
    BY DEF Named, IdInv
  <2>11. ~need_additional_txkeys(destinations, change)
    BY <1>7, <2>9, <2>10, AdditionalIff
  <2> QED BY <1>7, <2>8, <2>11, NoKeysOneSubaddress
<1> DEFINE D == get_subaddress_spend_public_key(w, n)
           base == IF n = 0 THEN G ELSE D
<1>10. address.view = scalarmultKey(base, k) /\ address.spend = D
  BY DEF get_subaddress
<1>11. txkey_pub = scalarmultKey(base, tx_key)
  <2>1. txkey_pub = IF single THEN scalarmultKey(single_dest_subaddress(destinations, change).spend, tx_key)
                    ELSE scalarmultKey(G, tx_key)
    BY DEF RightTxPubKey, scalarmultBase
  <2> HIDE DEF single, D, address
  <2> QED BY <1>8, <1>9, <1>10, <2>1
<1> HIDE DEF base, address
<1>12. generate_key_derivation(txkey_pub, k) = generate_key_derivation(ViewKeyOf, tx_key)
  BY <1>4, <1>10, <1>11, Commutes DEF generate_key_derivation
<1> QED BY <1>5, <1>12

(* InitIds: at first extra and destinations are the caller's.              *)
LEMMA InitIds == Init => IdInv
BY DEF Init, IdInv, EmptyTx

(* IdsStay: steps that keep the nonces.                                    *)
LEMMA IdsStay ==
  ASSUME IdInv, UNCHANGED <<req, destinations>>,
         OfType(tx'.extra, "nonce") = OfType(tx.extra, "nonce"),
         pc' \in {"open", "extra"} => pc \in {"open", "extra"} /\ tx'.extra = tx.extra,
         pc' = "inputs" => destinations = req.destinations,
         pc' \in {"outputs", "money", "sign"} \/ result' = "true" => RightTxPubKey',
         pc' \notin {"open", "extra"} /\ result' \in {"none", "true"} =>
           pc \notin {"open", "extra"} /\ result \in {"none", "true"}
  PROVE  IdInv'
<1>1. /\ ViewKeyOf' = ViewKeyOf /\ Sealed' = Sealed /\ IdsInPlace' = IdsInPlace
      /\ parse_tx_extra(req.extra)' = parse_tx_extra(req.extra)
  BY DEF ViewKeyOf, Sealed, Given, IdsInPlace
<1>2. SealedNonces(tx.extra) => SealedNonces(tx.extra)'
  BY <1>1 DEF SealedNonces
<1> QED BY <1>1, <1>2 DEF IdInv

(* IdsGivenUp: refused, a call promises nothing of ids.                    *)
LEMMA IdsGivenUp ==
  ASSUME IdInv, UNCHANGED <<req, destinations>>, result' \in {"false", "throw"},
         pc' \in {"close", "done"}
  PROVE  IdInv'
BY DEF IdInv

(* IdsSealed: the step that looks at the extra leaves sealed ids.          *)
LEMMA IdsSealed ==
  ASSUME IdInv, UNCHANGED <<req, destinations>>, pc = "extra", pc' = "inputs", result' = "none",
         (parse_tx_extra(req.extra) /\ IdsInPlace /\ ~DerivationFails(ViewKeyOf)) =>
           SealedNonces(tx'.extra)
  PROVE  IdInv'
<1>1. /\ ViewKeyOf' = ViewKeyOf /\ Sealed' = Sealed /\ IdsInPlace' = IdsInPlace
      /\ parse_tx_extra(req.extra)' = parse_tx_extra(req.extra)
  BY DEF ViewKeyOf, Sealed, Given, IdsInPlace
<1>2. SealedNonces(tx'.extra) => SealedNonces(tx.extra)'
  BY <1>1 DEF SealedNonces
<1> QED BY <1>1, <1>2 DEF IdInv

(* SealedId: an id given without a pad is sealed by encrypting it.         *)
LEMMA SealedId ==
  ASSUME NEW id, id.plain \in Given, id.pads = {}, ~DerivationFails(ViewKeyOf)
  PROVE  encrypt_payment_id(id, ViewKeyOf, tx_key) \in Sealed
<1> DEFINE pad == generate_key_derivation(ViewKeyOf, tx_key)
<1> HIDE DEF pad
<1>1. encrypt_payment_id(id, ViewKeyOf, tx_key) = Xor(id, pad)
  BY DEF encrypt_payment_id, pad
<1>2. Xor(id, pad) = [plain |-> id.plain, pads |-> {pad}]
  <2>1. (IF pad \in id.pads THEN id.pads \ {pad} ELSE id.pads \cup {pad}) = {pad}
    OBVIOUS
  <2> QED BY <2>1 DEF Xor
<1>3. [plain |-> id.plain, pads |-> {pad}] \in [plain : Given, pads : {{pad}}]
  OBVIOUS
<1> QED BY <1>1, <1>2, <1>3 DEF Sealed, pad

(* NonceInRequest: the nonces of the caller's extra, and the ids in them.  *)
LEMMA NonceInRequest ==
  ASSUME req.extra \in Seq(Field)
  PROVE  /\ OfType(req.extra, "nonce") \in Seq(Field)
         /\ \A i \in DOMAIN OfType(req.extra, "nonce") :
              get_encrypted_payment_id_from_tx_extra_nonce(OfType(req.extra, "nonce")[i].nonce) =>
                OfType(req.extra, "nonce")[i] \in IdsIn(req.extra)
         /\ IdsIn(req.extra) # {} => 1 <= Len(OfType(req.extra, "nonce"))
<1> DEFINE p == OfType(req.extra, "nonce")
<1>1. /\ p \in Seq(Field)
      /\ \A i \in DOMAIN p : p[i].type \in {"nonce"} /\ \E j \in DOMAIN req.extra : p[i] = req.extra[j]
  BY PickedOf DEF OfType
<1>2. ASSUME NEW j \in DOMAIN req.extra, req.extra[j].type = "nonce"
      PROVE  \E i \in DOMAIN p : p[i] = req.extra[j]
  <2>1. ASSUME NEW T, NEW k \in DOMAIN req.extra, req.extra[k].type \in T
        PROVE  \E i \in DOMAIN OfTypes(req.extra, T) : OfTypes(req.extra, T)[i] = req.extra[k]
    BY <2>1, FieldPicked
  <2> QED BY <1>2, <2>1 DEF OfType
<1> HIDE DEF p
<1>3. IdsIn(req.extra) # {} => 1 <= Len(p)
  <2>1. IdsIn(req.extra) # {} => \E i \in DOMAIN p : TRUE
    BY <1>2 DEF IdsIn
  <2> QED BY <1>1, <2>1
<1>4. \A i \in DOMAIN p : get_encrypted_payment_id_from_tx_extra_nonce(p[i].nonce) =>
                            p[i] \in IdsIn(req.extra)
  BY <1>1 DEF IdsIn, get_encrypted_payment_id_from_tx_extra_nonce
<1> QED BY <1>1, <1>3, <1>4 DEF p

(* EncryptSeals: the caller's id, found and encrypted.                     *)
LEMMA EncryptSeals ==
  ASSUME TypeOK, req.extra \in Seq(Field), tx.extra = req.extra,
         destinations = req.destinations, EncryptPaymentId, pc' = "inputs",
         IdsInPlace, ~DerivationFails(ViewKeyOf)
  PROVE  SealedNonces(tx'.extra)
<1> DEFINE s == tx.extra
           p == OfType(s, "nonce")
           id == encrypt_payment_id(Nonce.id, ViewKeyOf, tx_key)
           x == [type |-> "nonce", nonce |-> [kind |-> "encrypted", id |-> id]]
           rest == remove_field_from_tx_extra(s, "nonce")
<1>1. /\ parse_tx_extra(s) /\ HasNonce /\ get_encrypted_payment_id_from_tx_extra_nonce(Nonce)
  BY DEF EncryptPaymentId
<1>2. ViewKey = ViewKeyOf
  BY DEF ViewKey, ViewKeyOf
<1>3. tx'.extra = Append(rest, x)
  <2>1. tx' = [tx EXCEPT !.extra = Append(remove_field_from_tx_extra(@, "nonce"), x)]
    BY <1>2 DEF EncryptPaymentId, add_extra_nonce_to_tx_extra, Return,
       set_encrypted_payment_id_to_tx_extra_nonce
  <2> QED BY <2>1 DEF TypeOK
<1>4. 1 <= Len(p) /\ Nonce = p[1].nonce
  BY <1>1 DEF HasNonce, find_tx_extra_field_by_type, Nonce, tx_extra_field
<1>5. p[1] \in IdsIn(req.extra)
  <2>1. 1 \in DOMAIN p
    BY <1>4, NonceInRequest
  <2> QED BY <1>1, <1>4, <2>1, NonceInRequest
<1>6. Nonce.id.pads = {} /\ Nonce.id.plain \in Given
  BY <1>4, <1>5 DEF IdsInPlace, Given
<1>7. id \in Sealed
  BY <1>6, SealedId
<1>8. x \in Field
  <2>1. id \in PaymentId
    <3>1. Nonce.id \in PaymentId
      BY <1>1, NonceType
    <3>2. ViewKeyOf \in Point
      BY <1>2, ViewKeyType
    <3> QED BY <3>1, <3>2, EncryptedType, PointTypes DEF tx_key
  <2> HIDE DEF id
  <2> QED BY <2>1, FieldMade
<1>9. x.type = "nonce" /\ x.nonce.id = id
  OBVIOUS
<1>10. rest \in Seq(Field) /\ OfType(rest, "nonce") = << >>
  <2>1. rest \in Seq(Field)
    BY PickedOf DEF remove_field_from_tx_extra
  <2> QED BY <1>1, <2>1, RemoveDrops
<1> HIDE DEF x, rest, id
<1>11. OfType(Append(rest, x), "nonce") = Append(<< >>, x)
  <2>1. OfType(Append(rest, x), "nonce") =
          IF x.type = "nonce" THEN Append(OfType(rest, "nonce"), x) ELSE OfType(rest, "nonce")
    BY <1>8, <1>10, AppendKeeps
  <2> QED BY <1>9, <1>10, <2>1
<1>12. ASSUME NEW i \in DOMAIN Append(<< >>, x) PROVE Append(<< >>, x)[i] = x
  OBVIOUS
<1> QED BY <1>3, <1>7, <1>9, <1>11, <1>12 DEF SealedNonces

(* DummySeals: a dummy id, made where there is none to encrypt.            *)
LEMMA DummySeals ==
  ASSUME TypeOK, req.extra \in Seq(Field), tx.extra = req.extra,
         destinations = req.destinations, DummyPaymentId,
         IdsInPlace, ~DerivationFails(ViewKeyOf)
  PROVE  SealedNonces(tx'.extra)
<1> DEFINE s == tx.extra
           p == OfType(s, "nonce")
           id == encrypt_payment_id(NullPaymentId, ViewKeyOf, tx_key)
           x == [type |-> "nonce", nonce |-> [kind |-> "encrypted", id |-> id]]
<1>1. ViewKey = ViewKeyOf
  BY DEF ViewKey, ViewKeyOf
<1>2. IdsIn(req.extra) = {}
  <2> SUFFICES ASSUME NEW g \in IdsIn(req.extra) PROVE FALSE
    OBVIOUS
  <2>1. p[1] = g /\ 1 <= Len(p)
    BY NonceInRequest DEF IdsInPlace
  <2>2. g.nonce.kind = "encrypted"
    BY DEF IdsIn
  <2> QED BY <2>1, <2>2 DEF DummyPaymentId, HasNonce, find_tx_extra_field_by_type, Nonce,
          tx_extra_field, get_encrypted_payment_id_from_tx_extra_nonce
<1>3. p \in Seq(Field) /\ \A i \in DOMAIN p : ~get_encrypted_payment_id_from_tx_extra_nonce(p[i].nonce)
  BY <1>2, NonceInRequest
<1>4. tx' = tx \/ tx' = [tx EXCEPT !.extra = Append(@, x)]
  BY <1>1 DEF DummyPaymentId, add_extra_nonce_to_tx_extra, set_encrypted_payment_id_to_tx_extra_nonce
<1>5. CASE tx' = tx
  BY <1>3, <1>5 DEF SealedNonces
<1>6. CASE tx' = [tx EXCEPT !.extra = Append(@, x)]
  <2>1. tx'.extra = Append(s, x)
    BY <1>6 DEF TypeOK
  <2>2. id \in Sealed
    <3>1. NullPaymentId.plain \in Given /\ NullPaymentId.pads = {}
      BY <1>2 DEF NullPaymentId, Given
    <3> QED BY <3>1, SealedId
  <2>3. x \in Field
    <3>1. NullPaymentId \in PaymentId
      <4>1. "null" \in {"null"} \cup STRING /\ {} \in SUBSET Point
        OBVIOUS
      <4> QED BY <4>1 DEF NullPaymentId, PaymentId
    <3>2. ViewKeyOf \in Point
      BY <1>1, ViewKeyType
    <3>3. id \in PaymentId
      BY <3>1, <3>2, EncryptedType, PointTypes DEF tx_key
    <3> HIDE DEF id
    <3> QED BY <3>3, FieldMade
  <2>4. x.type = "nonce" /\ x.nonce.id = id
    OBVIOUS
  <2> HIDE DEF x, id
  <2>5. OfType(Append(s, x), "nonce") = Append(p, x)
    BY <2>3, <2>4, AppendKeeps
  <2> HIDE DEF p
  <2>6. ASSUME NEW i \in DOMAIN Append(p, x)
        PROVE  (i \in DOMAIN p /\ Append(p, x)[i] = p[i]) \/ Append(p, x)[i] = x
    BY <1>3
  <2>7. ASSUME NEW i \in DOMAIN Append(p, x),
               get_encrypted_payment_id_from_tx_extra_nonce(Append(p, x)[i].nonce)
        PROVE  Append(p, x)[i].nonce.id \in Sealed
    BY <1>3, <2>2, <2>4, <2>6, <2>7
  <2> QED BY <2>1, <2>5, <2>7 DEF SealedNonces
<1> QED BY <1>4, <1>5, <1>6

(* NextIds: every step keeps what it found of ids and destinations.        *)
LEMMA NextIds == IInv /\ ExtraInv /\ IdInv /\ [Next]_vars => IdInv'
<1> SUFFICES ASSUME IInv, ExtraInv, IdInv, [Next]_vars PROVE IdInv'
  OBVIOUS
<1>1. /\ TypeOK /\ DOMAIN tx = {"extra", "vin", "vout", "signatures", "rct"}
      /\ destinations \in Seq(DestinationEntry) /\ tx.extra \in Seq(Field)
      /\ req.extra \in Seq(Field)
      /\ result = "none" <=> pc \notin {"close", "done"}
  BY RequestTypes DEF IInv, TypeOK, ExtraInv, Request
<1>2. ASSUME UNCHANGED <<req, destinations, txkey_pub>> PROVE RightTxPubKey' <=> RightTxPubKey
  BY <1>2 DEF RightTxPubKey
<1>3. CASE OpenTx
  BY <1>1, <1>3, IdsStay DEF OpenTx, Goto
<1>4. CASE EmptySources
  BY <1>4, IdsGivenUp DEF EmptySources, Return, ExtraUnchanged
<1>5. CASE UnparsableExtra
  <2>1. ~parse_tx_extra(req.extra)
    BY <1>5 DEF UnparsableExtra, IdInv
  <2> QED BY <1>1, <1>5, <2>1, IdsSealed DEF UnparsableExtra, Goto, ExtraUnchanged
<1>6. CASE EncryptPaymentId
  <2>1. pc = "extra" /\ UNCHANGED <<req, destinations>>
    BY <1>6 DEF EncryptPaymentId, ExtraUnchanged
  <2>2. CASE Return("false")
    BY <2>1, <2>2, IdsGivenUp DEF Return
  <2>3. CASE Goto("inputs")
    <3>1. pc' = "inputs" /\ result' = "none"
      BY <1>1, <2>1, <2>3 DEF Goto
    <3>2. tx.extra = req.extra /\ destinations = req.destinations
      BY <2>1 DEF IdInv
    <3>3. ASSUME IdsInPlace, ~DerivationFails(ViewKeyOf) PROVE SealedNonces(tx'.extra)
      BY <1>1, <1>6, <3>1, <3>2, <3>3, EncryptSeals
    <3> QED BY <2>1, <3>1, <3>3, IdsSealed
  <2> QED BY <1>6, <2>2, <2>3 DEF EncryptPaymentId
<1>7. CASE DummyPaymentId
  <2>1. pc = "extra" /\ UNCHANGED <<req, destinations>> /\ pc' = "inputs" /\ result' = "none"
    BY <1>1, <1>7 DEF DummyPaymentId, ExtraUnchanged, Goto
  <2>2. tx.extra = req.extra /\ destinations = req.destinations
    BY <2>1 DEF IdInv
  <2>3. ASSUME IdsInPlace, ~DerivationFails(ViewKeyOf) PROVE SealedNonces(tx'.extra)
    BY <1>1, <1>7, <2>2, <2>3, DummySeals
  <2> QED BY <2>1, <2>3, IdsSealed
<1>8. CASE AddInput
  <2>1. UNCHANGED <<req, destinations>> /\ pc = "inputs"
    BY <1>8 DEF AddInput
  <2>2. CASE Return("false")
    BY <2>1, <2>2, IdsGivenUp DEF Return
  <2>3. CASE Goto("inputs")
    <3>1. tx'.extra = tx.extra
      <4>1. tx' = tx \/ \E vin : tx' = [tx EXCEPT !.vin = vin]
        BY <1>8 DEF AddInput
      <4> QED BY <1>1, <4>1
    <3>2. destinations = req.destinations /\ result' = "none" /\ result = "none"
      BY <1>1, <2>1, <2>3 DEF IdInv, Goto
    <3> QED BY <2>1, <2>3, <3>1, <3>2, IdsStay DEF Goto
  <2> QED BY <1>8, <2>2, <2>3 DEF AddInput
<1>9. CASE ShuffleDestinations
  <2>1. UNCHANGED <<req, tx>> /\ pc = "inputs" /\ pc' = "sort" /\ result' = "none" /\ result = "none"
    BY <1>1, <1>9 DEF ShuffleDestinations, Goto
  <2>2. destinations = req.destinations
    BY <2>1 DEF IdInv
  <2>3. /\ \A i \in DOMAIN destinations' : \E k \in DOMAIN destinations : destinations'[i] = destinations[k]
        /\ \A k \in DOMAIN destinations : \E i \in DOMAIN destinations' : destinations'[i] = destinations[k]
    <3>1. CASE destinations' = destinations
      BY <3>1
    <3>2. ASSUME NEW p \in Permutation(Len(destinations)), destinations' = Permuted(destinations, p)
          PROVE  /\ \A i \in DOMAIN destinations' : \E k \in DOMAIN destinations : destinations'[i] = destinations[k]
                 /\ \A k \in DOMAIN destinations : \E i \in DOMAIN destinations' : destinations'[i] = destinations[k]
      <4> DEFINE n == Len(destinations)
      <4>1. n \in Nat /\ DOMAIN destinations = 1 .. n
        BY <1>1
      <4>2. DOMAIN destinations' = 1 .. n /\ \A i \in 1 .. n : destinations'[i] = destinations[p[i]]
        BY <3>2, <4>1 DEF Permuted
      <4> HIDE DEF n
      <4>3. \A i \in 1 .. n : p[i] \in 1 .. n
        BY <3>2 DEF Permutation, n
      <4>4. \A k \in 1 .. n : \E i \in 1 .. n : p[i] = k
        BY <3>2, <4>1, PermutationIsOnto DEF n
      <4>5. ASSUME NEW i \in 1 .. n PROVE \E k \in 1 .. n : destinations'[i] = destinations[k]
        BY <4>2, <4>3
      <4>6. ASSUME NEW k \in 1 .. n PROVE \E i \in 1 .. n : destinations'[i] = destinations[k]
        <5>1. PICK i \in 1 .. n : p[i] = k
          BY <4>4
        <5>2. destinations'[i] = destinations[k]
          BY <4>2, <5>1
        <5> QED BY <5>2
      <4> QED BY <4>1, <4>2, <4>5, <4>6, Zenon
    <3> QED BY <1>9, <3>1, <3>2 DEF ShuffleDestinations
  <2>4. /\ ViewKeyOf' = ViewKeyOf /\ Sealed' = Sealed /\ IdsInPlace' = IdsInPlace
        /\ parse_tx_extra(req.extra)' = parse_tx_extra(req.extra)
    BY <2>1 DEF ViewKeyOf, Sealed, Given, IdsInPlace
  <2>5. SealedNonces(tx.extra) => SealedNonces(tx.extra)'
    BY <2>1, <2>4 DEF SealedNonces
  <2> QED BY <2>1, <2>2, <2>3, <2>4, <2>5 DEF IdInv
<1>10. CASE SortInputs
  <2>1. tx'.extra = tx.extra
    BY <1>1, <1>10 DEF SortInputs
  <2> QED BY <1>1, <1>10, <2>1, IdsStay DEF SortInputs, Goto
<1>11. CASE SetTxPubKey
  <2>1. UNCHANGED <<req, destinations>> /\ pc = "pubkey"
    BY <1>11 DEF SetTxPubKey
  <2>2. CASE Return("throw") \/ Return("false")
    BY <2>1, <2>2, IdsGivenUp DEF Return
  <2>3. CASE Goto("outputs")
    <3>1. RightTxPubKey'
      BY <1>11, <2>3 DEF SetTxPubKey, Return, Goto, RightTxPubKey
    <3>2. PICK R : tx' = [tx EXCEPT !.extra = add_tx_pub_key_to_extra(
                                   remove_field_from_tx_extra(@, "pub_key"), R)]
                   /\ txkey_pub' = R
      BY <1>11, <2>3 DEF SetTxPubKey, Return, Goto
    <3>3. R \in Point
      <4>1. txkey_pub' \in Point
        BY <1>1, NextIInv DEF IInv, TypeOK
      <4> QED BY <3>2, <4>1
    <3> DEFINE x == [type |-> "pub_key", key |-> R]
    <3>4. x \in Field /\ x.type = "pub_key"
      BY <3>3, FieldMade
    <3>5. tx'.extra = Append(remove_field_from_tx_extra(tx.extra, "pub_key"), x)
      BY <1>1, <3>2 DEF add_tx_pub_key_to_extra
    <3> HIDE DEF x
    <3>6. OfType(tx'.extra, "nonce") = OfType(tx.extra, "nonce")
      BY <1>1, <3>4, <3>5, ExtraReplaced, Known
    <3> QED BY <1>1, <2>1, <2>3, <3>1, <3>6, IdsStay DEF Goto
  <2> QED BY <1>11, <2>2, <2>3 DEF SetTxPubKey
<1>12. CASE AddOutput
  <2>1. UNCHANGED <<req, destinations, txkey_pub>> /\ pc = "outputs"
    BY <1>12 DEF AddOutput
  <2>2. CASE Return("throw") \/ Return("false")
    BY <2>1, <2>2, IdsGivenUp DEF Return
  <2>3. CASE Goto("outputs")
    <3>1. tx'.extra = tx.extra
      <4>1. tx' = tx \/ \E vout : tx' = [tx EXCEPT !.vout = vout]
        BY <1>12 DEF AddOutput
      <4> QED BY <1>1, <4>1
    <3>2. RightTxPubKey'
      BY <1>2, <2>1 DEF IdInv
    <3> QED BY <1>1, <2>1, <2>3, <3>1, <3>2, IdsStay DEF Goto
  <2> QED BY <1>12, <2>2, <2>3 DEF AddOutput
<1>13. CASE FinishExtra
  <2> DEFINE s == tx.extra
             cleared == remove_field_from_tx_extra(s, "additional_pub_keys")
             x == [type |-> "additional_pub_keys", keys |-> keys.additional]
             full == IF NeedsKeys THEN Append(cleared, x) ELSE cleared
  <2>1. UNCHANGED <<req, destinations, txkey_pub>> /\ pc = "outputs"
    BY <1>13 DEF FinishExtra
  <2>2. CASE Return("false")
    BY <2>1, <2>2, IdsGivenUp DEF Return
  <2>3. CASE Goto("money")
    <3>1. x \in Field /\ x.type = "additional_pub_keys"
      <4>1. keys.additional \in Seq(Point)
        BY <1>1 DEF TypeOK
      <4> QED BY <4>1, FieldMade
    <3>2. parse_tx_extra(full) /\ tx' = [tx EXCEPT !.extra = sort_tx_extra(full)]
      BY <1>1, <1>13, <2>3 DEF FinishExtra, Return, Goto, add_additional_tx_pub_keys_to_extra,
         sort_succeeds, NeedsKeys
    <3>3. full \in Seq(Field) /\ OfType(full, "nonce") = OfType(s, "nonce")
      <4>1. "nonce" \in FieldTypes \ {"additional_pub_keys"}
        BY Known
      <4>2. cleared \in Seq(Field) /\ OfType(cleared, "nonce") = OfType(s, "nonce")
        BY <1>1, <4>1, RemoveKeeps
      <4>3. Append(cleared, x) \in Seq(Field) /\ OfType(Append(cleared, x), "nonce") = OfType(s, "nonce")
        <5> HIDE DEF x, s
        <5> QED BY <1>1, <3>1, <4>1, ExtraReplaced DEF s
      <4> HIDE DEF x, s, cleared
      <4> QED BY <4>2, <4>3
    <3> HIDE DEF full
    <3>4. OfType(sort_tx_extra(full), "nonce") = OfType(full, "nonce")
      BY <3>2, <3>3, Known, SortKeeps
    <3>5. tx'.extra = sort_tx_extra(full)
      BY <1>1, <3>2
    <3>6. RightTxPubKey'
      BY <1>2, <2>1 DEF IdInv
    <3> QED BY <1>1, <2>1, <2>3, <3>3, <3>4, <3>5, <3>6, IdsStay DEF Goto
  <2> QED BY <1>13, <2>2, <2>3 DEF FinishExtra
<1>14. CASE CheckMoney
  <2>1. UNCHANGED <<req, destinations, tx, txkey_pub>> /\ pc = "money"
    BY <1>14 DEF CheckMoney
  <2>2. CASE Return("false")
    BY <2>1, <2>2, IdsGivenUp DEF Return
  <2>3. CASE Goto("sign")
    <3>1. RightTxPubKey'
      BY <1>2, <2>1 DEF IdInv
    <3> QED BY <1>1, <2>1, <2>3, <3>1, IdsStay DEF Goto
  <2> QED BY <1>14, <2>2, <2>3 DEF CheckMoney
<1>15. CASE SignV1 \/ SignV2
  <2>1. UNCHANGED <<req, destinations, txkey_pub>> /\ pc = "sign"
        /\ pc' \in {"close", "done"} /\ result = "none"
    BY <1>1, <1>15 DEF SignV1, SignV2, Return
  <2>2. tx'.extra = tx.extra
    <3>1. CASE SignV1
      BY <1>1, <3>1 DEF SignV1
    <3>2. CASE SignV2
      <4> DEFINE t == Masked(tx)
      <4>1. t.extra = tx.extra /\ DOMAIN t = {"extra", "vin", "vout", "signatures", "rct"}
        BY <1>1 DEF Masked
      <4>2. tx' = t \/ \E signatures, rct : tx' = [t EXCEPT !.signatures = signatures, !.rct = rct]
        BY <3>2 DEF SignV2
      <4> HIDE DEF t
      <4> QED BY <4>1, <4>2
    <3> QED BY <1>15, <3>1, <3>2
  <2>3. RightTxPubKey'
    BY <1>2, <2>1 DEF IdInv
  <2> QED BY <2>1, <2>2, <2>3, IdsStay
<1>16. CASE CloseTx \/ Done \/ UNCHANGED vars
  <2>1. UNCHANGED <<req, destinations, tx, txkey_pub, result>>
        /\ (pc' = pc \/ (pc = "close" /\ pc' = "done"))
    BY <1>16 DEF CloseTx, Done, vars
  <2>2. RightTxPubKey' <=> RightTxPubKey
    BY <1>2, <2>1
  <2> QED BY <2>1, <2>2, IdsStay DEF IdInv
<1> QED BY <1>3, <1>4, <1>5, <1>6, <1>7, <1>8, <1>9, <1>10, <1>11, <1>12, <1>13, <1>14,
           <1>15, <1>16 DEF Next

(* The payment id of a finished transaction can be read by the one who is  *)
(* paid, whichever of the key schemes was used: the key that is published  *)
(* takes off the pad that went on, and what is left is the caller's id, or *)
(* the null id where there was none.  For destinations that are addresses, *)
(* flagged as they were parsed, and an id that is where construction looks *)
(* for it and not encrypted yet.                                           *)
THEOREM PaymentIdAlwaysReadable ==
  Spec /\ Named(req.destinations) /\ IdsInPlace => []PaymentIdReadable
<1> DEFINE Inv == /\ IInv /\ ExtraInv /\ ScanInv /\ IdInv
                  /\ Named(req.destinations) /\ IdsInPlace
<1>1. ASSUME Inv PROVE PaymentIdReadable
  <2> SUFFICES ASSUME result = "true", parse_tx_extra(req.extra), ~EmptyPayments,
                      NEW f \in IdsIn(tx.extra), NEW r \in Recipients
               PROVE  encrypt_payment_id(f.nonce.id, ReadPubKey, view_secret(r[1])) \in
                        [plain : Given, pads : {{}}]
    BY DEF PaymentIdReadable, Given
  <2>1. /\ TypeOK /\ tx.extra \in Seq(Field) /\ Canonical /\ pc \in {"close", "done"}
        /\ RightTxPubKey /\ check_key(txkey_pub)
    BY <1>1 DEF IInv, TypeOK, ExtraInv, IdInv, ScanInv
  <2>2. ReadPubKey = txkey_pub
    BY <2>1, ReadBack
  <2> DEFINE pad == generate_key_derivation(ViewKeyOf, tx_key)
  <2>3. ~DerivationFails(ViewKeyOf)
        /\ generate_key_derivation(txkey_pub, view_secret(r[1])) = pad
    BY <1>1, <2>1, RecipientKnows
  <2>4. SealedNonces(tx.extra)
    BY <1>1, <2>1, <2>3 DEF IdInv
  <2>5. f.nonce.id \in Sealed
    <3>1. ASSUME NEW T, NEW k \in DOMAIN tx.extra, tx.extra[k].type \in T
          PROVE  \E i \in DOMAIN OfTypes(tx.extra, T) : OfTypes(tx.extra, T)[i] = tx.extra[k]
      BY <2>1, <3>1, FieldPicked
    <3>2. PICK k \in DOMAIN tx.extra : f = tx.extra[k] /\ f.type = "nonce" /\ f.nonce.kind = "encrypted"
      BY DEF IdsIn
    <3>3. PICK i \in DOMAIN OfType(tx.extra, "nonce") : OfType(tx.extra, "nonce")[i] = f
      BY <3>1, <3>2 DEF OfType
    <3> QED BY <2>4, <3>2, <3>3 DEF SealedNonces, get_encrypted_payment_id_from_tx_extra_nonce
  <2> DEFINE id == f.nonce.id
  <2> HIDE DEF pad, id
  <2>6. id.plain \in Given /\ id.pads = {pad}
    BY <2>5 DEF Sealed, pad, id
  <2>7. encrypt_payment_id(id, ReadPubKey, view_secret(r[1])) = Xor(id, pad)
    BY <2>1, <2>2, <2>3 DEF encrypt_payment_id, DerivationFails
  <2>8. Xor(id, pad) = [plain |-> id.plain, pads |-> {}]
    <3>1. (IF pad \in id.pads THEN id.pads \ {pad} ELSE id.pads \cup {pad}) = {}
      BY <2>6
    <3> QED BY <3>1 DEF Xor
  <2>9. Xor(id, pad) \in [plain : Given, pads : {{}}]
    BY <2>6, <2>8
  <2> QED BY <2>7, <2>9 DEF id
<1>2. Init /\ Named(req.destinations) /\ IdsInPlace => Inv
  BY InitIInv, InitExtra, InitScan, InitIds
<1>3. Inv /\ [Next]_vars => Inv'
  <2> SUFFICES ASSUME Inv, [Next]_vars PROVE Inv'
    OBVIOUS
  <2>1. IInv' /\ ExtraInv' /\ ScanInv' /\ IdInv'
    BY NextIInv, NextExtra, NextScan, NextIds
  <2>2. req' = req
    BY DEF Next, OpenTx, EmptySources, UnparsableExtra, EncryptPaymentId, DummyPaymentId,
           ExtraUnchanged, AddInput, ShuffleDestinations, SortInputs, SetTxPubKey, AddOutput,
           FinishExtra, CheckMoney, SignV1, SignV2, CloseTx, Done, vars
  <2>3. Named(req.destinations)' /\ IdsInPlace'
    BY <2>2 DEF Named, Names, IdsInPlace
  <2> QED BY <2>1, <2>3
<1>4. Inv => PaymentIdReadable
  BY <1>1
<1> HIDE DEF Inv
<1> QED BY <1>2, <1>3, <1>4, PTL DEF Spec
=============================================================================
