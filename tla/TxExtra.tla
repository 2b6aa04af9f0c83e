------------------------------ MODULE TxExtra ------------------------------
(***************************************************************************)
(* The extra field of a transaction, as the sequence of fields its bytes   *)
(* decode to.                                                              *)
(*                                                                         *)
(* Bytes that do not decode are one field of type "junk".  A padding field *)
(* reads zero bytes up to the end of the buffer, so it decodes only where  *)
(* it is last: every tag that could follow it is not zero.                 *)
(***************************************************************************)
EXTENDS Naturals, Sequences

(* The order of the picks in sort_tx_extra. *)
FieldOrder == <<"pub_key", "additional_pub_keys", "nonce",
                "merge_mining_tag", "minergate", "padding">>
FieldTypes == {FieldOrder[k] : k \in DOMAIN FieldOrder}

Deserialises(extra, i) ==
  /\ extra[i].type # "junk"
  /\ extra[i].type = "padding" => i = Len(extra)

(* The number of leading fields that decode. *)
Processed(extra) ==
  CHOOSE n \in 0 .. Len(extra) :
    /\ \A i \in 1 .. n : Deserialises(extra, i)
    /\ n < Len(extra) => ~Deserialises(extra, n + 1)

(* parse_tx_extra answers false on the first field that does not decode,   *)
(* and leaves the fields before it in its result all the same.             *)
parse_tx_extra(extra)  == Processed(extra) = Len(extra)
tx_extra_fields(extra) == SubSeq(extra, 1, Processed(extra))

(* The fields of the given types, in the order they have. *)
OfTypes(fields, types) ==
  LET picked[n \in 0 .. Len(fields)] ==
        IF n = 0 THEN << >>
        ELSE IF fields[n].type \in types
             THEN Append(picked[n - 1], fields[n]) ELSE picked[n - 1]
  IN  picked[Len(fields)]
OfType(fields, type) == OfTypes(fields, {type})

(* Whether a field of the type exists at the index (counted from 1), and   *)
(* which one it is.                                                        *)
find_tx_extra_field_by_type(fields, type, index) ==
  index <= Len(OfType(fields, type))
tx_extra_field(fields, type, index) == OfType(fields, type)[index]

(* sort_tx_extra: the fields by type in the order of the picks, each type  *)
(* in the order it had.  With allow_partial the bytes that did not decode  *)
(* follow unchanged; without it the call fails.                            *)
sort_succeeds(extra, allow_partial) == parse_tx_extra(extra) \/ allow_partial

sort_tx_extra(extra) ==
  LET Pick(k) == OfType(tx_extra_fields(extra), FieldOrder[k])
  IN  Pick(1) \o Pick(2) \o Pick(3) \o Pick(4) \o Pick(5) \o Pick(6)
        \o SubSeq(extra, Processed(extra) + 1, Len(extra))

(* remove_field_from_tx_extra changes nothing if a field does not decode.  *)
remove_field_from_tx_extra_FirstOnly(extra, type) ==
  LET First(i) == /\ extra[i].type = type
                  /\ \A j \in 1 .. i - 1 : extra[j].type # type
  IN  IF parse_tx_extra(extra) /\ \E i \in DOMAIN extra : First(i)
      THEN LET i == CHOOSE i \in DOMAIN extra : First(i)
           IN  SubSeq(extra, 1, i - 1) \o SubSeq(extra, i + 1, Len(extra))
      ELSE extra
remove_field_from_tx_extra(extra, type) ==
  IF parse_tx_extra(extra) THEN OfTypes(extra, FieldTypes \ {type}) ELSE extra

(* The three functions that append a field append its bytes, whatever      *)
(* stands before them.                                                     *)
add_tx_pub_key_to_extra(extra, key) ==
  Append(extra, [type |-> "pub_key", key |-> key])
add_additional_tx_pub_keys_to_extra(extra, keys) ==
  Append(extra, [type |-> "additional_pub_keys", keys |-> keys])
add_extra_nonce_to_tx_extra(extra, nonce) ==
  Append(extra, [type |-> "nonce", nonce |-> nonce])

(* The nonce field holds one payment id, or bytes of some other use.  An   *)
(* id is told from the rest by the length of the nonce and its first byte, *)
(* which is the "kind" here.                                               *)
set_payment_id_to_tx_extra_nonce(id) == [kind |-> "plain", id |-> id]
set_encrypted_payment_id_to_tx_extra_nonce(id) == [kind |-> "encrypted", id |-> id]
get_payment_id_from_tx_extra_nonce(nonce) == nonce.kind = "plain"
get_encrypted_payment_id_from_tx_extra_nonce(nonce) == nonce.kind = "encrypted"

(* get_tx_pub_key_from_extra ignores whether the parse succeeded: the keys *)
(* before the first bad field are found.                                   *)
get_tx_pub_key_from_extra(extra, index, null) ==
  LET fields == tx_extra_fields(extra)
  IN  IF find_tx_extra_field_by_type(fields, "pub_key", index)
      THEN tx_extra_field(fields, "pub_key", index).key
      ELSE null

get_additional_tx_pub_keys_from_extra(extra) ==
  LET fields == tx_extra_fields(extra)
  IN  IF find_tx_extra_field_by_type(fields, "additional_pub_keys", 1)
      THEN tx_extra_field(fields, "additional_pub_keys", 1).keys
      ELSE << >>

=============================================================================
