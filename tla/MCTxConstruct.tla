--------------------------- MODULE MCTxConstruct ---------------------------
(* Small sets of calls for TLC.  Each set varies one part of the request   *)
(* and keeps the others fixed, so that a run asks one question.            *)
EXTENDS TxConstructProps

CONSTANTS alice, bob, carol

OldSecrets == {<<"old", k>> : k \in 1 .. 99}

Full  == [wallet |-> alice, kind |-> "full", subaddresses |-> Minor]
Watch == [Full EXCEPT !.kind = "watch"]

-----------------------------------------------------------------------------
(* Outputs alice received earlier, one for each way an output can be keyed.*)
old(k) == <<"old", k>>
a == view_secret(alice)
Key(R, i, n) ==
  derive_public_key(generate_key_derivation(R, a), i,
                    get_subaddress_spend_public_key(alice, n))
Decoy(k) == derive_public_key(generate_key_derivation(scalarmultBase(old(k)),
                                                      view_secret(carol)),
                              1, get_subaddress_spend_public_key(carol, 0))

Source(R, additional, key, i, real, outputs, amount) ==
  [outputs |-> outputs, real_output |-> real, real_out_tx_key |-> R,
   real_out_additional_tx_keys |-> additional, real_output_in_tx_index |-> i,
   amount |-> amount, rct |-> TRUE]

(* A ring of two around the real key: the real output first or second. *)
Ring(at, key, real) ==
  [n \in 1 .. 2 |->
     [index |-> at + n, dest |-> IF n = real THEN key ELSE Decoy(at + n)]]

ToMain(at, real, amount) ==
  LET R == scalarmultBase(old(at))
  IN  Source(R, << >>, Key(R, 1, 0), 1, real, Ring(at, Key(R, 1, 0), real), amount)
ToSingleSubaddress(at, real, amount) ==
  LET R == scalarmultKey(get_subaddress_spend_public_key(alice, 1), old(at))
  IN  Source(R, << >>, Key(R, 1, 1), 1, real, Ring(at, Key(R, 1, 1), real), amount)
(* Output 2 of a transaction with additional keys; "first" is the key of   *)
(* its output 1, which is somebody else's.                                 *)
ToOneOfMany(at, real, amount, first) ==
  LET R == scalarmultKey(get_subaddress_spend_public_key(alice, 1), old(at))
  IN  Source(scalarmultBase(old(at + 2)), <<first, R>>, Key(R, 2, 1), 2, real,
             Ring(at, Key(R, 2, 1), real), amount)
GoodKey == scalarmultBase(old(99))

(* Sources that construction refuses: another wallet's output, and an      *)
(* index past the ring.                                                    *)
Foreign == [ToMain(10, 1, 3) EXCEPT !.outputs[1].dest = Decoy(10)]
PastEnd == [ToMain(10, 1, 3) EXCEPT !.real_output = 3]
Descending == [ToMain(20, 2, 3) EXCEPT
                 !.outputs = <<@[2], @[1]>>, !.real_output = 1]

-----------------------------------------------------------------------------
Pays(w, n, amount) ==
  [addr |-> get_subaddress(w, n), amount |-> amount, is_subaddress |-> n # 0]
Main(w, amount) == Pays(w, 0, amount)
Sub(w, amount)  == Pays(w, 1, amount)

Plain == << >>
Nonce1(kind) ==
  <<[type |-> "nonce",
     nonce |-> [kind |-> kind, id |-> [plain |-> "id", pads |-> {}]]]>>
Other(type) == <<[type |-> type]>>
StaleKey == <<[type |-> "pub_key", key |-> GoodKey]>>
StaleAdditional == <<[type |-> "additional_pub_keys", keys |-> <<GoodKey>>]>>

Base0 ==
  [direct |-> FALSE, sender |-> Full, sources |-> <<ToMain(10, 1, 6)>>,
   destinations |-> <<Main(bob, 2), Main(alice, 1)>>,
   change |-> get_subaddress(alice, 0), extra |-> Plain,
   additional_tx_keys |-> << >>, version |-> 2,
   rct_config |-> [range_proof_type |-> "PaddedBulletproof", bp_version |-> 4],
   use_view_tags |-> TRUE,
   shuffle_outs |-> TRUE]

(* Who is paid: up to three destinations at standard addresses and         *)
(* subaddresses of three wallets, with the change to the main address, to  *)
(* a subaddress, or to none.                                               *)
Payees == <<Main(bob, 1), Sub(bob, 1), Sub(bob, 2), Main(carol, 1),
            Sub(carol, 1), Main(alice, 1), Sub(alice, 2)>>
(* The call shuffles its destinations: their order in the request is the   *)
(* order of Payees.                                                        *)
PayeeLists ==
  UNION {{[i \in 1 .. n |-> Payees[f[i]]] :
            f \in {g \in [1 .. n -> DOMAIN Payees] :
                     \A i \in 1 .. n - 1 : g[i] <= g[i + 1]}} : n \in 1 .. 3}
PayeeRequests ==
  {[Base0 EXCEPT !.destinations = d, !.change = c, !.version = v] :
     d \in PayeeLists,
     c \in {get_subaddress(alice, 0), get_subaddress(alice, 1), NoAddress},
     v \in {1, 2}}

(* What is in the extra, and who its payment id is for. *)
Extras ==
  {e1 \o e2 \o e3 :
     e1 \in {Plain, StaleKey \o StaleKey, Other("junk")},
     e2 \in {Plain, Nonce1("encrypted"), Nonce1("plain"), Nonce1("other")},
     e3 \in {Plain, StaleAdditional, Other("merge_mining_tag"),
             Other("minergate"), Other("padding")}}
ExtraRequests ==
  {[Base0 EXCEPT !.extra = e, !.destinations = d, !.change = c,
                !.shuffle_outs = FALSE] :
     e \in Extras,
     d \in {<<Main(bob, 2), Main(alice, 1)>>, <<Sub(alice, 1), Sub(bob, 2)>>,
            <<Sub(bob, 2), Sub(bob, 1)>>, <<Main(alice, 3)>>, <<Sub(alice, 3)>>,
            <<Main(bob, 2), Sub(carol, 1)>>,
            <<Sub(bob, 2), Main(carol, 1), Main(alice, 1)>>,
            <<Main(bob, 1), Main(bob, 2), Main(alice, 1)>>},
     c \in {get_subaddress(alice, 0), get_subaddress(alice, 1), NoAddress}}

(* What is spent: up to three sources of every kind, real output first or  *)
(* second in the ring, by a full and by a watch-only account.              *)
SourceKinds(at) ==
  UNION {{ToMain(at, r, 3), ToSingleSubaddress(at, r, 3),
          ToOneOfMany(at, r, 3, GoodKey)} : r \in 1 .. 2}
SourceLists ==
  {<< >>} \cup {<<s1>> : s1 \in SourceKinds(10)}
          \cup {<<s1, s2>> : s1 \in SourceKinds(10), s2 \in SourceKinds(20)}
          \cup {<<s1, Descending, s3>> : s1 \in SourceKinds(10), s3 \in SourceKinds(30)}
          \cup {<<ToMain(10, 1, 6), ToMain(20, 1, 6)>>}
          \cup {<<ToMain(20, 1, 3), s2>> : s2 \in {Foreign, PastEnd}}
SourceRequests ==
  {[Base0 EXCEPT !.sources = s, !.sender.kind = k, !.version = v] :
     s \in SourceLists, k \in {"full", "watch"}, v \in {1, 2}}

(* How the call is made: which entry point, with which keys, how much. With*)
(* Modulus 32 the destinations of 2 and 31 add up past a word.             *)
EntryRequests ==
  {[Base0 EXCEPT !.direct = e, !.additional_tx_keys = ks, !.destinations = d,
                !.version = v, !.use_view_tags = t] :
     e \in BOOLEAN, t \in BOOLEAN, v \in {1, 2},
     ks \in {<< >>, <<old(7), old(8)>>, <<old(7), old(8), old(9)>>},
     d \in {<<Main(bob, x), Sub(carol, y)>> : x \in {0, 2}, y \in {4, 5, 31}} \cup
           {<<Sub(bob, 2), Sub(carol, 2), Main(alice, 2)>>, <<Main(bob, 6)>>}}

(* How a transaction is to be proved and signed: every kind of range proof *)
(* and version there is, and one there is not; no output, one, as many as  *)
(* a padded proof takes and one more; a ring of one alone, behind a larger *)
(* one, and none.                                                          *)
RingOfOne(at, amount) == [ToMain(at, 1, amount) EXCEPT !.outputs = <<@[1]>>]
ConfigRequests ==
  {[Base0 EXCEPT !.direct = TRUE, !.shuffle_outs = FALSE, !.sources = s,
                !.destinations = [i \in 1 .. n |-> Main(bob, 1)],
                !.version = v, !.rct_config = c] :
     s \in {<<ToMain(10, 1, 20)>>, <<RingOfOne(10, 20)>>,
            <<ToMain(20, 2, 10), RingOfOne(10, 10)>>},
     n \in {0, 1, BULLETPROOF_MAX_OUTPUTS, BULLETPROOF_MAX_OUTPUTS + 1},
     v \in {1, 2},
     c \in [range_proof_type : {"Borromean", "Bulletproof", "MultiOutputBulletproof",
                                "PaddedBulletproof"},
            bp_version : 0 .. 5]}

(* Everything callers hand in but the sources. *)
CallRequests == ExtraRequests \cup EntryRequests \cup ConfigRequests

(* Destinations whose spend or view key does not decode. *)
BadAddressRequests ==
  {[Base0 EXCEPT !.destinations = <<[d EXCEPT !.addr.spend = BadPoint]>>,
                !.version = v] :
     d \in {Main(bob, 2), Sub(bob, 2)}, v \in {1, 2}} \cup
  {[Base0 EXCEPT !.destinations = <<[Main(bob, 2) EXCEPT !.addr.view = BadPoint]>>,
                !.version = 2]}
=============================================================================
