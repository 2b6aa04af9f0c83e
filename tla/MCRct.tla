------------------------------- MODULE MCRct --------------------------------
(* Values for TLC: amounts of four bits in a group of order 32749. *)
EXTENDS RctCalls

(* The product of two scalars is one of TLC's integers.                    *)
ASSUME WidthAssumption == l <= 32768

Request(type, range, fake, ins, outs, fee, mixin, seed, alter) ==
  [type |-> type, range |-> range, fake |-> fake, ins |-> ins, outs |-> outs, fee |-> fee,
   mixin |-> mixin, seed |-> seed, alter |-> alter]

Types == RCTTypeFull .. RCTTypeBulletproofPlus
ClsagTypes == {RCTTypeCLSAG, RCTTypeBulletproofPlus}
Padded == {RCTTypeBulletproof, RCTTypeBulletproof2} \union ClsagTypes

(* Amounts at the ends of the range, rings of two to four, proofs that are *)
(* padded and proofs that are divided; some are estimated.                 *)
MCRequests ==
  {Request(t, "padded", FALSE, <<5>>, <<3>>, 2, 1, 1, TRUE) : t \in Types}
  \union {Request(t, "padded", FALSE, <<15, 1>>, <<0, 14>>, 2, mixin, 2, t \in ClsagTypes) : t \in Types, mixin \in 2 .. 3}
  \union {Request(t, "padded", FALSE, <<9, 8>>, <<4, 7, 6>>, 0, 1, seed, FALSE) : t \in Padded, seed \in 3 .. 4}
  \union {Request(t, range, FALSE, <<15>>, <<5, 5, 4>>, 1, 2, 5, FALSE) : t \in Padded, range \in {"single", "multi"}}
  \union {Request(t, range, TRUE, <<9, 7>>, <<15, 0, 1>>, 0, 2, 6, FALSE) : t \in ClsagTypes, range \in {"padded", "multi"}}

Proof(plus, values, masks, seed) == [plus |-> plus, values |-> values, masks |-> masks, seed |-> seed]

(* Proofs of one, two and three amounts; the draws of those of one are such *)
(* that a challenge comes out as zero.                                     *)
MCProofs ==
  {Proof(plus, <<15, 6>>, <<31, 32>>, 11) : plus \in BOOLEAN}
  \union {Proof(plus, <<1, 2, 3>>, <<33, 34, 35>>, 11) : plus \in BOOLEAN}
  \union {Proof(FALSE, <<5>>, <<777>>, 4986), Proof(TRUE, <<5>>, <<777>>, 20884)}

MCSums ==
  {[i \in 1 .. Len(s) |-> Data(s[i], hash_to_p3(i))] :
     s \in {<<1>>, <<l - 1, 16>>, <<5, l - 2, 4096>>, <<255, 256, 257, l \div 2, 3>>}}

(* Numbers below the order and past it, drawn and recovered. *)
MCGenerated ==
  [recovery_key : {7, l - 1, l + 7, 3 * l + 1}, recover : BOOLEAN, two_random : BOOLEAN,
   legacy : BOOLEAN, draw : {<<77, 78>>}]

(* Rings of one to four, the signer at each place; the secret or the image *)
(* may be of the first.                                                    *)
MCRings ==
  {r \in [size : 1 .. 4, at : 1 .. 4, sec : 1 .. 4, image : 1 .. 4, seed : {1, 2}] :
     r.at <= r.size /\ r.sec \in {1, r.at} /\ r.image \in {1, r.at}}

MCOrders == UNION {[1 .. n -> 1 .. n] : n \in 0 .. 4} \union {p \in [1 .. 5 -> 1 .. 5] : {p[k] : k \in 1 .. 5} = 1 .. 5}
=============================================================================
