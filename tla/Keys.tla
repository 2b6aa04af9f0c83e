-------------------------------- MODULE Keys --------------------------------
(***************************************************************************)
(* crypto.cpp and account.cpp: the keys of an account, made from a number  *)
(* that is drawn or recovered from what was written down; and the          *)
(* signature of an input of a version 1 transaction, by a ring of keys of  *)
(* which the signer knows one secret, and what may become of it before it  *)
(* is checked.                                                             *)
(***************************************************************************)
EXTENDS RctOps

CONSTANTS
  Generated,    \* accounts asked, [recovery_key, recover, two_random, legacy, draw]
  Rings         \* signatures asked, [size, at, sec, image, seed]

(* Numbers of any size; and the signer is a member of the ring, as         *)
(* generate_ring_signature asserts, the owner of the secret and of the     *)
(* image any member.                                                       *)
ASSUME GeneratedAssumption ==
  \A q \in Generated : q.recovery_key \in Nat /\ q.draw \in Nat \X Nat /\ {q.recover, q.two_random, q.legacy} \subseteq BOOLEAN
ASSUME RingsAssumption ==
  \A q \in Rings : q.size \in Nat /\ q.seed \in Nat /\ {q.at, q.sec, q.image} \subseteq 1 .. q.size

VARIABLES
  account,      \* an account, and the same one recovered
  ring          \* a signature: its stage, what was asked, and what is checked

keysVars == <<account, ring>>

generate_keys(recovery_key, recover, drawn) ==
  LET rng == IF recover THEN recovery_key ELSE drawn
      sec == sc_reduce32(rng)
  IN  [pub |-> scalarmultBase(sec), sec |-> sec, rng |-> rng]

(* Thirty-two bytes hold many times the order of the group, here four.     *)
keccak(key) == Mixed(6, <<key>>) + l * (Mixed(7, <<key>>) % 4)

generate_FromFirst(recovery_key, recover, two_random, from_legacy16B_lw_seed, draw) ==
  LET first == generate_keys(recovery_key, recover, draw[1])
      second == keccak(first.rng)
  IN  [spend |-> first, view |-> generate_keys(second, ~two_random, draw[2]),
       created |-> IF recover THEN "2014" ELSE "now"]

generate(recovery_key, recover, two_random, from_legacy16B_lw_seed, draw) ==
  LET first == generate_keys(recovery_key, recover, draw[1])
      second == keccak(IF from_legacy16B_lw_seed THEN first.rng ELSE first.sec)
  IN  [spend |-> first, view |-> generate_keys(second, ~two_random, draw[2]),
       created |-> IF recover THEN "2014" ELSE "now"]

set_null == [stage |-> "none"]

-----------------------------------------------------------------------------
AccountInit == account = set_null

Generate(q) ==
  /\ account = set_null
  /\ account' = [stage |-> "made", asked |-> q,
                  made |-> generate(q.recovery_key, q.recover, q.two_random, q.legacy, q.draw)]

(* What was written down is what generate returned, or the spend key.      *)
Recover(from) ==
  /\ account.stage = "made"
  /\ LET key == IF from = "returned" THEN account.made.spend.rng ELSE account.made.spend.sec
     IN  account' = [stage |-> "recovered", asked |-> account.asked, made |-> account.made, from |-> from,
                     again |-> generate(key, TRUE, FALSE, account.asked.legacy, <<0, 0>>)]

AccountNext ==
  \/ \E q \in Generated : Generate(q)
  \/ \E from \in {"returned", "spend key"} : Recover(from)

-----------------------------------------------------------------------------
random_scalar(draw) == 1 + (Mixed(3, draw) % (l - 1))

hash_to_ec(key) == scalarmult8(Mixed(2, <<key>>))
generate_key_image(pub, sec) == scalarmultKey(hash_to_ec(pub), sec)

(* rs_comm: the prefix's hash and two points for each key. *)
commitments(prefix, ab) ==
  hash_to_scalar(<<prefix>> \o [n \in 1 .. 2 * Len(ab) |-> ab[(n + 1) \div 2][IF n % 2 = 1 THEN "a" ELSE "b"]])

committed(key, image, sig) ==
  [a |-> addKeys2(sig.r, sig.c, key), b |-> addKeys3(sig.r, hash_to_ec(key), sig.c, image)]

generate_ring_signature(prefix, image, pubs, sec, sec_index, draw) ==
  LET n == Len(pubs)
      k == random_scalar(<<draw, sec_index, 0>>)
      drawn == [i \in 1 .. n |-> [c |-> random_scalar(<<draw, i, 1>>), r |-> random_scalar(<<draw, i, 2>>)]]
      ab == [i \in 1 .. n |->
               IF i = sec_index THEN [a |-> scalarmultBase(k), b |-> scalarmultKey(hash_to_ec(pubs[i]), k)]
               ELSE committed(pubs[i], image, drawn[i])]
      sum == AddedUp([i \in 1 .. n |-> IF i = sec_index THEN 0 ELSE drawn[i].c], n)
      c == sc_sub(commitments(prefix, ab), sum)
  IN  [drawn EXCEPT ![sec_index] = [c |-> c, r |-> sc_mulsub(c, sec, k)]]

sc_check(s) == s < l

check_ring_signature_ScalarsUnchecked(prefix, image, pubs, sig) ==
  LET n == Len(pubs)
      sum == AddedUp([i \in 1 .. n |-> sig[i].c], n)
  IN  sc_sub(commitments(prefix, [i \in 1 .. n |-> committed(pubs[i], image, sig[i])]), sum) = 0

check_ring_signature(prefix, image, pubs, sig) ==
  LET n == Len(pubs)
      sum == AddedUp([i \in 1 .. n |-> sig[i].c], n)
  IN  /\ \A i \in 1 .. n : sc_check(sig[i].c) /\ sc_check(sig[i].r)
      /\ sc_sub(commitments(prefix, [i \in 1 .. n |-> committed(pubs[i], image, sig[i])]), sum) = 0

-----------------------------------------------------------------------------
NoRing == [stage |-> "none"]
RingInit == ring = NoRing

(* The ring and the signer's secret; what the assertions of a debug build  *)
(* demand does not hold when the secret or the image is of another key.    *)
SecretOf(q, i) == random_scalar(<<q.seed, i, 3>>)
PubsOf(q) == [i \in 1 .. q.size |-> scalarmultBase(SecretOf(q, i))]
Prefix(q) == cn_fast_hash(<<q.seed, 4>>)

AssertionsHold(q) == q.sec = q.at /\ q.image = q.at

SignRing(q) ==
  /\ ring = NoRing
  /\ LET pubs == PubsOf(q)
         image == generate_key_image(pubs[q.image], SecretOf(q, q.image))
     IN  ring' = [stage |-> "signed", asked |-> q, prefix |-> Prefix(q), image |-> image, pubs |-> pubs,
                  sigs |-> generate_ring_signature(Prefix(q), image, pubs, SecretOf(q, q.sec), q.at, q.seed),
                  altered |-> FALSE, verdict |-> FALSE]

OnTheWayToCheck == ring.stage = "signed" /\ ~ring.altered

(* A scalar is another, is written as itself plus the order, or two        *)
(* challenges are changed so that their sum is the same.                   *)
SignaturesLike(sigs, i) ==
  {[sigs EXCEPT ![i][part] = @ + by] : part \in {"c", "r"}, by \in {1, l}}
  \union {[sigs EXCEPT ![i].c = sc_add(@, 1), ![j].c = sc_sub(@, 1)] : j \in (1 .. Len(sigs)) \ {i}}

AlterSignature(i) ==
  /\ OnTheWayToCheck /\ i \in 1 .. ring.asked.size
  /\ \E sigs \in SignaturesLike(ring.sigs, i) : ring' = [ring EXCEPT !.sigs = sigs, !.altered = TRUE]

(* It is claimed for another transaction, image or ring. *)
AlterClaim(what) ==
  /\ OnTheWayToCheck /\ (what = "order" => ring.pubs[1] # ring.pubs[Len(ring.pubs)])
  /\ ring' = [ring EXCEPT !.altered = TRUE,
       !.prefix = IF what = "prefix" THEN sc_add(@, 1) ELSE @,
       !.image  = IF what = "image" THEN sc_add(@, 1) ELSE @,
       !.pubs   = CASE what = "member" -> [@ EXCEPT ![1] = sc_add(@, 1)]
                    [] what = "order"  -> [k \in 1 .. Len(@) |-> @[Len(@) + 1 - k]]
                    [] OTHER           -> @]

CheckRing ==
  /\ ring.stage = "signed"
  /\ ring' = [ring EXCEPT !.stage = "checked", !.verdict = check_ring_signature(ring.prefix, ring.image, ring.pubs, ring.sigs)]

RingNext ==
  \/ \E q \in Rings : SignRing(q)
  \/ \E i \in 1 .. 4 : AlterSignature(i)
  \/ \E what \in {"prefix", "image", "member", "order"} : AlterClaim(what)
  \/ CheckRing

(* RingVerifies: a signature by the secret of a member, with that key's    *)
(* image, is valid, at every place of rings of every size.                 *)
RingVerifies ==
  ring.stage = "checked" /\ ~ring.altered /\ AssertionsHold(ring.asked) => ring.verdict

(* RingRefused: one that was altered, or made with the secret or the image *)
(* of another member, is not: what is spent cannot be spent again under    *)
(* another image.                                                          *)
RingRefused ==
  ring.stage = "checked" /\ (ring.altered \/ ~AssertionsHold(ring.asked)) => ~ring.verdict

(* RecoveredIsSame: who recovers an account from what generate returned,   *)
(* or from its spend key, has its keys, whether it was drawn or recovered  *)
(* itself, and from a number past the order as well; but for a view key    *)
(* that was drawn, or was made of the legacy seed, which the spend key     *)
(* does not tell.  A recovered account is dated back (account.cpp).        *)
RecoveredIsSame ==
  account.stage = "recovered" =>
    LET q == account.asked
        SameKeys(a, b) == a.pub = b.pub /\ a.sec = b.sec
    IN  /\ SameKeys(account.again.spend, account.made.spend)
        /\ ~q.two_random /\ (account.from = "returned" \/ ~q.legacy \/ account.made.spend.rng = account.made.spend.sec) =>
             SameKeys(account.again.view, account.made.view)
        /\ account.again.created = "2014"
=============================================================================
