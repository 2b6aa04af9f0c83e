------------------------------ MODULE Payment ------------------------------
(***************************************************************************)
(* What a call that constructs a transaction promises: the payments that   *)
(* were ordered are received, each by the wallet and subaddress it names,  *)
(* with its amount and nothing besides, or the call is refused and nobody  *)
(* receives anything.                                                      *)
(***************************************************************************)
EXTENDS Naturals, Sequences, FiniteSets

CONSTANT Orders     \* sequences of [wallet, index, amount]

VARIABLES order, status, received

vars == <<order, status, received>>

Nothing == << >>

(* How often each payment occurs in a sequence of payments. *)
AsBag(s) ==
  [x \in {s[i] : i \in DOMAIN s} |-> Cardinality({i \in DOMAIN s : s[i] = x})]

Init == order \in Orders /\ status = "pending" /\ received = Nothing

Pay ==
  /\ status = "pending"
  /\ status' = "made"
  /\ received' = AsBag(order)
  /\ UNCHANGED order

Refuse ==
  /\ status = "pending"
  /\ status' = "refused"
  /\ UNCHANGED <<order, received>>

Next == Pay \/ Refuse

Safety == Init /\ [][Next]_vars
Spec == Safety /\ WF_vars(Next)
=============================================================================
