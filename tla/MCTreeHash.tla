----------------------------- MODULE MCTreeHash -----------------------------
(* Arrays of up to MaxCount hashes for TLC; one hash may occur twice. *)
EXTENDS TreeHash

CONSTANT MaxCount

Labels == 0 .. MaxCount

(* The label MaxCount is in no array. *)
Arrays ==
  {[k \in 0 .. n - 1 |-> IF k = twin THEN Leaf(n \div 2) ELSE Leaf(k)] :
     n \in 0 .. MaxCount, twin \in 0 .. MaxCount}
=============================================================================
