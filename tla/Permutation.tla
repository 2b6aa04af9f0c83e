---------------------------- MODULE Permutation ----------------------------
(***************************************************************************)
(* apply_permutation.h: the items of a vector are swapped, one cycle of    *)
(* the permutation after another, until each place holds the item that the *)
(* permutation names for it.  What has been done is marked in a copy of    *)
(* the permutation.  Indices count from 1.                                 *)
(***************************************************************************)
EXTENDS Integers, Sequences

CONSTANT
  Orders        \* what it is called with: sequences of numbers

ASSUME OrdersAssumption == \A p \in Orders : p \in Seq(Nat)

VARIABLES
  given,        \* the permutation it was called with
  perm,         \* its copy
  items,        \* which item of the original is at each place
  cycle,        \* i: where the cycle begins
  current,
  step          \* "idle", "turn", "returned" or "thrown"

sortVars == <<given, perm, items, cycle, current, step>>

SortInit ==
  /\ given = << >> /\ perm = << >> /\ items = << >>
  /\ cycle = 1 /\ current = 1 /\ step = "idle"

Sane_Bounded(p) == \A n \in 1 .. Len(p) : p[n] \in 1 .. Len(p)
Sane(p) == \A n \in 1 .. Len(p) : \E k \in 1 .. Len(p) : p[k] = n

(* The overload for a vector throws too when the sizes differ. *)
apply_permutation(p, size) ==
  /\ step = "idle"
  /\ given' = p /\ perm' = p /\ items' = [k \in 1 .. size |-> k]
  /\ cycle' = 1 /\ current' = 1
  /\ step' = IF size = Len(p) /\ Sane(p) THEN "turn" ELSE "thrown"

SwapNext ==
  /\ step = "turn" /\ cycle <= Len(perm) /\ perm[current] # cycle
  /\ LET next == perm[current]
     IN  /\ items' = [items EXCEPT ![current] = items[next], ![next] = items[current]]
         /\ perm' = [perm EXCEPT ![current] = current]
         /\ current' = next
  /\ UNCHANGED <<given, cycle, step>>

EndCycle ==
  /\ step = "turn" /\ cycle <= Len(perm) /\ perm[current] = cycle
  /\ perm' = [perm EXCEPT ![current] = current]
  /\ cycle' = cycle + 1 /\ current' = cycle + 1
  /\ UNCHANGED <<given, items, step>>

Return ==
  /\ step = "turn" /\ cycle > Len(perm)
  /\ step' = "returned"
  /\ UNCHANGED <<given, perm, items, cycle, current>>

SortNext ==
  \/ \E p \in Orders, more \in {0, 1} : apply_permutation(p, Len(p) + more)
  \/ SwapNext \/ EndCycle \/ Return

-----------------------------------------------------------------------------
(* PermutedInPlace: when it returns each place holds the item that the     *)
(* permutation named for it, though the swaps overwrite both the items and *)
(* the copy while they follow a cycle; when it throws nothing has moved;   *)
(* and no swap is of a place that is done already.                         *)
PermutedInPlace ==
  /\ step = "returned" => items = given
  /\ step = "thrown" => \A k \in DOMAIN items : items[k] = k
  /\ step = "turn" => \A k \in 1 .. Len(given) : perm[k] = k => items[k] = given[k]
=============================================================================
