----------------------------- MODULE CurveGroup -----------------------------
(***************************************************************************)
(* What crypto-ops.c promises: one element of a group, what encodings      *)
(* stand for, and what each operation makes of the element.                *)
(***************************************************************************)
EXTENDS Integers, Sequences

CONSTANTS
  Group, Zero, Plus(_, _), Minus(_),
  l, B,            \* a point of order l
  PointOf(_)       \* the points an encoding stands for: one or none

VARIABLES
  call,        \* the last operation and its arguments
  element      \* the element held
vars == <<call, element>>

Times(n, P) ==
  LET times[k \in Nat] ==
        IF k = 0 THEN Zero
        ELSE LET half == times[k \div 2]
                 even == Plus(half, half)
             IN  IF k % 2 = 0 THEN even ELSE Plus(even, P)
  IN  times[n]

The(points) == CHOOSE P \in points : TRUE

Init == call = [op |-> "none"] /\ element = Zero

Load ==
  /\ call'.op = "load"
  /\ call'.ok = (PointOf(call'.key) # {})
  /\ element' = IF call'.ok THEN The(PointOf(call'.key)) ELSE element

Add == call'.op = "add" /\ element' = Plus(element, The(PointOf(call'.key)))
Subtract == call'.op = "sub" /\ element' = Plus(element, Minus(The(PointOf(call'.key))))
Double == call'.op = "double" /\ element' = Plus(element, element)
MultiplyBy8 == call'.op = "mul8" /\ element' = Times(8, element)

(* a*B + b*P + c*Q + ..., whichever function is called. *)
Multiply ==
  /\ call'.op = "multiply"
  /\ LET sum[k \in Nat] ==
           IF k = 0 THEN Times(call'.base, B)
           ELSE Plus(sum[k - 1], Times(call'.terms[k][1], The(PointOf(call'.terms[k][2]))))
     IN  element' = sum[Len(call'.terms)]

(* Multiples of nothing by a function that promises nothing then. *)
MultiplyNothing == call'.op = "nothing" /\ element' \in Group

(* A point of the subgroup, for any bytes. *)
Hash == call'.op = "hash" /\ element' \in Group /\ Times(l, element') = Zero

Raise == call'.op = "power" /\ UNCHANGED element

Next ==
  \/ Load \/ Add \/ Subtract \/ Double \/ MultiplyBy8
  \/ Multiply \/ MultiplyNothing \/ Hash \/ Raise

Spec == Init /\ [][Next]_vars
=============================================================================
