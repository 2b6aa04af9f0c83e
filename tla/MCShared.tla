------------------------------ MODULE MCShared ------------------------------
(* Two threads that play the same part; three transactions of different    *)
(* lengths, a coinbase transaction among them.                             *)
EXTENDS SharedState, TLC

CONSTANTS t1, t2, t3, h1, h2

Symmetry == Permutations({t1, t2})

Transactions ==
  {[version |-> 1, prefix |-> <<"p">>, base |-> << >>, prunable |-> <<"s">>],
   [version |-> 2, prefix |-> <<"p", "q">>, base |-> <<"b">>, prunable |-> <<"x", "y">>],
   [version |-> 2, prefix |-> <<"p">>, base |-> <<"b", "c">>, prunable |-> << >>]}
=============================================================================
