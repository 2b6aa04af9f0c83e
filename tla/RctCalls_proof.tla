--------------------------- MODULE RctCalls_proof ---------------------------
(***************************************************************************)
(* apply_permutation puts vectors of any length in any order, in place;    *)
(* who recovers an account has its keys, of whatever numbers it was made;  *)
(* a ring signature that was made as the code asserts is valid, however    *)
(* many members the ring has; and the commitments of a transaction are to  *)
(* its amounts and add up, however many inputs and outputs it has.         *)
(***************************************************************************)
EXTENDS RctCalls, FunctionTheorems, FiniteSetTheorems, WellFoundedInduction, TLAPS

(* Elsewhere: what the calls about transactions, range proofs and sums     *)
(* leave alone.                                                            *)
LEMMA Elsewhere ==
  [Next]_vars => UNCHANGED others \/ MakeAccount \/ SignByRing \/ PutInOrder \/ Restart
<1> SUFFICES ASSUME [Next]_vars PROVE UNCHANGED others \/ MakeAccount \/ SignByRing \/ PutInOrder \/ Restart
  OBVIOUS
<1> USE DEF others
<1>1. ASSUME NEW q, Sign(q) PROVE UNCHANGED others
  BY <1>1 DEF Sign
<1>2. ASSUME NEW at, Alter(at) PROVE UNCHANGED others
  BY Zenon, <1>2 DEF Alter
<1>3. ASSUME NEW what, AlterContext(what) PROVE UNCHANGED others
  BY Zenon, <1>3 DEF AlterContext
<1>4. ASSUME NEW rv, AlterScalar(rv) PROVE UNCHANGED others
  BY <1>4 DEF AlterScalar
<1>5. ASSUME Receive PROVE UNCHANGED others
  BY <1>5 DEF Receive
<1>6. ASSUME NEW i, NEW k, Decode(i, k) PROVE UNCHANGED others
  BY <1>6 DEF Decode
<1>7. ASSUME NEW p, Prove(p) PROVE UNCHANGED others
  BY <1>7 DEF Prove
<1>8. ASSUME NEW n, NEW field, NEW by, Spoil(n, field, by) PROVE UNCHANGED others
  BY <1>8 DEF Spoil
<1>9. ASSUME NEW n, SpoilV(n) PROVE UNCHANGED others
  BY <1>9 DEF SpoilV
<1>10. ASSUME VerifyBatch PROVE UNCHANGED others
  BY <1>10 DEF VerifyBatch
<1>11. ASSUME NEW data, Add(data) PROVE UNCHANGED others
  BY <1>11 DEF Add
<1>12. UNCHANGED vars => UNCHANGED others
  BY DEF vars
<1> QED
  BY <1>1, <1>2, <1>3, <1>4, <1>5, <1>6, <1>7, <1>8, <1>9, <1>10, <1>11, <1>12 DEF Next

-----------------------------------------------------------------------------
(* apply_permutation.                                                      *)

(* The places of the vector; no two of them are to hold the same item.     *)
Places == 1 .. Len(given)
NoneTwice(p) == \A j, k \in 1 .. Len(p) : p[j] = p[k] => j = k
Within(p) == p \in [1 .. Len(p) -> 1 .. Len(p)]

(* A place is settled when the copy of the permutation names it for        *)
(* itself: it holds its item.  Every other place has its own item and its  *)
(* own entry, but the one at hand, which has the item the cycle began      *)
(* with.  What is not settled leads to what is not settled, or back to the *)
(* beginning; and the one at hand is led to from a settled place.          *)
Settled == \A k \in Places : perm[k] = k => items[k] = given[k]
Untouched ==
  \A k \in Places : perm[k] # k => perm[k] = given[k] /\ items[k] = IF k = current THEN cycle ELSE k
Closed ==
  \A k \in Places : perm[k] # k => perm[given[k]] # given[k] \/ (given[k] = cycle /\ current # cycle)
Reached ==
  cycle <= Len(given) /\ current # cycle =>
    /\ perm[cycle] = cycle /\ perm[current] # current
    /\ \E j \in Places : perm[j] = j /\ given[j] = current
Passed == \A k \in Places : k < cycle => perm[k] = k

TurnType ==
  /\ given \in Seq(Nat) /\ NoneTwice(given) /\ Within(given)
  /\ perm \in [Places -> Places] /\ items \in [Places -> Places]
  /\ Len(perm) = Len(given)
  /\ cycle \in 1 .. Len(given) + 1
  /\ cycle <= Len(given) => current \in Places

TurnInv == TurnType /\ Settled /\ Untouched /\ Closed /\ Reached /\ Passed

SortInv ==
  /\ step = "turn" => TurnInv
  /\ PermutedInPlace

-----------------------------------------------------------------------------
(* SaneIsPermutation: when every index is found among as many entries, no  *)
(* entry is found twice and all are indices.                               *)
LEMMA SaneIsPermutation ==
  ASSUME NEW p \in Seq(Nat), Sane(p)
  PROVE  NoneTwice(p) /\ Within(p)
<1> DEFINE n == Len(p)
           f == [k \in 1 .. n |-> IF p[k] \in 1 .. n THEN p[k] ELSE 1]
<1>1. n \in Nat /\ IsFiniteSet(1 .. n) /\ \A k \in 1 .. n : p[k] \in Nat
  <2>1. n \in Nat /\ \A k \in 1 .. n : p[k] \in Nat
    OBVIOUS
  <2> QED
    BY <2>1, FS_Interval
<1>2. f \in Surjection(1 .. n, 1 .. n)
  <2>1. f \in [1 .. n -> 1 .. n]
    BY <1>1
  <2>2. \A m \in 1 .. n : \E k \in 1 .. n : f[k] = m
    BY DEF Sane
  <2> QED
    BY <2>1, <2>2, Fun_IsSurj
<1>3. f \in Injection(1 .. n, 1 .. n)
  BY <1>1, <1>2, FS_SurjSameCardinalityImpliesInj
<1>4. \A j, k \in 1 .. n : f[j] = f[k] => j = k
  <2> HIDE DEF f
  <2> QED
    BY <1>3, Fun_InjectionProperties, SMTT(30)
<1>5. \A k \in 1 .. n : p[k] \in 1 .. n
  <2> SUFFICES ASSUME NEW j \in 1 .. n, p[j] \notin 1 .. n PROVE FALSE
    OBVIOUS
  <2>1. 1 \in 1 .. n
    BY <1>1
  <2>2. PICK k \in 1 .. n : p[k] = 1
    BY <2>1 DEF Sane
  <2> QED
    BY <1>4, <2>1, <2>2
<1>6. p \in [1 .. n -> 1 .. n]
  BY <1>1, <1>5
<1> QED
  BY <1>4, <1>5, <1>6 DEF NoneTwice, Within

(* CallInv: a call begins with everything in its place, or throws.         *)
LEMMA CallInv ==
  ASSUME NEW p \in Orders, NEW more \in {0, 1}, apply_permutation(p, Len(p) + more)
  PROVE  SortInv'
<1>1. p \in Seq(Nat) /\ Len(p) \in Nat
  BY OrdersAssumption
<1>2. CASE step' = "turn"
  <2>1. Sane(p) /\ more = 0
    BY <1>1, <1>2 DEF apply_permutation
  <2>2. NoneTwice(p) /\ Within(p)
    BY <1>1, <2>1, SaneIsPermutation
  <2>3. given' = p /\ perm' = p /\ items' = [k \in 1 .. Len(p) |-> k] /\ cycle' = 1 /\ current' = 1
    BY <1>1, <2>1 DEF apply_permutation
  <2>4. TurnType'
    BY <1>1, <2>2, <2>3 DEF TurnType, Places, Within
  <2>5. (Settled /\ Untouched /\ Closed /\ Reached /\ Passed)'
    BY <1>1, <2>2, <2>3, SMTT(30) DEF Settled, Untouched, Closed, Reached, Passed, Places, Within, NoneTwice
  <2> QED
    BY <1>2, <2>3, <2>4, <2>5 DEF SortInv, TurnInv, PermutedInPlace, Settled, Places
<1>3. CASE step' = "thrown"
  BY <1>1, <1>3 DEF apply_permutation, SortInv, PermutedInPlace
<1> QED
  BY <1>2, <1>3 DEF apply_permutation

(* SwapInv: a swap settles the place at hand, and the next one is at hand. *)
LEMMA SwapInv == SortInv /\ SwapNext => SortInv'
<1> SUFFICES ASSUME SortInv, SwapNext PROVE SortInv'
  OBVIOUS
<1> DEFINE next == perm[current]
<1>1. TurnInv /\ step' = "turn" /\ cycle <= Len(given) /\ next # cycle
  BY DEF SortInv, SwapNext, TurnInv, TurnType
<1>2. given' = given /\ cycle' = cycle /\ current' = next
      /\ perm' = [perm EXCEPT ![current] = current]
      /\ items' = [items EXCEPT ![current] = items[next], ![next] = items[current]]
  BY DEF SwapNext
<1>3. current \in Places /\ next \in Places /\ cycle \in Places
  BY <1>1 DEF TurnInv, TurnType, Places
<1>4. next # current
  BY <1>1, <1>3 DEF TurnInv, Reached
<1>5. next = given[current] /\ items[current] = cycle
  BY <1>1, <1>3, <1>4 DEF TurnInv, Untouched
<1>6. perm[next] # next /\ items[next] = next
  <2>1. perm[next] # next
    BY <1>1, <1>3, <1>4, <1>5 DEF TurnInv, Closed
  <2> QED
    BY <1>1, <1>3, <1>4, <2>1 DEF TurnInv, Untouched
<1>7. TurnType'
  <2>1. /\ given \in Seq(Nat) /\ NoneTwice(given) /\ Within(given)
        /\ perm \in [Places -> Places] /\ items \in [Places -> Places]
        /\ Len(perm) = Len(given) /\ cycle \in 1 .. Len(given) + 1
    BY <1>1 DEF TurnInv, TurnType
  <2>2. perm' \in [Places -> Places] /\ items' \in [Places -> Places] /\ Places' = Places
    BY <1>2, <1>3, <2>1 DEF Places
  <2>3. Len(perm') = Len(given)
    BY <1>2, <1>3, <2>1 DEF Places
  <2>4. given' \in Seq(Nat) /\ NoneTwice(given)' /\ Within(given)'
    BY <1>2, <2>1 DEF NoneTwice, Within
  <2> QED
    BY <1>2, <1>3, <2>1, <2>2, <2>3, <2>4 DEF TurnType
<1>8. Settled' /\ Untouched' /\ Passed'
  <2>1. Settled'
    BY <1>1, <1>2, <1>3, <1>4, <1>5, <1>6 DEF TurnInv, TurnType, Settled, Untouched, Places
  <2>2. Untouched'
    BY <1>1, <1>2, <1>3, <1>4, <1>5, <1>6 DEF TurnInv, TurnType, Untouched, Places
  <2>3. Passed'
    BY <1>1, <1>2, <1>3, <1>4, <1>5, <1>6 DEF TurnInv, TurnType, Passed, Places
  <2> QED BY <2>1, <2>2, <2>3
<1>9. Closed'
  <2> SUFFICES ASSUME NEW k \in Places, perm'[k] # k PROVE perm'[given[k]] # given[k] \/ given[k] = cycle
    BY <1>1, <1>2 DEF Closed, Places
  <2>1. k # current /\ perm[k] # k /\ given[k] \in Places
    BY <1>1, <1>2, <1>3 DEF TurnInv, TurnType, Within, Places
  <2>2. given[k] # current \/ current = cycle
    <3> SUFFICES ASSUME given[k] = current, current # cycle PROVE FALSE
      OBVIOUS
    <3>1. PICK j \in Places : perm[j] = j /\ given[j] = current
      BY <1>1 DEF TurnInv, Reached
    <3> QED
      BY <1>1, <2>1, <3>1 DEF TurnInv, TurnType, NoneTwice, Places
  <2> QED
    BY <1>1, <1>2, <1>3, <2>1, <2>2 DEF TurnInv, TurnType, Closed
<1>10. Reached'
  <2>1. perm'[cycle] = cycle
    BY <1>1, <1>2, <1>3 DEF TurnInv, TurnType, Reached
  <2>2. perm'[next] # next /\ perm'[current] = current
    BY <1>1, <1>2, <1>3, <1>4, <1>6 DEF TurnInv, TurnType
  <2> QED
    BY <1>2, <1>3, <1>5, <2>1, <2>2 DEF Reached, Places
<1> QED
  BY <1>1, <1>7, <1>8, <1>9, <1>10 DEF SortInv, TurnInv, PermutedInPlace, Settled, Places

(* EndInv: the last place of a cycle has the item the cycle began with.    *)
LEMMA EndInv == SortInv /\ EndCycle => SortInv'
<1> SUFFICES ASSUME SortInv, EndCycle PROVE SortInv'
  OBVIOUS
<1>1. TurnInv /\ step' = "turn" /\ cycle <= Len(given) /\ perm[current] = cycle
  BY DEF SortInv, EndCycle, TurnInv, TurnType
<1>2. given' = given /\ items' = items /\ cycle' = cycle + 1 /\ current' = cycle + 1
      /\ perm' = [perm EXCEPT ![current] = current]
  BY DEF EndCycle
<1>3. current \in Places /\ cycle \in Places
  BY <1>1 DEF TurnInv, TurnType, Places
<1>4. current # cycle => given[current] = cycle /\ items[current] = cycle /\ perm[cycle] = cycle
  BY <1>1, <1>3 DEF TurnInv, Reached, Untouched
<1>5. TurnType'
  BY <1>1, <1>2, <1>3 DEF TurnInv, TurnType, Places
<1>6. Settled' /\ Untouched' /\ Passed'
  <2>1. Settled' /\ Untouched'
    BY <1>1, <1>2, <1>3, <1>4 DEF TurnInv, TurnType, Settled, Untouched, Places
  <2>2. perm'[cycle] = cycle
    BY <1>1, <1>2, <1>3, <1>4 DEF TurnInv, TurnType
  <2> QED
    BY <1>1, <1>2, <1>3, <2>1, <2>2 DEF TurnInv, TurnType, Passed, Places
<1>7. Closed'
  <2> SUFFICES ASSUME NEW k \in Places, perm'[k] # k PROVE perm'[given[k]] # given[k]
    BY <1>1, <1>2 DEF Closed, Places
  <2>1. k # current /\ perm[k] # k /\ given[k] \in Places
    BY <1>1, <1>2, <1>3 DEF TurnInv, TurnType, Within, Places
  <2>2. given[k] # current \/ current = cycle
    <3> SUFFICES ASSUME given[k] = current, current # cycle PROVE FALSE
      OBVIOUS
    <3>1. PICK j \in Places : perm[j] = j /\ given[j] = current
      BY <1>1 DEF TurnInv, Reached
    <3> QED
      BY <1>1, <2>1, <3>1 DEF TurnInv, TurnType, NoneTwice, Places
  <2>3. perm[given[k]] # given[k]
    <3>1. given[k] = cycle /\ current # cycle => FALSE
      BY <1>1, <1>3, <1>4, <2>1 DEF TurnInv, TurnType, NoneTwice, Places
    <3> QED
      BY <1>1, <2>1, <3>1 DEF TurnInv, Closed
  <2>4. given[k] # current
    BY <1>1, <2>2, <2>3
  <2> QED
    BY <1>1, <1>2, <1>3, <2>1, <2>3, <2>4 DEF TurnInv, TurnType
<1>8. Reached'
  BY <1>2 DEF Reached
<1> QED
  BY <1>1, <1>5, <1>6, <1>7, <1>8 DEF SortInv, TurnInv, PermutedInPlace, Settled, Places

(* ReturnInv: when it returns all places have been passed.                 *)
LEMMA ReturnInv == SortInv /\ Return => SortInv'
<1> SUFFICES ASSUME SortInv, Return PROVE SortInv'
  OBVIOUS
<1>1. TurnInv /\ step' = "returned" /\ cycle > Len(given) /\ items' = items /\ given' = given
  BY DEF SortInv, Return, TurnInv, TurnType
<1>2. \A k \in Places : items[k] = given[k]
  <2> SUFFICES ASSUME NEW k \in Places PROVE items[k] = given[k]
    OBVIOUS
  <2>1. k < cycle
    BY <1>1 DEF TurnInv, TurnType, Places
  <2> QED
    BY <1>1, <2>1 DEF TurnInv, Passed, Settled
<1>3. items = given
  BY <1>1, <1>2 DEF TurnInv, TurnType, Within, Places
<1> QED
  BY <1>1, <1>3 DEF SortInv, PermutedInPlace

(* SortStep: no other call moves what is being sorted, and the next one    *)
(* begins with nothing.                                                    *)
LEMMA SortStep == SortInv /\ [Next]_vars => SortInv'
<1> SUFFICES ASSUME SortInv, [Next]_vars PROVE SortInv'
  OBVIOUS
<1>1. CASE UNCHANGED sortVars
  BY <1>1 DEF sortVars, SortInv, PermutedInPlace, TurnInv, TurnType, Settled, Untouched, Closed, Reached, Passed,
              Places, NoneTwice, Within
<1>2. CASE SortNext
  BY <1>2, CallInv, SwapInv, EndInv, ReturnInv DEF SortNext
<1>3. CASE Restart
  BY <1>3 DEF Restart, SortInv, PermutedInPlace
<1>4. UNCHANGED sortVars \/ SortNext \/ Restart
  BY Elsewhere DEF others, MakeAccount, SignByRing, PutInOrder
<1> QED
  BY <1>1, <1>2, <1>3, <1>4

(* PermutesInPlace: in every run, for vectors of any length and any        *)
(* sequence of numbers given as the order, apply_permutation leaves each   *)
(* place with the item that the order names for it, or throws and leaves   *)
(* the vector alone.                                                       *)
THEOREM PermutesInPlace == Spec => []PermutedInPlace
<1>1. Init => SortInv
  BY DEF Init, Idle, OthersIdle, SortInit, SortInv, PermutedInPlace
<1>2. SortInv => PermutedInPlace
  BY DEF SortInv
<1> QED
  BY <1>1, <1>2, SortStep, PTL DEF Spec

-----------------------------------------------------------------------------
(* Accounts.                                                               *)

(* Quotient: what a division gives.                                        *)
LEMMA Quotient ==
  ASSUME NEW a \in Int, NEW b \in Int, b > 0,
         NEW q \in Int, NEW r \in Int, 0 <= r, r < b, a = b * q + r
  PROVE  a \div b = q /\ a % b = r
OBVIOUS

(* DivMod: a number from what its division gives.                          *)
LEMMA DivMod ==
  ASSUME NEW a \in Int, NEW b \in Int, b > 0
  PROVE  /\ a = b * (a \div b) + (a % b) /\ 0 <= a % b /\ a % b < b
         /\ a \div b \in Int /\ a % b \in Int
OBVIOUS

(* Reduced: a scalar is reduced already, and what is reduced is a scalar.  *)
LEMMA Reduced ==
  /\ l \in Nat \ {0} /\ l > 1
  /\ \A a \in Int : a % l \in Scalar
  /\ \A a \in Scalar : a \in Int /\ a % l = a
<1>1. l \in Nat \ {0} /\ l > 1
  BY OrderAssumption
<1>2. ASSUME NEW a \in Int PROVE a % l \in Scalar
  BY <1>1, DivMod DEF Scalar
<1>3. ASSUME NEW a \in Scalar PROVE a \in Int /\ a % l = a
  <2>1. a \in Int /\ 0 <= a /\ a < l /\ a = l * 0 + a
    BY <1>1, <1>3 DEF Scalar
  <2> QED BY <1>1, <2>1, Quotient
<1> QED BY <1>1, <1>2, <1>3

(* What an account in hand was made of, and recovered from.                *)
Made(q) == generate(q.recovery_key, q.recover, q.two_random, q.legacy, q.draw)
Again(key, legacy) == generate(key, TRUE, FALSE, legacy, <<0, 0>>)
Written == IF account.from = "returned" THEN account.made.spend.rng ELSE account.made.spend.sec

AccountInv ==
  /\ account = set_null \/ account.stage \in {"made", "recovered"}
  /\ account.stage # "none" =>
       account.asked \in Generated /\ account.made = Made(account.asked)
  /\ account.stage = "recovered" =>
       /\ account.from \in {"returned", "spend key"}
       /\ account.again = Again(Written, account.asked.legacy)

(* AccountStep: an account is of one request until the next begins.        *)
LEMMA AccountStep == AccountInv /\ [Next]_vars => AccountInv'
<1> SUFFICES ASSUME AccountInv, [Next]_vars PROVE AccountInv'
  OBVIOUS
<1>1. CASE UNCHANGED account
  BY <1>1 DEF AccountInv, Written
<1>2. ASSUME NEW q \in Generated, Generate(q) PROVE AccountInv'
  BY <1>2 DEF Generate, AccountInv, Made
<1>3. ASSUME NEW from \in {"returned", "spend key"}, Recover(from) PROVE AccountInv'
  BY <1>3 DEF Recover, AccountInv, Written, Again
<1>4. CASE account' = set_null
  BY <1>4 DEF AccountInv, set_null
<1>5. UNCHANGED account \/ AccountNext \/ account' = set_null
  BY Elsewhere DEF others, keysVars, MakeAccount, SignByRing, PutInOrder, Restart
<1> QED
  BY <1>1, <1>2, <1>3, <1>4, <1>5 DEF AccountNext

(* MadeOf: the keys of an account, and of one whose view key is made of    *)
(* its spend key.                                                          *)
Keyed(n) == [pub |-> n % l, sec |-> n % l, rng |-> n]
Shown(spend, legacy) == Keyed(keccak(IF legacy THEN spend.rng ELSE spend.sec))

LEMMA MadeOf ==
  ASSUME NEW q
  PROVE  /\ Made(q).spend = Keyed(IF q.recover THEN q.recovery_key ELSE q.draw[1])
         /\ q.two_random = FALSE => Made(q).view = Shown(Made(q).spend, q.legacy)
<1>1. Made(q).spend = Keyed(IF q.recover THEN q.recovery_key ELSE q.draw[1])
  BY DEF Made, generate, generate_keys, sc_reduce32, scalarmultBase, Keyed
<1>2. Made(q).spend = generate_keys(q.recovery_key, q.recover, q.draw[1])
  BY DEF Made, generate
<1>3. q.two_random = FALSE => Made(q).view = Shown(generate_keys(q.recovery_key, q.recover, q.draw[1]), q.legacy)
  BY DEF Made, generate, generate_keys, sc_reduce32, scalarmultBase, Keyed, Shown
<1> QED BY <1>1, <1>2, <1>3

LEMMA AgainOf ==
  ASSUME NEW key, NEW legacy
  PROVE  /\ Again(key, legacy).spend = Keyed(key)
         /\ Again(key, legacy).view = Shown(Keyed(key), legacy)
         /\ Again(key, legacy).created = "2014"
BY DEF Again, generate, generate_keys, sc_reduce32, scalarmultBase, Keyed, Shown

(* SameAgain: the number and the scalar of what generate makes, and both   *)
(* again of what is recovered from either.                                 *)
LEMMA SameAgain ==
  ASSUME AccountInv, account.stage = "recovered"
  PROVE  LET first == account.made.spend
             again == account.again.spend
         IN  /\ again.pub = first.pub /\ again.sec = first.sec
             /\ account.from = "returned" \/ first.rng = first.sec => again.rng = first.rng
<1>1. PICK rng \in Nat : account.made.spend = Keyed(rng)
  <2> DEFINE q == account.asked
  <2>1. q \in Generated /\ account.made = Made(q)
    BY DEF AccountInv
  <2>2. (IF q.recover THEN q.recovery_key ELSE q.draw[1]) \in Nat
    BY <2>1, GeneratedAssumption
  <2>3. Made(q).spend = Keyed(IF q.recover THEN q.recovery_key ELSE q.draw[1])
    BY MadeOf
  <2> HIDE DEF q
  <2> QED BY <2>1, <2>2, <2>3
<1>2. account.again.spend = Keyed(Written)
  BY AgainOf DEF AccountInv
<1>3. (rng % l) % l = rng % l
  BY <1>1, Reduced, SMTT(30)
<1>4. account.from = "returned" => Written = rng
  BY <1>1 DEF Written, Keyed
<1>5. Written = rng \/ Written = rng % l
  BY <1>1 DEF Written, Keyed
<1> QED BY <1>1, <1>2, <1>3, <1>4, <1>5 DEF Keyed

(* RecoversAccounts: whatever number an account was made of, drawn or      *)
(* recovered, below the order of the group or past it, who recovers it     *)
(* from what was written down has its keys, as far as that tells them.     *)
THEOREM RecoversAccounts == Spec => []RecoveredIsSame
<1>1. Init => AccountInv
  BY DEF Init, Idle, OthersIdle, AccountInit, AccountInv, set_null
<1>2. AccountInv => RecoveredIsSame
  <2> SUFFICES ASSUME AccountInv, account.stage = "recovered" PROVE RecoveredIsSame
    BY DEF RecoveredIsSame
  <2> DEFINE q == account.asked
             first == account.made.spend
             again == account.again.spend
  <2>1. /\ again.pub = first.pub /\ again.sec = first.sec
        /\ account.from = "returned" \/ first.rng = first.sec => again.rng = first.rng
    BY SameAgain
  <2>2. account.again.created = "2014" /\ account.again.view = Shown(again, q.legacy)
    <3>1. account.again = Again(Written, q.legacy)
      BY DEF AccountInv
    <3>2. /\ Again(Written, q.legacy).spend = Keyed(Written)
          /\ Again(Written, q.legacy).view = Shown(Keyed(Written), q.legacy)
          /\ Again(Written, q.legacy).created = "2014"
      BY AgainOf
    <3> QED BY <3>1, <3>2
  <2>3. ASSUME ~q.two_random, account.from = "returned" \/ ~q.legacy \/ first.rng = first.sec
        PROVE  account.again.view.pub = account.made.view.pub /\ account.again.view.sec = account.made.view.sec
    <3>1. q \in Generated /\ q.two_random = FALSE /\ account.made = Made(q)
      BY <2>3, GeneratedAssumption DEF AccountInv
    <3>2. account.made.view = Shown(first, q.legacy)
      BY <3>1, MadeOf
    <3>3. Shown(again, q.legacy) = Shown(first, q.legacy)
      BY <2>1, <2>3 DEF Shown
    <3> QED BY <2>2, <3>2, <3>3
  <2> QED BY <2>1, <2>2, <2>3 DEF RecoveredIsSame
<1> QED
  BY <1>1, <1>2, AccountStep, PTL DEF Spec

-----------------------------------------------------------------------------
(* Ring signatures: sums, hashes and what they are of.                     *)

(* Upwards: a set that holds 0, and with a number the next one, holds all  *)
(* numbers.                                                                *)
LEMMA Upwards ==
  ASSUME NEW P, 0 \in P, \A n \in Nat : n \in P => n + 1 \in P
  PROVE  Nat \subseteq P
<1> SUFFICES ASSUME NEW n \in Nat, n \notin P PROVE FALSE
  OBVIOUS
<1> DEFINE TT == {1 .. x : x \in (1 .. n) \ P}
<1>1. IsWellFoundedOn(StrictSubsetOrdering(1 .. n), FiniteSubsetsOf(1 .. n))
  BY FS_StrictSubsetOrderingWellFounded
<1>2. TT \subseteq FiniteSubsetsOf(1 .. n) /\ TT # {}
  <2>1. ASSUME NEW x \in (1 .. n) \ P PROVE 1 .. x \in FiniteSubsetsOf(1 .. n)
    BY FS_Interval DEF FiniteSubsetsOf
  <2>2. n \in (1 .. n) \ P
    OBVIOUS
  <2> QED BY <2>1, <2>2
<1>3. PICK z \in TT : \A w \in TT : <<w, z>> \notin StrictSubsetOrdering(1 .. n)
  <2> HIDE DEF TT
  <2> QED BY <1>1, <1>2, WFMin
<1>4. PICK x \in (1 .. n) \ P : z = 1 .. x
  OBVIOUS
<1>5. x - 1 \in Nat /\ x - 1 \notin P /\ x - 1 \in (1 .. n) \ P
  <2>1. x - 1 \in Nat /\ x - 1 + 1 = x
    BY <1>4
  <2>2. x - 1 \notin P
    BY <1>4, <2>1
  <2> QED BY <1>4, <2>1, <2>2
<1>6. 1 .. x - 1 \in TT
  BY <1>5
<1>7. <<1 .. x - 1, 1 .. x>> \in StrictSubsetOrdering(1 .. n)
  <2>1. 1 .. x - 1 \subseteq 1 .. x /\ x \in 1 .. x /\ x \notin 1 .. x - 1
    BY <1>4
  <2>2. 1 .. x - 1 \subseteq 1 .. n /\ 1 .. x \subseteq 1 .. n
    BY <1>4
  <2> QED BY <2>1, <2>2 DEF StrictSubsetOrdering
<1> QED BY <1>3, <1>4, <1>6, <1>7

(* Iterated: what is found by steps, each from the one before.             *)
Steps(h, n, v, F) == h[0] = v /\ \A i \in 1 .. n : h[i] = F[i][h[i - 1]]

LEMMA Iterated ==
  ASSUME NEW n \in Nat, NEW V, NEW v \in V, NEW F \in [1 .. n -> [V -> V]]
  PROVE  \E h \in [0 .. n -> V] : Steps(h, n, v, F)
<1> DEFINE P == {k \in Nat : k <= n => \E h \in [0 .. k -> V] : Steps(h, k, v, F)}
<1>1. 0 \in P
  <2> DEFINE h == [i \in 0 .. 0 |-> v]
  <2>1. h \in [0 .. 0 -> V] /\ Steps(h, 0, v, F)
    BY DEF Steps
  <2> QED BY <2>1
<1>2. ASSUME NEW k \in Nat, k \in P PROVE k + 1 \in P
  <2> SUFFICES ASSUME k + 1 <= n PROVE \E h \in [0 .. k + 1 -> V] : Steps(h, k + 1, v, F)
    OBVIOUS
  <2>1. PICK h \in [0 .. k -> V] : Steps(h, k, v, F)
    BY <1>2
  <2> DEFINE g == [i \in 0 .. k + 1 |-> IF i = k + 1 THEN F[k + 1][h[k]] ELSE h[i]]
  <2>2. k + 1 \in 1 .. n /\ F[k + 1] \in [V -> V] /\ h[k] \in V
    OBVIOUS
  <2>3. g \in [0 .. k + 1 -> V]
    BY <2>2
  <2>4. g[0] = v
    BY <2>1 DEF Steps
  <2>5. ASSUME NEW i \in 1 .. k + 1 PROVE g[i] = F[i][g[i - 1]]
    <3>1. g[i - 1] = h[i - 1]
      OBVIOUS
    <3>2. i # k + 1 => h[i] = F[i][h[i - 1]]
      BY <2>1 DEF Steps
    <3>3. CASE i = k + 1
      <4>1. g[i] = F[i][h[k]] /\ i - 1 = k
        BY <3>3
      <4> QED BY <3>1, <4>1
    <3>4. CASE i # k + 1
      <4>1. g[i] = h[i]
        BY <3>4
      <4> QED BY <3>1, <3>2, <3>4, <4>1
    <3> QED BY <3>3, <3>4
  <2> HIDE DEF g
  <2> QED BY <2>3, <2>4, <2>5 DEF Steps
<1>3. Nat \subseteq P
  <2> HIDE DEF P
  <2> QED BY <1>1, <1>2, Upwards
<1> QED BY <1>3

(* Hashes: a hash of numbers is a number.                                  *)
LEMMA Hashes ==
  ASSUME NEW from \in Int, NEW keys \in Seq(Int)
  PROVE  Mixed(from, keys) \in Int
<1> DEFINE n == Len(keys)
           next(v, i) == LET t == (v + 7919 * keys[i] + 101 * (keys[i] \div l) + 4111) % l
                         IN  (((t * t) % l) * (t + 1717)) % l
           F == [i \in 1 .. n |-> [v \in Int |-> next(v, i)]]
           Is(h) == h = [i \in 0 .. n |-> IF i = 0 THEN from ELSE next(h[i - 1], i)]
           H0 == CHOOSE h : Is(h)
<1>1. l \in Nat \ {0} /\ \A x \in Int : x % l \in Int
  BY Reduced DEF Scalar
<1>2. n \in Nat /\ \A i \in 1 .. n : keys[i] \in Int
  OBVIOUS
<1>3. ASSUME NEW i \in 1 .. n, NEW v \in Int PROVE next(v, i) \in Int
  <2>1. keys[i] \in Int /\ keys[i] \div l \in Int
    BY <1>1, <1>2, DivMod
  <2> DEFINE t == (v + 7919 * keys[i] + 101 * (keys[i] \div l) + 4111) % l
  <2>2. t \in Int
    <3> DEFINE key == keys[i]
               above == keys[i] \div l
               whole == v + 7919 * key + 101 * above + 4111
    <3>1. key \in Int /\ above \in Int
      BY <2>1
    <3> HIDE DEF key, above
    <3>2. whole \in Int
      BY <3>1
    <3> HIDE DEF whole
    <3>3. whole % l \in Int
      BY <1>1, <3>2
    <3> QED BY <3>3 DEF whole, key, above
  <2> HIDE DEF t
  <2>3. (t * t) % l \in Int
    BY <1>1, <2>2
  <2>4. (((t * t) % l) * (t + 1717)) % l \in Int
    BY <1>1, <2>2, <2>3
  <2> QED BY <2>4 DEF t
<1> HIDE DEF next
<1>4. F \in [1 .. n -> [Int -> Int]]
  BY <1>3
<1>5. PICK h \in [0 .. n -> Int] : Steps(h, n, from, F)
  <2> HIDE DEF F, n
  <2> QED BY <1>2, <1>4, Iterated
<1>6. Is(h)
  <2>1. ASSUME NEW i \in 1 .. n PROVE h[i] = next(h[i - 1], i)
    <3>1. h[i] = F[i][h[i - 1]]
      BY <1>5 DEF Steps
    <3>2. h[i - 1] \in Int
      <4>1. i - 1 \in 0 .. n
        BY <1>2
      <4> QED BY <1>5, <4>1
    <3> QED BY <3>1, <3>2
  <2>2. \A i \in 0 .. n : h[i] = IF i = 0 THEN from ELSE next(h[i - 1], i)
    BY <1>2, <1>5, <2>1 DEF Steps
  <2> QED BY <1>5, <2>2
<1>7. Is(H0)
  <2> HIDE DEF Is
  <2> QED BY <1>6
<1>8. \A k \in Nat : k <= n => H0[k] \in Int
  <2> DEFINE P == {k \in Nat : k <= n => H0[k] \in Int}
  <2> HIDE DEF H0
  <2>1. 0 \in P
    BY <1>2, <1>7
  <2>2. ASSUME NEW k \in Nat, k \in P PROVE k + 1 \in P
    <3> SUFFICES ASSUME k + 1 <= n PROVE H0[k + 1] \in Int
      OBVIOUS
    <3>1. H0[k + 1] = next(H0[k], k + 1) /\ H0[k] \in Int /\ k + 1 \in 1 .. n
      BY <1>2, <1>7, <2>2
    <3> QED BY <1>3, <3>1
  <2>3. Nat \subseteq P
    <3> HIDE DEF P
    <3> QED BY <2>1, <2>2, Upwards
  <2> QED BY <2>3
<1>9. Mixed(from, keys) = H0[n]
  BY DEF Mixed, next
<1> QED BY <1>2, <1>8, <1>9

(* Totals: the partial sums of AddedUp.                                    *)
Totals(s, f, n) ==
  /\ s \in [0 .. n -> Scalar] /\ s[0] = 0
  /\ \A i \in 1 .. n : s[i] = (s[i - 1] + f[i]) % l

LEMMA Total ==
  ASSUME NEW n \in Nat, NEW f, \A i \in 1 .. n : f[i] \in Int
  PROVE  \E s : Totals(s, f, n) /\ AddedUp(f, n) = s[n]
<1> DEFINE F == [i \in 1 .. n |-> [v \in Scalar |-> (v + f[i]) % l]]
           Is(s) == s = [i \in 0 .. n |-> IF i = 0 THEN 0 ELSE (s[i - 1] + f[i]) % l]
           S0 == CHOOSE s : Is(s)
<1>1. 0 \in Scalar
  BY Reduced DEF Scalar
<1>2. ASSUME NEW i \in 1 .. n, NEW v \in Scalar PROVE (v + f[i]) % l \in Scalar
  <2>1. v + f[i] \in Int
    BY Reduced
  <2> QED BY <2>1, Reduced
<1>3. F \in [1 .. n -> [Scalar -> Scalar]]
  BY <1>2
<1>4. PICK h \in [0 .. n -> Scalar] : Steps(h, n, 0, F)
  <2> HIDE DEF F
  <2> QED BY <1>1, <1>3, Iterated
<1>5. Is(h)
  <2>1. ASSUME NEW i \in 1 .. n PROVE h[i] = (h[i - 1] + f[i]) % l
    <3>1. h[i] = F[i][h[i - 1]]
      BY <1>4 DEF Steps
    <3>2. h[i - 1] \in Scalar
      BY <1>4
    <3> QED BY <3>1, <3>2
  <2>2. ASSUME NEW i \in 0 .. n PROVE h[i] = IF i = 0 THEN 0 ELSE (h[i - 1] + f[i]) % l
    <3>1. h[0] = 0
      BY <1>4 DEF Steps
    <3>2. i # 0 => i \in 1 .. n
      OBVIOUS
    <3> QED BY <2>1, <3>1, <3>2
  <2> QED BY <1>4, <2>2
<1>6. Is(S0)
  <2> HIDE DEF Is
  <2> QED BY <1>5
<1>7. \A k \in Nat : k <= n => S0[k] \in Scalar
  <2> DEFINE P == {k \in Nat : k <= n => S0[k] \in Scalar}
  <2> HIDE DEF S0
  <2>1. 0 \in P
    BY <1>1, <1>6
  <2>2. ASSUME NEW k \in Nat, k \in P PROVE k + 1 \in P
    <3> SUFFICES ASSUME k + 1 <= n PROVE S0[k + 1] \in Scalar
      OBVIOUS
    <3>1. S0[k + 1] = (S0[k] + f[k + 1]) % l /\ S0[k] \in Scalar /\ k + 1 \in 1 .. n
      BY <1>6, <2>2
    <3> QED BY <1>2, <3>1
  <2>3. Nat \subseteq P
    <3> HIDE DEF P
    <3> QED BY <2>1, <2>2, Upwards
  <2> QED BY <2>3
<1>8. Totals(S0, f, n)
  <2> HIDE DEF S0
  <2>1. S0 = [i \in 0 .. n |-> S0[i]] /\ \A i \in 0 .. n : S0[i] \in Scalar
    BY <1>6, <1>7
  <2>2. S0 \in [0 .. n -> Scalar]
    BY <2>1
  <2>3. ASSUME NEW i \in 0 .. n PROVE S0[i] = IF i = 0 THEN 0 ELSE (S0[i - 1] + f[i]) % l
    BY <1>6
  <2>4. S0[0] = 0
    BY <2>3
  <2>5. ASSUME NEW i \in 1 .. n PROVE S0[i] = (S0[i - 1] + f[i]) % l
    <3>1. i \in 0 .. n /\ i # 0
      OBVIOUS
    <3> QED BY <2>3, <3>1
  <2> QED BY <2>2, <2>4, <2>5 DEF Totals
<1>9. AddedUp(f, n) = S0[n]
  BY DEF AddedUp
<1> QED BY <1>8, <1>9

(* AddReduced: sums and products of what is reduced before or after.       *)
LEMMA AddReduced ==
  ASSUME NEW a \in Int, NEW b \in Int
  PROVE  /\ ((a % l) + b) % l = (a + b) % l
         /\ (b + (a % l)) % l = (a + b) % l
         /\ (b - (a % l)) % l = (b - a) % l
<1> DEFINE q == a \div l
           r == a % l
<1>1. l \in Int /\ l > 0
  BY Reduced
<1>2. a = l * q + r /\ q \in Int /\ r \in Int
  BY <1>1, DivMod
<1> HIDE DEF q, r
<1>3. ASSUME NEW x \in Int, NEW y \in Int, NEW k \in Int, x = l * k + y PROVE x % l = y % l
  <2> DEFINE p == y \div l
             z == y % l
  <2>1. y = l * p + z /\ p \in Int /\ z \in Int /\ 0 <= z /\ z < l
    BY <1>1, DivMod
  <2> HIDE DEF p, z
  <2>2. l * (k + p) = l * k + l * p
    BY <1>1, <2>1
  <2>3. x = l * (k + p) + z
    BY <1>1, <1>3, <2>1, <2>2
  <2>4. k + p \in Int
    BY <2>1
  <2> QED BY <1>1, <2>1, <2>3, <2>4, Quotient DEF z
<1>4. (a + b) % l = (r + b) % l
  <2>1. a + b = l * q + (r + b)
    BY <1>1, <1>2
  <2> QED BY <1>2, <1>3, <2>1
<1>5. (b - a) % l = (b - r) % l
  <2>1. b - r = l * q + (b - a)
    BY <1>1, <1>2
  <2> QED BY <1>2, <1>3, <2>1
<1>6. b + r = r + b
  BY <1>2
<1> QED BY <1>4, <1>5, <1>6 DEF r

LEMMA MulReduced ==
  ASSUME NEW a \in Int, NEW b \in Int
  PROVE  ((a % l) * b) % l = (a * b) % l /\ (b * (a % l)) % l = (a * b) % l
<1> DEFINE q == a \div l
           r == a % l
           p == (r * b) \div l
           z == (r * b) % l
<1>1. l \in Int /\ l > 0
  BY Reduced
<1>2. a = l * q + r /\ q \in Int /\ r \in Int
  BY <1>1, DivMod
<1>3. r * b \in Int
  BY <1>2
<1>4. r * b = l * p + z /\ p \in Int /\ z \in Int /\ 0 <= z /\ z < l
  BY <1>1, <1>3, DivMod
<1> HIDE DEF q, r, p, z
<1>5. a * b = (l * q) * b + r * b
  BY <1>1, <1>2
<1>6. (l * q) * b = l * (q * b) /\ q * b \in Int
  BY <1>1, <1>2
<1> DEFINE w == q * b
<1> HIDE DEF w
<1>7. a * b = l * w + (l * p + z) /\ w \in Int
  BY <1>4, <1>5, <1>6 DEF w
<1>8. l * (w + p) = l * w + l * p
  BY <1>1, <1>4, <1>7
<1>9. a * b = l * (w + p) + z /\ w + p \in Int
  BY <1>1, <1>4, <1>7, <1>8
<1>10. (a * b) % l = z
  <2>1. a * b \in Int
    BY <1>2
  <2> QED BY <1>1, <1>4, <1>9, <2>1, Quotient
<1>11. b * r = r * b
  BY <1>2
<1> QED BY <1>10, <1>11 DEF r, z

(* Closed: the challenge of the one who signs makes the sum the hash.      *)
LEMMA Closing ==
  ASSUME NEW n \in Nat, NEW at \in 1 .. n, NEW hash \in Int, NEW f, NEW g,
         \A i \in 1 .. n : f[i] \in Int /\ g[i] \in Int,
         \A i \in 1 .. n : i # at => g[i] = f[i],
         f[at] = 0, g[at] = sc_sub(hash, AddedUp(f, n))
  PROVE  sc_sub(hash, AddedUp(g, n)) = 0
<1>1. PICK s : Totals(s, f, n) /\ AddedUp(f, n) = s[n]
  BY Total
<1>2. PICK t : Totals(t, g, n) /\ AddedUp(g, n) = t[n]
  BY Total
<1>3. \A k \in 0 .. n : s[k] \in Scalar /\ t[k] \in Scalar /\ s[k] \in Int /\ t[k] \in Int
  BY <1>1, <1>2, Reduced DEF Totals
<1> DEFINE c == g[at]
<1>4. c \in Int
  OBVIOUS
<1> DEFINE P == {k \in Nat : k <= n => t[k] = IF k < at THEN s[k] ELSE (s[k] + c) % l}
<1>5. 0 \in P
  BY <1>1, <1>2 DEF Totals
<1>6. ASSUME NEW k \in Nat, k \in P PROVE k + 1 \in P
  <2> SUFFICES ASSUME k + 1 <= n PROVE t[k + 1] = IF k + 1 < at THEN s[k + 1] ELSE (s[k + 1] + c) % l
    OBVIOUS
  <2>1. k + 1 \in 1 .. n /\ k \in 0 .. n /\ k + 1 - 1 = k
    OBVIOUS
  <2>2. t[k + 1] = (t[k] + g[k + 1]) % l
    BY <1>2, <2>1 DEF Totals
  <2>3. s[k + 1] = (s[k] + f[k + 1]) % l
    BY <1>1, <2>1 DEF Totals
  <2>4. s[k] \in Scalar /\ s[k] \in Int /\ s[k] % l = s[k]
    BY <1>3, <2>1, Reduced
  <2>5. CASE k + 1 < at
    BY <1>6, <2>1, <2>2, <2>3, <2>5
  <2>6. CASE k + 1 = at
    <3>1. t[k] = s[k] /\ f[k + 1] = 0
      BY <1>6, <2>1, <2>6
    <3>2. s[k + 1] = s[k]
      BY <2>3, <2>4, <3>1
    <3> QED BY <2>2, <2>6, <3>1, <3>2
  <2>7. CASE k + 1 > at
    <3> DEFINE x == s[k]
               y == f[k + 1]
    <3>1. t[k] = (x + c) % l /\ g[k + 1] = y /\ y \in Int /\ x \in Int
      BY <1>6, <2>1, <2>4, <2>7
    <3>2. t[k + 1] = (((x + c) % l) + y) % l /\ s[k + 1] = (x + y) % l
      BY <2>2, <2>3, <3>1
    <3> HIDE DEF x, y, c
    <3>3. x + c \in Int /\ x + y \in Int
      BY <1>4, <3>1
    <3>4. (((x + c) % l) + y) % l = (x + c + y) % l
      BY <3>1, <3>3, AddReduced
    <3>5. (((x + y) % l) + c) % l = (x + y + c) % l
      BY <1>4, <3>1, <3>3, AddReduced
    <3>6. x + c + y = x + y + c
      BY <1>4, <3>1
    <3> QED BY <2>7, <3>2, <3>4, <3>5, <3>6
  <2> QED BY <2>1, <2>5, <2>6, <2>7
<1>7. Nat \subseteq P
  <2> HIDE DEF P
  <2> QED BY <1>5, <1>6, Upwards
<1>8. t[n] = (s[n] + c) % l
  BY <1>7
<1> DEFINE x == s[n]
<1>9. x \in Int /\ c = (hash - x) % l /\ AddedUp(g, n) = (x + c) % l
  BY <1>1, <1>2, <1>3, <1>8 DEF sc_sub
<1> HIDE DEF x, c
<1>10. (hash - ((x + c) % l)) % l = (hash - (x + c)) % l
  <2>1. x + c \in Int
    BY <1>4, <1>9
  <2> QED BY <2>1, AddReduced
<1> DEFINE d == hash - x
<1>11. d \in Int /\ hash - (x + c) = d - c /\ c = d % l
  BY <1>4, <1>9
<1> HIDE DEF d
<1>12. (d - (d % l)) % l = (d - d) % l
  BY <1>11, AddReduced
<1>13. (d - d) % l = 0
  <2>1. d - d = 0 /\ 0 \in Scalar
    BY <1>11, Reduced DEF Scalar
  <2> QED BY <2>1, Reduced
<1> QED BY <1>9, <1>10, <1>11, <1>12, <1>13 DEF sc_sub

(* Opening: at the place of the one who signs, the challenge and the       *)
(* response lead back to what was committed to.                            *)
LEMMA Opening ==
  ASSUME NEW sec \in Int, NEW base \in Int, NEW k \in Scalar, NEW c \in Int
  PROVE  LET r == sc_mulsub(c, sec, k)
             image == scalarmultKey(base, sec)
         IN  /\ addKeys2(r, c, sec) = k
             /\ addKeys3(r, base, c, image) = scalarmultKey(base, k)
<1> DEFINE r == (k - c * sec) % l
           m == c * sec
           e == base * (k - m)
           u == base * sec
           w == u * c
<1>1. l \in Int /\ l > 0 /\ k \in Int /\ k % l = k /\ m \in Int /\ k - m \in Int
  BY Reduced
<1>2. r = (k - m) % l /\ r \in Int
  BY <1>1, DivMod
<1>3. e \in Int /\ u \in Int /\ w \in Int /\ u % l \in Int
  BY <1>1, DivMod
<1>4. sec * c = m
  OBVIOUS
<1>5. e + w = base * k
  <2>1. e = base * k - base * m
    BY <1>1
  <2>2. w = base * m
    OBVIOUS
  <2> QED BY <1>1, <1>3, <2>1, <2>2
<1> HIDE DEF r, m, e, u, w
<1>6. (r + (m % l)) % l = k
  <2>1. (r + (m % l)) % l = (m + r) % l
    BY <1>1, <1>2, AddReduced
  <2>2. (m + ((k - m) % l)) % l = (k - m + m) % l
    BY <1>1, AddReduced
  <2>3. k - m + m = k
    BY <1>1
  <2> QED BY <1>1, <1>2, <2>1, <2>2, <2>3
<1>7. (base * r) % l = e % l
  <2>1. (base * ((k - m) % l)) % l = ((k - m) * base) % l
    BY <1>1, MulReduced
  <2>2. (k - m) * base = e
    BY <1>1 DEF e
  <2> QED BY <1>2, <2>1, <2>2
<1>8. ((u % l) * c) % l = w % l
  BY <1>3, MulReduced DEF w
<1>9. ((e % l) + (w % l)) % l = (base * k) % l
  <2>1. ((e % l) + (w % l)) % l = (e + (w % l)) % l
    <3>1. w % l \in Int
      BY <1>1, <1>3, DivMod
    <3> QED BY <1>3, <3>1, AddReduced
  <2>2. (e + (w % l)) % l = (w + e) % l
    BY <1>3, AddReduced
  <2>3. w + e = base * k
    BY <1>3, <1>5
  <2> QED BY <2>1, <2>2, <2>3
<1>10. addKeys2(r, c, sec) = k
  BY <1>4, <1>6 DEF addKeys2, addKeys, scalarmultBase, scalarmultKey
<1>11. addKeys3(r, base, c, scalarmultKey(base, sec)) = scalarmultKey(base, k)
  BY <1>7, <1>8, <1>9 DEF addKeys3, addKeys, scalarmultKey, u
<1> QED BY <1>10, <1>11 DEF sc_mulsub, r

(* Scalars: what is drawn, and points that are hashed to, are scalars.     *)
LEMMA Scalars ==
  /\ \A draw \in Seq(Int) : random_scalar(draw) \in Scalar
  /\ \A key \in Int : hash_to_ec(key) \in Scalar
<1>1. l \in Int /\ l > 1
  BY Reduced
<1>2. ASSUME NEW draw \in Seq(Int) PROVE random_scalar(draw) \in Scalar
  <2> DEFINE m == Mixed(3, draw)
             z == m % (l - 1)
  <2>1. m \in Int
    BY <1>2, Hashes
  <2>2. l - 1 \in Int /\ l - 1 > 0
    BY <1>1
  <2>3. z \in Int /\ 0 <= z /\ z < l - 1
    <3> HIDE DEF m
    <3> QED BY <2>1, <2>2, DivMod
  <2>4. random_scalar(draw) = 1 + z
    BY DEF random_scalar
  <2> HIDE DEF z
  <2> QED BY <1>1, <2>3, <2>4 DEF Scalar
<1>3. ASSUME NEW key \in Int PROVE hash_to_ec(key) \in Scalar
  <2> DEFINE keys == <<key>>
  <2>1. keys \in Seq(Int)
    BY <1>3
  <2>2. Mixed(2, keys) \in Int
    <3> HIDE DEF keys
    <3> QED BY <2>1, Hashes
  <2>3. Mixed(2, <<key>>) * 8 \in Int
    BY <2>2
  <2> QED BY <2>3, Reduced DEF hash_to_ec, scalarmult8, scalarmultKey
<1> QED BY <1>2, <1>3

(* Commitments: the hash of a prefix and of points.                        *)
LEMMA Commitments ==
  ASSUME NEW prefix \in Int, NEW n \in Nat, NEW ab, ab \in [1 .. n -> [a : Int, b : Int]]
  PROVE  commitments(prefix, ab) \in Int
<1> DEFINE points == [m \in 1 .. 2 * Len(ab) |-> ab[(m + 1) \div 2][IF m % 2 = 1 THEN "a" ELSE "b"]]
<1>1. Len(ab) = n
  OBVIOUS
<1>2. ASSUME NEW m \in 1 .. 2 * n PROVE ab[(m + 1) \div 2][IF m % 2 = 1 THEN "a" ELSE "b"] \in Int
  <2>1. (m + 1) \div 2 \in 1 .. n
    OBVIOUS
  <2> QED BY <2>1
<1>3. points \in [1 .. 2 * n -> Int]
  BY <1>1, <1>2
<1> HIDE DEF points
<1>4. points \in Seq(Int) /\ <<prefix>> \in Seq(Int)
  BY <1>3
<1> DEFINE keys == <<prefix>> \o points
<1>5. keys \in Seq(Int)
  BY <1>4
<1>6. Mixed(1, keys) \in Int
  <2> HIDE DEF keys
  <2> QED BY <1>5, Hashes
<1>7. commitments(prefix, ab) = Mixed(1, <<prefix>> \o points) % l
  BY DEF commitments, hash_to_scalar, sc_reduce32, cn_fast_hash, points
<1> QED BY <1>6, <1>7, Reduced DEF Scalar

(* Complete: what is signed with the secret of a member, under that key's  *)
(* image, is valid.                                                        *)
LEMMA Complete ==
  ASSUME NEW pubs \in Seq(Int), NEW at \in 1 .. Len(pubs), NEW prefix \in Int, NEW draw \in Int,
         NEW image, image = generate_key_image(pubs[at], pubs[at])
  PROVE  check_ring_signature(prefix, image, pubs,
           generate_ring_signature(prefix, image, pubs, pubs[at], at, draw))
<1> DEFINE n == Len(pubs)
           sec == pubs[at]
           k == random_scalar(<<draw, at, 0>>)
           drawn == [i \in 1 .. n |-> [c |-> random_scalar(<<draw, i, 1>>), r |-> random_scalar(<<draw, i, 2>>)]]
           ab == [i \in 1 .. n |->
                    IF i = at THEN [a |-> scalarmultBase(k), b |-> scalarmultKey(hash_to_ec(pubs[i]), k)]
                    ELSE committed(pubs[i], image, drawn[i])]
           f == [i \in 1 .. n |-> IF i = at THEN 0 ELSE drawn[i].c]
           hash == commitments(prefix, ab)
           c == sc_sub(hash, AddedUp(f, n))
           own == [c |-> c, r |-> sc_mulsub(c, sec, k)]
           sig == [drawn EXCEPT ![at] = own]
           g == [i \in 1 .. n |-> sig[i].c]
<1>1. generate_ring_signature(prefix, image, pubs, pubs[at], at, draw) = sig
  BY DEF generate_ring_signature
<1>2. n \in Nat /\ at \in 1 .. n /\ sec \in Int /\ \A i \in 1 .. n : i \in Int /\ pubs[i] \in Int
  OBVIOUS
<1>3. k \in Scalar /\ \A i \in 1 .. n : drawn[i] \in [c : Scalar, r : Scalar]
  <2>1. ASSUME NEW i \in 1 .. n, NEW m \in Int PROVE random_scalar(<<draw, i, m>>) \in Scalar
    <3> DEFINE d == <<draw, i, m>>
    <3>1. d \in Seq(Int)
      BY <1>2
    <3> HIDE DEF d
    <3>2. random_scalar(d) \in Scalar
      BY <3>1, Scalars
    <3> QED BY <3>2 DEF d
  <2>2. \A i \in 1 .. n : random_scalar(<<draw, i, 1>>) \in Scalar /\ random_scalar(<<draw, i, 2>>) \in Scalar
    BY <2>1
  <2>3. k \in Scalar
    BY <2>1
  <2> QED BY <2>2, <2>3
<1>4. drawn \in [1 .. n -> [c : Scalar, r : Scalar]]
  BY <1>3
<1>5. \A i \in 1 .. n : hash_to_ec(pubs[i]) \in Int
  BY <1>2, Scalars, Reduced
<1>6. image = scalarmultKey(hash_to_ec(sec), sec) /\ image \in Int
  <2>1. image = scalarmultKey(hash_to_ec(sec), sec)
    BY DEF generate_key_image
  <2>2. hash_to_ec(sec) * sec \in Int
    BY <1>2, <1>5
  <2> QED BY <2>1, <2>2, Reduced DEF scalarmultKey
<1> HIDE DEF drawn, k
<1>7. \A i \in 1 .. n : committed(pubs[i], image, drawn[i]) \in [a : Int, b : Int]
  <2> SUFFICES ASSUME NEW i \in 1 .. n PROVE committed(pubs[i], image, drawn[i]) \in [a : Int, b : Int]
    OBVIOUS
  <2> DEFINE p == pubs[i]
             h == hash_to_ec(p)
             dc == drawn[i].c
             dr == drawn[i].r
  <2>1. p \in Int /\ h \in Int /\ dc \in Int /\ dr \in Int
    BY <1>2, <1>4, <1>5, Reduced
  <2>2. committed(p, image, drawn[i]) = [a |-> (dr + ((p * dc) % l)) % l, b |-> (((h * dr) % l) + ((image * dc) % l)) % l]
    BY DEF committed, addKeys2, addKeys3, addKeys, scalarmultBase, scalarmultKey
  <2> HIDE DEF p, h, dc, dr
  <2>3. (p * dc) % l \in Int /\ (h * dr) % l \in Int /\ (image * dc) % l \in Int
    <3>1. p * dc \in Int /\ h * dr \in Int /\ image * dc \in Int
      BY <1>6, <2>1
    <3> QED BY <3>1, Reduced
  <2>4. (dr + ((p * dc) % l)) % l \in Int /\ (((h * dr) % l) + ((image * dc) % l)) % l \in Int
    <3>1. dr + ((p * dc) % l) \in Int /\ ((h * dr) % l) + ((image * dc) % l) \in Int
      BY <2>1, <2>3
    <3> QED BY <3>1, Reduced
  <2> QED BY <2>2, <2>4 DEF p
<1>8. scalarmultBase(k) \in Int /\ scalarmultKey(hash_to_ec(sec), k) \in Int
  <2>1. k \in Int /\ hash_to_ec(sec) \in Int
    BY <1>2, <1>3, <1>5, Reduced
  <2>2. hash_to_ec(sec) * k \in Int
    BY <2>1
  <2> QED BY <2>1, <2>2, Reduced DEF scalarmultBase, scalarmultKey
<1>9. ab \in [1 .. n -> [a : Int, b : Int]]
  BY <1>7, <1>8
<1>10. hash \in Int
  <2> HIDE DEF ab
  <2> QED BY <1>2, <1>9, Commitments
<1>11. ASSUME NEW i \in 1 .. n PROVE f[i] \in Int
  <2>1. drawn[i].c \in Int
    BY <1>4, Reduced
  <2> QED BY <2>1
<1>12. c \in Scalar
  <2>1. AddedUp(f, n) \in Int
    <3> HIDE DEF f
    <3>1. PICK s : Totals(s, f, n) /\ AddedUp(f, n) = s[n]
      BY <1>2, <1>11, Total
    <3>2. n \in 0 .. n
      BY <1>2
    <3> QED BY <3>1, <3>2, Reduced DEF Totals
  <2>2. hash - AddedUp(f, n) \in Int
    BY <1>10, <2>1
  <2> HIDE DEF hash, f
  <2> QED BY <2>2, Reduced DEF sc_sub
<1> HIDE DEF hash, c
<1>13. own \in [c : Scalar, r : Scalar]
  <2>1. k - c * sec \in Int
    <3>1. k \in Int /\ c \in Int
      BY <1>3, <1>12, Reduced
    <3> QED BY <1>2, <3>1
  <2>2. (k - c * sec) % l \in Scalar
    BY <2>1, Reduced
  <2> QED BY <1>12, <2>2 DEF sc_mulsub
<1>14. sig[at] = own /\ \A i \in 1 .. n : i # at => sig[i] = drawn[i]
  BY <1>2, <1>4
<1>15. \A i \in 1 .. n : sig[i] \in [c : Scalar, r : Scalar]
  BY <1>4, <1>13, <1>14
<1> HIDE DEF sig
<1>16. committed(sec, image, own) = [a |-> scalarmultBase(k), b |-> scalarmultKey(hash_to_ec(sec), k)]
  <2>1. sec \in Int /\ hash_to_ec(sec) \in Int /\ c \in Int
    BY <1>2, <1>5, <1>12, Reduced
  <2>2. /\ addKeys2(sc_mulsub(c, sec, k), c, sec) = k
        /\ addKeys3(sc_mulsub(c, sec, k), hash_to_ec(sec), c, image) = scalarmultKey(hash_to_ec(sec), k)
    <3> HIDE DEF sec
    <3> QED BY <1>3, <1>6, <2>1, Opening
  <2> QED BY <2>2 DEF committed, scalarmultBase
<1>17. [i \in 1 .. n |-> committed(pubs[i], image, sig[i])] = ab
  <2>1. ASSUME NEW i \in 1 .. n PROVE committed(pubs[i], image, sig[i]) = ab[i]
    BY <1>14, <1>16
  <2> QED BY <2>1
<1>18. sc_sub(hash, AddedUp(g, n)) = 0
  <2>1. \A i \in 1 .. n : f[i] \in Int /\ g[i] \in Int
    BY <1>11, <1>15, Reduced
  <2>2. \A i \in 1 .. n : i # at => g[i] = f[i]
    BY <1>14
  <2>3. f[at] = 0
    BY <1>2
  <2>4. g[at] = c
    BY <1>2, <1>14
  <2>5. c = sc_sub(hash, AddedUp(f, n))
    BY DEF c
  <2> HIDE DEF f, g
  <2> QED BY <1>2, <1>10, <2>1, <2>2, <2>3, <2>4, <2>5, Closing
<1>19. \A i \in 1 .. n : sc_check(sig[i].c) /\ sc_check(sig[i].r)
  <2> SUFFICES ASSUME NEW i \in 1 .. n PROVE sc_check(sig[i].c) /\ sc_check(sig[i].r)
    OBVIOUS
  <2>1. sig[i].c \in Scalar /\ sig[i].r \in Scalar
    BY <1>15
  <2>2. l \in Int
    BY Reduced
  <2> QED BY <2>1, <2>2 DEF sc_check, Scalar
<1>20. check_ring_signature(prefix, image, pubs, sig)
  BY <1>17, <1>18, <1>19 DEF check_ring_signature, hash
<1> QED BY <1>1, <1>20

(* A signature that was not altered is the one that was asked for.         *)
AsSigned(q) ==
  /\ ring.prefix = Prefix(q)
  /\ ring.pubs = PubsOf(q)
  /\ ring.image = generate_key_image(ring.pubs[q.image], SecretOf(q, q.image))
  /\ ring.sigs = generate_ring_signature(ring.prefix, ring.image, ring.pubs, SecretOf(q, q.sec), q.at, q.seed)

RingInv ==
  /\ ring = NoRing \/ (ring.stage \in {"signed", "checked"} /\ {"stage", "altered", "verdict"} \subseteq DOMAIN ring)
  /\ ring.stage # "none" /\ ~ring.altered =>
       /\ ring.asked \in Rings /\ AsSigned(ring.asked)
       /\ ring.stage = "checked" => ring.verdict = check_ring_signature(ring.prefix, ring.image, ring.pubs, ring.sigs)

(* RingStep: what alters a signature says so.                              *)
LEMMA RingStep == RingInv /\ [Next]_vars => RingInv'
<1> SUFFICES ASSUME RingInv, [Next]_vars PROVE RingInv'
  OBVIOUS
<1>1. CASE UNCHANGED ring
  BY <1>1 DEF RingInv, AsSigned
<1>2. ASSUME NEW q \in Rings, SignRing(q) PROVE RingInv'
  BY <1>2 DEF SignRing, RingInv, AsSigned
<1>3. ASSUME NEW i, AlterSignature(i) PROVE RingInv'
  <2>1. ring.stage = "signed" /\ {"stage", "altered", "verdict"} \subseteq DOMAIN ring
    BY <1>3 DEF AlterSignature, OnTheWayToCheck, RingInv, NoRing
  <2>2. PICK sigs : ring' = [ring EXCEPT !.sigs = sigs, !.altered = TRUE]
    BY <1>3 DEF AlterSignature
  <2>3. DOMAIN ring' = DOMAIN ring /\ ring'.stage = ring.stage /\ ring'.altered = TRUE
    BY <2>1, <2>2
  <2> QED BY <2>1, <2>3 DEF RingInv
<1>4. ASSUME NEW what, AlterClaim(what) PROVE RingInv'
  BY <1>4 DEF AlterClaim, OnTheWayToCheck, RingInv, NoRing
<1>5. CASE CheckRing
  <2>1. ring.stage = "signed" /\ {"stage", "altered", "verdict"} \subseteq DOMAIN ring
    BY <1>5 DEF CheckRing, RingInv, NoRing
  <2> DEFINE verdict == check_ring_signature(ring.prefix, ring.image, ring.pubs, ring.sigs)
  <2>2. ring' = [ring EXCEPT !.stage = "checked", !.verdict = verdict]
    BY <1>5 DEF CheckRing
  <2> HIDE DEF verdict
  <2>3. /\ DOMAIN ring' = DOMAIN ring /\ ring'.stage = "checked" /\ ring'.verdict = verdict
        /\ ring'.altered = ring.altered /\ ring'.asked = ring.asked
        /\ ring'.prefix = ring.prefix /\ ring'.image = ring.image /\ ring'.pubs = ring.pubs /\ ring'.sigs = ring.sigs
    BY <2>1, <2>2
  <2> QED BY <2>1, <2>3 DEF RingInv, AsSigned, verdict
<1>6. CASE ring' = NoRing
  BY <1>6 DEF RingInv, NoRing
<1>7. UNCHANGED ring \/ RingNext \/ ring' = NoRing
  BY Elsewhere DEF others, keysVars, MakeAccount, SignByRing, PutInOrder, Restart
<1> QED
  BY <1>1, <1>2, <1>3, <1>4, <1>5, <1>6, <1>7 DEF RingNext

(* RingsVerify: a signature by the secret of a member, under that key's    *)
(* image, is valid at every place of a ring of any size, in a group of any *)
(* order, whatever the generator drew.                                     *)
THEOREM RingsVerify == Spec => []RingVerifies
<1>1. Init => RingInv
  BY DEF Init, Idle, OthersIdle, RingInit, RingInv, NoRing
<1>2. RingInv => RingVerifies
  <2> SUFFICES ASSUME RingInv, ring.stage = "checked", ~ring.altered, AssertionsHold(ring.asked) PROVE ring.verdict
    BY DEF RingVerifies
  <2> DEFINE q == ring.asked
             secret(i) == random_scalar(<<q.seed, i, 3>>)
  <2>1. q \in Rings /\ AsSigned(q)
    BY DEF RingInv
  <2>2. ring.verdict = check_ring_signature(ring.prefix, ring.image, ring.pubs, ring.sigs)
    BY DEF RingInv
  <2>3. q.size \in Nat /\ q.seed \in Int /\ q.at \in 1 .. q.size /\ q.sec = q.at /\ q.image = q.at
    BY <2>1, RingsAssumption DEF AssertionsHold
  <2>4. ASSUME NEW i \in 1 .. q.size PROVE secret(i) \in Int
    <3> DEFINE d == <<q.seed, i, 3>>
    <3>1. d \in Seq(Int)
      BY <2>3
    <3> HIDE DEF d
    <3>2. random_scalar(d) \in Scalar
      BY <3>1, Scalars
    <3> QED BY <3>2, Reduced DEF d
  <2>5. ring.pubs = [i \in 1 .. q.size |-> secret(i)]
    BY <2>1 DEF AsSigned, PubsOf, SecretOf, scalarmultBase
  <2> HIDE DEF secret
  <2>6. ring.pubs \in Seq(Int) /\ Len(ring.pubs) = q.size /\ ring.pubs[q.at] = secret(q.at)
    BY <2>3, <2>4, <2>5
  <2>7. ring.prefix \in Int
    <3> DEFINE d == <<q.seed, 4>>
    <3>1. d \in Seq(Int)
      BY <2>3
    <3> HIDE DEF d
    <3>2. Mixed(1, d) \in Int
      BY <3>1, Hashes
    <3> QED BY <2>1, <3>2 DEF AsSigned, Prefix, cn_fast_hash, d
  <2>8. SecretOf(q, q.at) = ring.pubs[q.at]
    BY <2>6 DEF SecretOf, secret
  <2>9. ring.image = generate_key_image(ring.pubs[q.at], ring.pubs[q.at])
    BY <2>1, <2>3, <2>8 DEF AsSigned
  <2>10. ring.sigs = generate_ring_signature(ring.prefix, ring.image, ring.pubs, ring.pubs[q.at], q.at, q.seed)
    BY <2>1, <2>3, <2>8 DEF AsSigned
  <2>11. check_ring_signature(ring.prefix, ring.image, ring.pubs,
           generate_ring_signature(ring.prefix, ring.image, ring.pubs, ring.pubs[q.at], q.at, q.seed))
    BY <2>3, <2>6, <2>7, <2>9, Complete
  <2> QED BY <2>2, <2>10, <2>11
<1> QED
  BY <1>1, <1>2, RingStep, PTL DEF Spec

-----------------------------------------------------------------------------
(* Commitments: first powers of two, sums in the group, and the inverse of *)
(* eight by which the commitments of range proofs are scaled.              *)

(* PowerStep: the subsets of n + 1 numbers are twice as many as those of n.*)
LEMMA PowerStep ==
  ASSUME NEW n \in Nat
  PROVE  2 ^ n \in Nat /\ 2 ^ (n + 1) = 2 * 2 ^ n
<1> DEFINE S == 1 .. n
           x == n + 1
           Smaller == SUBSET S
           Larger == {T \union {x} : T \in Smaller}
<1>1. /\ IsFiniteSet(S) /\ Cardinality(S) = n
      /\ IsFiniteSet(1 .. x) /\ Cardinality(1 .. x) = n + 1
  BY FS_Interval
<1>2. 1 .. x = S \union {x} /\ x \notin S
  OBVIOUS
<1>3. /\ IsFiniteSet(Smaller) /\ Cardinality(Smaller) = 2 ^ n
      /\ IsFiniteSet(SUBSET (1 .. x)) /\ Cardinality(SUBSET (1 .. x)) = 2 ^ (n + 1)
  BY <1>1, FS_SUBSET
<1> HIDE DEF x, S
<1>4. SUBSET (1 .. x) = Smaller \union Larger
  <2>1. SUBSET (1 .. x) \subseteq Smaller \union Larger
    <3>1. ASSUME NEW T \in SUBSET (1 .. x), x \in T PROVE T \in Larger
      <4>1. T \ {x} \in Smaller /\ T = (T \ {x}) \union {x}
        BY <1>2, <3>1
      <4> QED BY <4>1
    <3>2. ASSUME NEW T \in SUBSET (1 .. x), x \notin T PROVE T \in Smaller
      BY <1>2, <3>2
    <3> QED BY <3>1, <3>2
  <2>2. Smaller \union Larger \subseteq SUBSET (1 .. x)
    BY <1>2
  <2> QED BY <2>1, <2>2
<1>5. Smaller \cap Larger = {}
  BY <1>2
<1>6. ExistsBijection(Smaller, Larger)
  <2> DEFINE f == [T \in Smaller |-> T \union {x}]
  <2>1. f \in [Smaller -> Larger]
    OBVIOUS
  <2>2. \A T, U \in Smaller : f[T] = f[U] => T = U
    BY <1>2
  <2>3. \A U \in Larger : \E T \in Smaller : f[T] = U
    OBVIOUS
  <2> HIDE DEF f, Smaller, Larger
  <2>4. f \in Bijection(Smaller, Larger)
    BY <2>1, <2>2, <2>3 DEF Bijection, Injection, Surjection, IsInjective
  <2> QED BY <2>4 DEF ExistsBijection
<1> HIDE DEF Smaller, Larger
<1>7. IsFiniteSet(Larger) /\ Cardinality(Larger) = Cardinality(Smaller)
  BY <1>3, <1>6, FS_Bijection, FS_SameCardinalityBij, FS_CardinalityType
<1>8. Cardinality(Smaller \union Larger) = Cardinality(Smaller) + Cardinality(Larger) - Cardinality(Smaller \cap Larger)
  BY <1>3, <1>7, FS_Union
<1>9. Cardinality(Smaller \cap Larger) = 0 /\ Cardinality(Smaller) \in Nat
  BY <1>3, <1>5, FS_EmptySet, FS_CardinalityType
<1> DEFINE c == Cardinality(Smaller)
<1>10. 2 ^ n = c /\ c \in Nat
  BY <1>3, <1>9
<1>11. 2 ^ (n + 1) = Cardinality(Smaller \union Larger)
  BY <1>3, <1>4
<1>12. Cardinality(Smaller \union Larger) = c + c - 0
  BY <1>7, <1>8, <1>9
<1> HIDE DEF c
<1>13. c + c - 0 = 2 * c
  BY <1>10
<1> QED BY <1>10, <1>11, <1>12, <1>13

(* PowersOfTwo: each is twice the one before, and more than its exponent.  *)
LEMMA PowersOfTwo ==
  /\ 2 ^ 0 = 1
  /\ \A n \in Nat : 2 ^ n \in Nat /\ 2 ^ n > n /\ 2 ^ (n + 1) = 2 * 2 ^ n
<1>1. 2 ^ 0 = 1
  <2>1. IsFiniteSet({}) /\ Cardinality({}) = 0
    BY FS_EmptySet
  <2>2. Cardinality(SUBSET {}) = 2 ^ 0
    BY <2>1, FS_SUBSET
  <2>3. SUBSET {} = {{}} /\ Cardinality({{}}) = 1
    BY FS_Singleton
  <2> QED BY <2>2, <2>3
<1>2. ASSUME NEW n \in Nat PROVE 2 ^ n \in Nat /\ 2 ^ (n + 1) = 2 * 2 ^ n
  BY PowerStep
<1> DEFINE P == {n \in Nat : 2 ^ n > n}
<1>3. 0 \in P
  BY <1>1
<1>4. ASSUME NEW n \in Nat, n \in P PROVE n + 1 \in P
  BY <1>2, <1>4
<1>5. Nat \subseteq P
  <2> HIDE DEF P
  <2> QED BY <1>3, <1>4, Upwards
<1> QED BY <1>1, <1>2, <1>5

(* AddedTwice, MulAdded: more of what is reduced before or after.          *)
LEMMA AddedTwice ==
  ASSUME NEW a \in Int, NEW b \in Int
  PROVE  ((a % l) + (b % l)) % l = (a + b) % l
<1>1. b % l \in Int
  BY Reduced
<1>2. ((a % l) + (b % l)) % l = (a + (b % l)) % l
  BY <1>1, AddReduced
<1>3. (a + (b % l)) % l = (b + a) % l
  BY AddReduced
<1>4. b + a = a + b
  OBVIOUS
<1> QED BY <1>2, <1>3, <1>4

LEMMA MulAdded ==
  ASSUME NEW a \in Int, NEW b \in Int, NEW c \in Int
  PROVE  ((a % l) + ((c * (b % l)) % l)) % l = (a + c * b) % l
<1>1. (c * (b % l)) % l = (b * c) % l
  BY MulReduced
<1>2. b * c = c * b /\ c * b \in Int
  OBVIOUS
<1> DEFINE d == c * b
<1> HIDE DEF d
<1>3. ((a % l) + (d % l)) % l = (a + d) % l
  BY <1>2, AddedTwice DEF d
<1> QED BY <1>1, <1>2, <1>3 DEF d

(* SumSteps: AddedUp, one more at a time.                                  *)
LEMMA SumSteps ==
  ASSUME NEW n \in Nat, NEW f, \A i \in 1 .. n + 1 : f[i] \in Int
  PROVE  /\ AddedUp(f, 0) = 0 /\ AddedUp(f, n) \in Scalar
         /\ AddedUp(f, n + 1) = (AddedUp(f, n) + f[n + 1]) % l
<1>1. PICK s : Totals(s, f, n) /\ AddedUp(f, n) = s[n]
  BY Total
<1>2. n + 1 \in Nat /\ n + 1 - 1 = n
  OBVIOUS
<1>3. PICK t : Totals(t, f, n + 1) /\ AddedUp(f, n + 1) = t[n + 1]
  BY <1>2, Total
<1>4. PICK z : Totals(z, f, 0) /\ AddedUp(f, 0) = z[0]
  <2>1. 0 \in Nat /\ \A i \in 1 .. 0 : f[i] \in Int
    OBVIOUS
  <2> QED BY <2>1, Total
<1> DEFINE P == {k \in Nat : k <= n => t[k] = s[k]}
<1>5. 0 \in P
  BY <1>1, <1>3 DEF Totals
<1>6. ASSUME NEW k \in Nat, k \in P PROVE k + 1 \in P
  <2> SUFFICES ASSUME k + 1 <= n PROVE t[k + 1] = s[k + 1]
    OBVIOUS
  <2>1. k + 1 \in 1 .. n /\ k + 1 \in 1 .. n + 1 /\ k + 1 - 1 = k
    OBVIOUS
  <2>2. t[k + 1] = (t[k] + f[k + 1]) % l
    BY <1>3, <2>1 DEF Totals
  <2>3. s[k + 1] = (s[k] + f[k + 1]) % l
    BY <1>1, <2>1 DEF Totals
  <2> QED BY <1>6, <2>2, <2>3
<1>7. Nat \subseteq P
  <2> HIDE DEF P
  <2> QED BY <1>5, <1>6, Upwards
<1>8. t[n] = s[n]
  BY <1>7
<1>9. t[n + 1] = (t[n] + f[n + 1]) % l
  <2>1. n + 1 \in 1 .. n + 1
    OBVIOUS
  <2> QED BY <1>2, <1>3, <2>1 DEF Totals
<1>10. s[n] \in Scalar /\ z[0] = 0
  BY <1>1, <1>4 DEF Totals
<1> QED BY <1>1, <1>3, <1>4, <1>8, <1>9, <1>10

(* SumReduced: a sum in the group is a number.                             *)
LEMMA SumReduced ==
  ASSUME NEW n \in Nat, NEW f, \A i \in 1 .. n : f[i] \in Int
  PROVE  AddedUp(f, n) \in Int
<1>1. PICK s : Totals(s, f, n) /\ AddedUp(f, n) = s[n]
  BY Total
<1>2. s[n] \in Scalar
  BY <1>1 DEF Totals
<1> QED BY <1>1, <1>2, Reduced

(* MulAddedTo: a product with what is reduced, added to something.         *)
LEMMA MulAddedTo ==
  ASSUME NEW a \in Int, NEW b \in Int, NEW c \in Int
  PROVE  (a + c * (b % l)) % l = (a + c * b) % l
<1> DEFINE r == b % l
           x == c * r
           y == c * b
<1>1. r \in Int
  BY Reduced
<1>2. x \in Int /\ y \in Int /\ y = b * c
  BY <1>1
<1>3. x % l = y % l
  <2>1. (c * (b % l)) % l = (b * c) % l
    BY MulReduced
  <2> QED BY <1>2, <2>1
<1> HIDE DEF r, x, y
<1>4. (a + (x % l)) % l = (x + a) % l /\ (a + (y % l)) % l = (y + a) % l
  BY <1>2, AddReduced
<1>5. x + a = a + x /\ y + a = a + y
  BY <1>2
<1>6. (a + x) % l = (a + y) % l
  BY <1>3, <1>4, <1>5
<1> QED BY <1>6 DEF r, x, y

(* SameSum: AddedUp of what is the same is the same.                       *)
LEMMA SameSum ==
  ASSUME NEW n \in Nat, NEW f, NEW g, \A i \in 1 .. n : f[i] \in Int /\ f[i] = g[i]
  PROVE  AddedUp(f, n) = AddedUp(g, n)
<1> DEFINE P == {k \in Nat : k <= n => AddedUp(f, k) = AddedUp(g, k)}
<1>1. 0 \in P
  <2>1. 0 \in Nat /\ \A i \in 1 .. 0 : f[i] \in Int /\ g[i] \in Int
    OBVIOUS
  <2>2. PICK s : Totals(s, f, 0) /\ AddedUp(f, 0) = s[0]
    BY <2>1, Total
  <2>3. PICK t : Totals(t, g, 0) /\ AddedUp(g, 0) = t[0]
    BY <2>1, Total
  <2> QED BY <2>2, <2>3 DEF Totals
<1>2. ASSUME NEW k \in Nat, k \in P PROVE k + 1 \in P
  <2> SUFFICES ASSUME k + 1 <= n PROVE AddedUp(f, k + 1) = AddedUp(g, k + 1)
    OBVIOUS
  <2>1. \A i \in 1 .. k + 1 : f[i] \in Int /\ g[i] \in Int
    OBVIOUS
  <2>2. AddedUp(f, k + 1) = (AddedUp(f, k) + f[k + 1]) % l
    BY <2>1, SumSteps
  <2>3. AddedUp(g, k + 1) = (AddedUp(g, k) + g[k + 1]) % l
    BY <2>1, SumSteps
  <2>4. f[k + 1] = g[k + 1]
    OBVIOUS
  <2> QED BY <1>2, <2>2, <2>3, <2>4
<1>3. Nat \subseteq P
  <2> HIDE DEF P
  <2> QED BY <1>1, <1>2, Upwards
<1> QED BY <1>3

(* EightInverted: the order of the group is odd, and eight has an inverse. *)
LEMMA EightInverted == INV_EIGHT \in Scalar /\ (8 * INV_EIGHT) % l = 1
<1> DEFINE q == l \div 8
           r == l % 8
<1>1. l \in Nat /\ l > 2 /\ l % 2 # 0
  BY OrderAssumption, PrimeAssumption
<1>2. l = 8 * q + r /\ q \in Int /\ r \in 0 .. 7
  BY <1>1, DivMod
<1> HIDE DEF q, r
<1>3. r \in {1, 3, 5, 7} /\ q \in Nat
  <2>1. ASSUME NEW h \in Int, r = 2 * h PROVE FALSE
    <3>1. l = 2 * (4 * q + h) + 0 /\ 4 * q + h \in Int
      BY <1>2, <2>1
    <3> QED BY <1>1, <3>1, Quotient
  <2>2. r # 2 * 0 /\ r # 2 * 1 /\ r # 2 * 2 /\ r # 2 * 3
    BY <2>1
  <2> QED BY <1>1, <1>2, <2>2
<1>4. \E n \in Scalar, k \in Nat : 8 * n = l * k + 1
  <2>1. CASE r = 1
    <3>1. 7 * q + 1 \in Scalar /\ 8 * (7 * q + 1) = l * 7 + 1
      BY <1>1, <1>2, <1>3, <2>1 DEF Scalar
    <3> QED BY <3>1
  <2>2. CASE r = 3
    <3>1. 5 * q + 2 \in Scalar /\ 8 * (5 * q + 2) = l * 5 + 1
      BY <1>1, <1>2, <1>3, <2>2 DEF Scalar
    <3> QED BY <3>1
  <2>3. CASE r = 5
    <3>1. 3 * q + 2 \in Scalar /\ 8 * (3 * q + 2) = l * 3 + 1
      BY <1>1, <1>2, <1>3, <2>3 DEF Scalar
    <3> QED BY <3>1
  <2>4. CASE r = 7
    <3>1. q + 1 \in Scalar /\ 8 * (q + 1) = l * 1 + 1
      BY <1>1, <1>2, <1>3, <2>4 DEF Scalar
    <3> QED BY <3>1
  <2> QED BY <1>3, <2>1, <2>2, <2>3, <2>4
<1>5. \E n \in Scalar : (8 * n) % l = 1
  <2>1. PICK n \in Scalar, k \in Nat : 8 * n = l * k + 1
    BY <1>4
  <2> DEFINE m == 8 * n
  <2>2. m \in Int /\ m = l * k + 1 /\ l \in Int /\ k \in Int /\ 0 <= 1 /\ 1 < l /\ l > 0 /\ 1 \in Int
    BY <1>1, <2>1, Reduced
  <2>3. m % l = 1
    <3> HIDE DEF m
    <3> QED BY <2>2, Quotient
  <2> QED BY <2>3
<1> QED BY <1>5 DEF INV_EIGHT, sc_mul

(* HashedH: H is a point.                                                  *)
LEMMA HashedH == H \in Scalar
<1> DEFINE keys == <<G>>
<1>1. keys \in Seq(Int)
  BY DEF G
<1>2. Mixed(2, keys) \in Int
  <2> HIDE DEF keys
  <2> QED BY <1>1, Hashes
<1>3. 8 * Mixed(2, <<G>>) \in Int
  BY <1>2
<1> QED BY <1>3, Reduced DEF H, hash_to_p3

-----------------------------------------------------------------------------
(* Commitments to amounts.                                                 *)

(* TimesEight: the commitment of a range proof, scaled, is the one to its  *)
(* amount.                                                                 *)
LEMMA TimesEight ==
  ASSUME NEW m \in Int, NEW v \in Int
  PROVE  scalarmult8(addKeys2(sc_mul(m, INV_EIGHT), sc_mul(v, INV_EIGHT), H)) = commit(v, m)
<1> DEFINE I == INV_EIGHT
           h == H
           y == m + h * v
<1>1. I \in Int /\ h \in Int /\ (8 * I) % l = 1
  BY EightInverted, HashedH, Reduced
<1> HIDE DEF I, h
<1>2. m * I \in Int /\ v * I \in Int /\ y \in Int
  BY <1>1
<1>3. (((m * I) % l) + ((h * ((v * I) % l)) % l)) % l = (m * I + h * (v * I)) % l
  BY <1>1, <1>2, MulAdded
<1>4. m * I + h * (v * I) = y * I
  BY <1>1
<1> HIDE DEF y
<1>5. (((y * I) % l) * 8) % l = y % l
  <2>1. y * I \in Int /\ 8 * I \in Int
    BY <1>1, <1>2
  <2>2. (((y * I) % l) * 8) % l = ((y * I) * 8) % l
    BY <2>1, MulReduced
  <2>3. (y * I) * 8 = (8 * I) * y
    BY <1>1, <1>2
  <2>4. (((8 * I) % l) * y) % l = ((8 * I) * y) % l
    BY <1>2, <2>1, MulReduced
  <2>5. 1 * y = y
    BY <1>2
  <2> QED BY <1>1, <2>2, <2>3, <2>4, <2>5
<1>6. (m + ((h * v) % l)) % l = y % l
  <2>1. h * v \in Int
    BY <1>1
  <2>2. (m + ((h * v) % l)) % l = (h * v + m) % l
    BY <2>1, AddReduced
  <2>3. h * v + m = y
    BY <1>1 DEF y
  <2> QED BY <2>2, <2>3
<1>7. addKeys2(sc_mul(m, INV_EIGHT), sc_mul(v, INV_EIGHT), H) = (y * I) % l
  BY <1>3, <1>4 DEF addKeys2, addKeys, scalarmultBase, scalarmultKey, sc_mul, I, h
<1>8. commit(v, m) = y % l
  BY <1>6 DEF commit, genC, addKeys2, addKeys, scalarmultBase, scalarmultKey, d2h, h
<1> QED BY <1>5, <1>7, <1>8 DEF scalarmult8, scalarmultKey

(* CommitmentSum: commitments add up to one to the sum of the amounts.     *)
LEMMA CommitmentSum ==
  ASSUME NEW n \in Nat, NEW a, NEW v, NEW f,
         \A i \in 1 .. n : a[i] \in Int /\ v[i] \in Int /\ f[i] = commit(v[i], a[i])
  PROVE  AddedUp(f, n) = (AddedUp(a, n) + H * AddedUp(v, n)) % l
<1> DEFINE h == H
           P == {k \in Nat : k <= n => AddedUp(f, k) = (AddedUp(a, k) + h * AddedUp(v, k)) % l}
<1>1. h \in Int
  BY HashedH, Reduced
<1>2. \A i \in 1 .. n : f[i] = (a[i] + ((h * v[i]) % l)) % l
  BY DEF commit, genC, addKeys2, addKeys, scalarmultBase, scalarmultKey, d2h
<1> HIDE DEF h
<1>3. \A i \in 1 .. n : f[i] \in Int /\ f[i] = (a[i] + h * v[i]) % l
  <2> SUFFICES ASSUME NEW i \in 1 .. n PROVE f[i] \in Int /\ f[i] = (a[i] + h * v[i]) % l
    OBVIOUS
  <2> DEFINE x == a[i]
             w == h * v[i]
  <2>1. x \in Int /\ w \in Int /\ f[i] = (x + (w % l)) % l
    BY <1>1, <1>2
  <2> HIDE DEF x, w
  <2>2. (x + (w % l)) % l = (w + x) % l /\ w + x = x + w /\ x + w \in Int
    BY <2>1, AddReduced
  <2>3. (x + w) % l \in Int
    BY <2>2, Reduced
  <2> QED BY <2>1, <2>2, <2>3 DEF x, w
<1>4. 0 \in P
  <2>1. 0 \in Nat /\ \A g : \A i \in 1 .. 0 : g[i] \in Int
    OBVIOUS
  <2>2. ASSUME NEW g PROVE AddedUp(g, 0) = 0
    <3>1. PICK s : Totals(s, g, 0) /\ AddedUp(g, 0) = s[0]
      BY <2>1, Total
    <3> QED BY <3>1 DEF Totals
  <2>3. 0 + h * 0 = 0 /\ 0 % l = 0
    <3>1. 0 \in Scalar
      BY Reduced DEF Scalar
    <3> QED BY <1>1, <3>1, Reduced
  <2> QED BY <2>2, <2>3
<1>5. ASSUME NEW k \in Nat, k \in P PROVE k + 1 \in P
  <2> SUFFICES ASSUME k + 1 <= n PROVE AddedUp(f, k + 1) = (AddedUp(a, k + 1) + h * AddedUp(v, k + 1)) % l
    OBVIOUS
  <2> DEFINE s == AddedUp(a, k)
             t == AddedUp(v, k)
             x == a[k + 1]
             w == v[k + 1]
  <2>1. k + 1 \in 1 .. n /\ \A i \in 1 .. k + 1 : a[i] \in Int /\ v[i] \in Int /\ f[i] \in Int
    BY <1>3
  <2>2. AddedUp(a, k + 1) = (s + x) % l /\ s \in Scalar
    BY <2>1, SumSteps
  <2>3. AddedUp(v, k + 1) = (t + w) % l /\ t \in Scalar
    BY <2>1, SumSteps
  <2>4. AddedUp(f, k + 1) = (AddedUp(f, k) + f[k + 1]) % l
    BY <2>1, SumSteps
  <2>5. AddedUp(f, k) = (s + h * t) % l /\ f[k + 1] = (x + h * w) % l
    BY <1>3, <1>5, <2>1
  <2>6. s \in Int /\ t \in Int /\ x \in Int /\ w \in Int
    BY <2>1, <2>2, <2>3, Reduced
  <2> HIDE DEF s, t, x, w
  <2>7. s + h * t \in Int /\ x + h * w \in Int /\ s + x \in Int /\ t + w \in Int /\ h * (t + w) \in Int
    BY <1>1, <2>6
  <2>8. AddedUp(f, k + 1) = ((s + h * t) + (x + h * w)) % l
    BY <2>4, <2>5, <2>7, AddedTwice
  <2>9. (((s + x) % l) + h * ((t + w) % l)) % l = ((s + x) + h * (t + w)) % l
    <3> DEFINE p == (t + w) % l
    <3>1. p \in Int /\ h * p \in Int /\ (s + x) % l \in Int
      <4>1. p \in Int /\ (s + x) % l \in Int
        BY <2>7, Reduced
      <4> HIDE DEF p
      <4>2. h * p \in Int
        BY <1>1, <4>1
      <4> QED BY <4>1, <4>2
    <3>2. (((s + x) % l) + ((h * p) % l)) % l = ((s + x) + h * (t + w)) % l
      BY <1>1, <2>7, MulAdded, ZenonT(60)
    <3>3. ((((s + x) % l)) + ((h * p) % l)) % l = (h * p + ((s + x) % l)) % l
      <4> HIDE DEF p
      <4> QED BY <3>1, AddReduced
    <3>4. h * p + ((s + x) % l) = ((s + x) % l) + h * p
      <4> HIDE DEF p
      <4> QED BY <3>1
    <3> QED BY <3>2, <3>3, <3>4
  <2>10. (s + h * t) + (x + h * w) = (s + x) + h * (t + w)
    BY <1>1, <2>6
  <2> QED BY <2>2, <2>3, <2>8, <2>9, <2>10
<1>6. Nat \subseteq P
  <2> HIDE DEF P
  <2> QED BY <1>4, <1>5, Upwards
<1> QED BY <1>6 DEF h

(* DrawnScalars: what skGen, skvGen and genCommitmentMask find.            *)
LEMMA DrawnScalars ==
  /\ \A draw \in Seq(Int) : skGen(draw) \in Scalar
  /\ \A draw \in Seq(Int), rows \in Nat : skvGen(draw, rows) \in [1 .. rows -> Scalar]
  /\ \A sk \in Int : genCommitmentMask(sk) \in Scalar
<1>1. ASSUME NEW draw \in Seq(Int) PROVE skGen(draw) \in Scalar
  <2>1. Mixed(3, draw) \in Int
    BY Hashes
  <2> QED BY <2>1, Reduced DEF skGen, sc_reduce32
<1>2. ASSUME NEW draw \in Seq(Int), NEW rows \in Nat PROVE skvGen(draw, rows) \in [1 .. rows -> Scalar]
  <2> DEFINE f == [i \in 1 .. rows |-> skGen(Append(draw, i))]
  <2>1. ASSUME NEW i \in 1 .. rows PROVE skGen(Append(draw, i)) \in Scalar
    <3>1. Append(draw, i) \in Seq(Int)
      OBVIOUS
    <3> QED BY <1>1, <3>1
  <2>2. f \in [1 .. rows -> Scalar]
    BY <2>1
  <2> HIDE DEF f
  <2>3. << >> \o f = f
    BY <2>2
  <2> QED BY <2>2, <2>3 DEF skvGen, f
<1>3. ASSUME NEW sk \in Int PROVE genCommitmentMask(sk) \in Scalar
  <2> DEFINE keys == <<sk>>
  <2>1. keys \in Seq(Int)
    OBVIOUS
  <2>2. Mixed(4, keys) \in Int
    <3> HIDE DEF keys
    <3> QED BY <2>1, Hashes
  <2> QED BY <2>2, Reduced DEF genCommitmentMask, sc_reduce32
<1> QED BY <1>1, <1>2, <1>3

(* BitAdded: the low bits of a number, one more at a time.                 *)
LEMMA BitAdded ==
  ASSUME NEW a \in Nat, NEW p \in Nat, p > 0
  PROVE  a % (2 * p) = (a % p) + p * ((a \div p) % 2)
<1> DEFINE q == a \div p
           r == a % p
           h == q \div 2
           b == q % 2
<1>1. a = p * q + r /\ q \in Int /\ r \in Int /\ 0 <= r /\ r < p
  BY DivMod
<1> HIDE DEF q, r
<1>2. q = 2 * h + b /\ h \in Int /\ b \in Int /\ 0 <= b /\ b < 2
  BY <1>1, DivMod
<1> HIDE DEF h, b
<1>3. p * q = (2 * p) * h + p * b
  BY <1>2
<1>4. 0 <= p * b /\ p * b <= p /\ p * b \in Int
  <2>1. b = 0 \/ b = 1
    BY <1>2
  <2> QED BY <2>1
<1>5. a = (2 * p) * h + (r + p * b)
  <2> DEFINE u == p * b
             w == (2 * p) * h
  <2>1. u \in Int /\ w \in Int /\ p * q = w + u /\ a = p * q + r
    BY <1>1, <1>2, <1>3, <1>4
  <2> HIDE DEF u, w
  <2>2. a = w + (r + u)
    BY <1>1, <2>1
  <2> QED BY <2>2 DEF u, w
<1>6. r + p * b \in Int /\ 0 <= r + p * b /\ r + p * b < 2 * p
  BY <1>1, <1>4
<1> DEFINE d == 2 * p
           s == r + p * b
<1>7. d \in Int /\ d > 0 /\ s \in Int /\ 0 <= s /\ s < d /\ a = d * h + s
  BY <1>5, <1>6
<1> HIDE DEF d, s
<1>8. a % d = s
  BY <1>2, <1>7, Quotient
<1> QED BY <1>8 DEF d, s, r, b, q

(* BitsCommitted: the commitments to the bits of an amount add up to the   *)
(* one to the amount.                                                      *)
LEMMA BitsCommitted ==
  ASSUME NEW amount \in Amount, NEW draw \in Seq(Int)
  PROVE  LET range == proveRange(amount, draw)
         IN  range.mask \in Scalar /\ range.C = commit(amount, range.mask)
<1> DEFINE h == H
           b == d2b(amount)
           ai == skvGen(Append(draw, 4), ATOMS)
           Ci == [i \in Atom |-> IF b[i] = 0 THEN scalarmultBase(ai[i]) ELSE addKeys(scalarmultBase(ai[i]), H2[i])]
           P == {k \in Nat : k <= ATOMS => AddedUp(Ci, k) = (AddedUp(ai, k) + h * (amount % 2 ^ k)) % l}
<1>1. proveRange(amount, draw).C = AddedUp(Ci, ATOMS) /\ proveRange(amount, draw).mask = AddedUp(ai, ATOMS)
  BY DEF proveRange
<1>2. ATOMS \in Nat /\ amount \in Nat /\ amount < 2 ^ ATOMS /\ h \in Int
  BY AtomsAssumption, PowersOfTwo, HashedH, Reduced DEF Amount
<1>3. ai \in [1 .. ATOMS -> Scalar]
  <2>1. Append(draw, 4) \in Seq(Int)
    OBVIOUS
  <2> QED BY <1>2, <2>1, DrawnScalars
<1>4. \A i \in Atom : H2[i] = (h * 2 ^ (i - 1)) % l /\ b[i] = (amount \div 2 ^ (i - 1)) % 2
  BY DEF H2, d2b
<1> HIDE DEF ai, b, h
<1>5. ASSUME NEW i \in 1 .. ATOMS
      PROVE  /\ ai[i] \in Int /\ 2 ^ (i - 1) \in Nat /\ 2 ^ (i - 1) > 0 /\ b[i] \in {0, 1}
             /\ Ci[i] \in Int /\ Ci[i] = (ai[i] + h * (2 ^ (i - 1) * b[i])) % l
  <2> DEFINE x == ai[i]
             p == 2 ^ (i - 1)
             c == b[i]
             w == h * p
  <2>1. x \in Scalar /\ x \in Int /\ x % l = x
    BY <1>3, Reduced
  <2>2. i - 1 \in Nat
    BY <1>2
  <2>3. p \in Nat /\ p > 0
    BY <2>2, PowersOfTwo
  <2>4. c \in {0, 1}
    <3> DEFINE q == amount \div p
    <3> HIDE DEF p
    <3>1. q \in Int
      BY <1>2, <2>3, DivMod
    <3> HIDE DEF q
    <3>2. q % 2 \in {0, 1}
      BY <3>1
    <3>3. c = q % 2
      BY <1>4 DEF Atom, q, p
    <3> QED BY <3>2, <3>3
  <2>5. Ci[i] = IF c = 0 THEN x ELSE (x + (w % l)) % l
    BY <1>4 DEF Atom, scalarmultBase, addKeys
  <2>6. w \in Int
    <3> HIDE DEF p
    <3> QED BY <1>2, <2>3
  <2> HIDE DEF Ci, x, c, p
  <2>7. w = h * p
    OBVIOUS
  <2> HIDE DEF w
  <2>8. CASE c = 0
    <3>1. h * (p * c) = 0
      BY <1>2, <2>3, <2>8
    <3>2. x + h * (p * c) = x
      BY <2>1, <3>1
    <3> QED BY <2>1, <2>3, <2>4, <2>5, <2>8, <3>2 DEF x, c, p
  <2>9. CASE c = 1
    <3>1. p * c = p
      BY <2>3, <2>9
    <3>2. (x + (w % l)) % l = (w + x) % l /\ w + x \in Int /\ w + x = x + w
      BY <2>1, <2>6, AddReduced
    <3>3. (w + x) % l \in Int
      BY <3>2, Reduced
    <3> QED BY <2>1, <2>3, <2>4, <2>5, <2>7, <2>9, <3>1, <3>2, <3>3 DEF x, c, p
  <2> QED BY <2>4, <2>8, <2>9
<1> HIDE DEF Ci
<1>6. 0 \in P
  <2>1. ASSUME NEW g PROVE AddedUp(g, 0) = 0
    <3>1. 0 \in Nat /\ \A i \in 1 .. 0 : g[i] \in Int
      OBVIOUS
    <3>2. PICK s : Totals(s, g, 0) /\ AddedUp(g, 0) = s[0]
      BY <3>1, Total
    <3> QED BY <3>2 DEF Totals
  <2>2. amount % 2 ^ 0 = 0
    BY <1>2, PowersOfTwo
  <2>3. 0 + h * 0 = 0 /\ 0 % l = 0
    <3>1. 0 \in Scalar
      BY Reduced DEF Scalar
    <3> QED BY <1>2, <3>1, Reduced
  <2> QED BY <2>1, <2>2, <2>3
<1>7. ASSUME NEW k \in Nat, k \in P PROVE k + 1 \in P
  <2> SUFFICES ASSUME k + 1 <= ATOMS
               PROVE  AddedUp(Ci, k + 1) = (AddedUp(ai, k + 1) + h * (amount % 2 ^ (k + 1))) % l
    OBVIOUS
  <2> DEFINE s == AddedUp(ai, k)
             x == ai[k + 1]
             p == 2 ^ k
             t == amount % p
             c == p * b[k + 1]
  <2>1. k + 1 \in 1 .. ATOMS /\ \A i \in 1 .. k + 1 : ai[i] \in Int /\ Ci[i] \in Int
    BY <1>2, <1>5
  <2>2. AddedUp(ai, k + 1) = (s + x) % l /\ s \in Scalar
    BY <2>1, SumSteps
  <2>3. AddedUp(Ci, k + 1) = (AddedUp(Ci, k) + Ci[k + 1]) % l
    BY <2>1, SumSteps
  <2>4. k + 1 - 1 = k
    OBVIOUS
  <2>5. /\ p \in Nat /\ p > 0 /\ b[k + 1] \in {0, 1} /\ x \in Int
        /\ Ci[k + 1] = (x + h * c) % l
    BY <1>5, <2>1, <2>4
  <2>6. AddedUp(Ci, k) = (s + h * t) % l
    <3>1. k <= ATOMS
      BY <1>2
    <3> QED BY <1>7, <3>1
  <2>7. amount % 2 ^ (k + 1) = t + c
    <3>1. b[k + 1] = (amount \div p) % 2
      BY <1>4, <2>1, <2>4 DEF Atom
    <3>2. 2 ^ (k + 1) = 2 * p
      BY PowersOfTwo
    <3> HIDE DEF p
    <3> QED BY <1>2, <2>5, <3>1, <3>2, BitAdded
  <2>8. s \in Int /\ t \in Int /\ c \in Int
    <3>1. t \in Int
      <4> HIDE DEF p
      <4> QED BY <1>2, <2>5, DivMod
    <3>2. c \in Int
      BY <2>5
    <3> QED BY <2>2, <3>1, <3>2, Reduced
  <2> HIDE DEF s, x, t, c, p
  <2>9. s + h * t \in Int /\ x + h * c \in Int /\ s + x \in Int /\ h * (t + c) \in Int
    BY <1>2, <2>5, <2>8
  <2>10. AddedUp(Ci, k + 1) = ((s + h * t) + (x + h * c)) % l
    BY <2>3, <2>5, <2>6, <2>9, AddedTwice
  <2> DEFINE w == h * (t + c)
             u == s + x
  <2>11. (s + h * t) + (x + h * c) = u + w
    BY <1>2, <2>5, <2>8
  <2> HIDE DEF w, u
  <2>12. ((u % l) + w) % l = (u + w) % l
    BY <2>9, AddReduced DEF w, u
  <2> QED BY <2>2, <2>7, <2>10, <2>11, <2>12 DEF w, u
<1>8. Nat \subseteq P
  <2> HIDE DEF P
  <2> QED BY <1>6, <1>7, Upwards
<1>9. AddedUp(Ci, ATOMS) = (AddedUp(ai, ATOMS) + h * amount) % l
  <2>1. amount % 2 ^ ATOMS = amount
    <3> DEFINE p == 2 ^ ATOMS
    <3>1. p \in Nat /\ p > 0 /\ amount < p
      BY <1>2, PowersOfTwo
    <3> HIDE DEF p
    <3>2. amount % p = amount
      BY <1>2, <3>1
    <3> QED BY <3>2 DEF p
  <2>2. ATOMS \in P
    BY <1>2, <1>8
  <2> QED BY <1>2, <2>1, <2>2
<1> DEFINE s == AddedUp(ai, ATOMS)
<1>10. s \in Scalar /\ s \in Int
  <2>1. \A i \in 1 .. ATOMS : ai[i] \in Int
    BY <1>5
  <2>2. PICK t : Totals(t, ai, ATOMS) /\ AddedUp(ai, ATOMS) = t[ATOMS]
    BY <1>2, <2>1, Total
  <2> QED BY <1>2, <2>2, Reduced DEF Totals
<1> HIDE DEF s
<1>11. commit(amount, s) = (s + h * amount) % l
  <2> DEFINE w == h * amount
  <2>1. w \in Int
    BY <1>2
  <2>2. commit(amount, s) = (s + (w % l)) % l
    BY DEF commit, genC, addKeys2, addKeys, scalarmultBase, scalarmultKey, d2h, h
  <2> HIDE DEF w
  <2>3. (s + (w % l)) % l = (w + s) % l /\ w + s = s + w
    BY <1>10, <2>1, AddReduced
  <2> QED BY <2>2, <2>3 DEF w
<1> QED BY <1>1, <1>9, <1>10, <1>11 DEF s

(* MasksBalance: the masks of the pseudo outputs add up to those of the    *)
(* outputs.                                                                *)
LEMMA MasksBalance ==
  ASSUME NEW n \in Nat, NEW masks \in [1 .. n -> Scalar], NEW inputs \in Nat \ {0}, NEW draw \in Seq(Int)
  PROVE  LET a == PseudoMasks(masks, inputs, draw)
         IN  a \in [1 .. inputs -> Scalar] /\ AddedUp(a, inputs) = AddedUp(masks, n)
<1> DEFINE m == inputs - 1
           drawn == [i \in 1 .. m |-> skGen(draw \o <<3, i>>)]
           S == AddedUp(masks, n)
           D == AddedUp(drawn, m)
           c == (S - D) % l
           a == Append(drawn, c)
<1>1. Len(masks) = n
  OBVIOUS
<1>2. PseudoMasks(masks, inputs, draw) = a
  BY <1>1 DEF PseudoMasks, sc_sub
<1>3. m \in Nat /\ m + 1 = inputs
  OBVIOUS
<1>4. drawn \in [1 .. m -> Scalar]
  <2>1. ASSUME NEW i \in 1 .. m PROVE skGen(draw \o <<3, i>>) \in Scalar
    <3>1. draw \o <<3, i>> \in Seq(Int)
      OBVIOUS
    <3> QED BY <3>1, DrawnScalars
  <2> QED BY <2>1
<1> HIDE DEF drawn
<1>5. S \in Scalar /\ S \in Int /\ S % l = S
  <2>1. \A i \in 1 .. n : masks[i] \in Int
    BY Reduced
  <2>2. PICK t : Totals(t, masks, n) /\ S = t[n]
    BY <2>1, Total
  <2> QED BY <2>2, Reduced DEF Totals
<1>6. D \in Scalar /\ D \in Int
  <2>1. \A i \in 1 .. m : drawn[i] \in Int
    BY <1>4, Reduced
  <2> HIDE DEF m
  <2>2. PICK t : Totals(t, drawn, m) /\ D = t[m]
    BY <1>3, <2>1, Total
  <2> QED BY <1>3, <2>2, Reduced DEF Totals
<1> HIDE DEF S, D
<1>7. c \in Scalar /\ c \in Int
  <2>1. S - D \in Int
    BY <1>5, <1>6
  <2> QED BY <2>1, Reduced
<1> HIDE DEF c, m
<1>8. a \in [1 .. inputs -> Scalar] /\ a[m + 1] = c /\ \A i \in 1 .. m : a[i] = drawn[i]
  <2>1. drawn \in Seq(Scalar) /\ Len(drawn) = m /\ \A i \in 1 .. m : drawn[i] \in Scalar
    BY <1>3, <1>4
  <2>2. Len(a) = inputs /\ a[m + 1] = c /\ \A i \in 1 .. m : a[i] = drawn[i]
    BY <1>3, <1>7, <2>1
  <2>3. a \in Seq(Scalar)
    BY <1>7, <2>1
  <2> HIDE DEF a
  <2>4. a \in [1 .. inputs -> Scalar]
    BY <2>2, <2>3
  <2> QED BY <2>2, <2>4
<1> HIDE DEF a
<1>9. AddedUp(a, m + 1) = (AddedUp(a, m) + c) % l
  <2>1. \A i \in 1 .. m + 1 : a[i] \in Int
    BY <1>3, <1>8, Reduced
  <2> QED BY <1>3, <1>8, <2>1, SumSteps
<1>10. AddedUp(a, m) = D
  <2>1. \A i \in 1 .. m : drawn[i] \in Int /\ drawn[i] = a[i]
    BY <1>4, <1>8, Reduced
  <2> QED BY <1>3, <2>1, SameSum DEF D
<1>11. (D + c) % l = S
  <2> DEFINE d == S - D
  <2>1. d \in Int /\ d + D = S
    BY <1>5, <1>6
  <2>2. (D + (d % l)) % l = (d + D) % l
    <3> HIDE DEF d
    <3> QED BY <1>6, <2>1, AddReduced
  <2> QED BY <1>5, <2>1, <2>2 DEF c
<1> QED BY <1>2, <1>3, <1>8, <1>9, <1>10, <1>11 DEF S

-----------------------------------------------------------------------------
(* Range proofs of outputs, and how they are divided.                      *)

(* Batched: a proof is for one output at least, and for no more than there *)
(* are left.                                                               *)
RangeTypes == {"padded", "single", "multi"}

LEMMA Batched ==
  ASSUME NEW range_proof_type \in RangeTypes, NEW left \in Nat \ {0}
  PROVE  BatchSize(range_proof_type, left) \in 1 .. left
<1> DEFINE Fits(b) == b <= left /\ b <= maxM /\ (b * 2 > left \/ b * 2 > maxM)
           D == {2 ^ k : k \in 0 .. maxM}
<1>1. maxM \in Nat /\ maxM >= 1 /\ \A k \in Nat : 2 ^ k \in Nat /\ 2 ^ k >= 1 /\ 2 ^ k > k
  <2>1. PICK k \in 0 .. maxM : maxM = 2 ^ k
    BY VectorAssumption
  <2>2. k \in Nat /\ \A j \in Nat : 2 ^ j \in Nat /\ 2 ^ j > j /\ 2 ^ j >= 1
    BY PowersOfTwo
  <2> QED BY <2>1, <2>2
<1>2. ASSUME range_proof_type = "multi" PROVE \E b \in D : Fits(b)
  <2> SUFFICES ASSUME \A b \in D : ~Fits(b) PROVE FALSE
    OBVIOUS
  <2> DEFINE P == {k \in Nat : k <= maxM => 2 ^ k <= left /\ 2 ^ k <= maxM}
  <2>1. 0 \in P
    BY <1>1, PowersOfTwo
  <2>2. ASSUME NEW k \in Nat, k \in P PROVE k + 1 \in P
    <3> SUFFICES ASSUME k + 1 <= maxM PROVE 2 ^ (k + 1) <= left /\ 2 ^ (k + 1) <= maxM
      OBVIOUS
    <3> DEFINE b == 2 ^ k
    <3>1. k <= maxM /\ k \in 0 .. maxM
      BY <1>1
    <3>2. b \in D /\ b \in Nat /\ b <= left /\ b <= maxM
      BY <1>1, <2>2, <3>1
    <3>3. 2 ^ (k + 1) = 2 * b
      BY PowersOfTwo
    <3> HIDE DEF b, D
    <3>4. ~(b * 2 > left \/ b * 2 > maxM)
      BY <3>2
    <3> QED BY <1>1, <3>2, <3>3, <3>4
  <2>3. Nat \subseteq P
    <3> HIDE DEF P
    <3> QED BY <2>1, <2>2, Upwards
  <2> QED BY <1>1, <2>3
<1>3. CASE range_proof_type = "padded"
  BY <1>3 DEF BatchSize
<1>4. CASE range_proof_type = "single"
  BY <1>4 DEF BatchSize
<1>5. CASE range_proof_type = "multi"
  <2> DEFINE b == CHOOSE b \in D : Fits(b)
  <2>1. BatchSize(range_proof_type, left) = b
    BY <1>5 DEF BatchSize
  <2>2. b \in D /\ Fits(b)
    <3> HIDE DEF D, Fits
    <3> QED BY <1>2, <1>5
  <2> HIDE DEF b
  <2>3. b \in Nat /\ b >= 1
    BY <1>1, <2>2
  <2> QED BY <2>1, <2>2, <2>3
<1> QED BY <1>3, <1>4, <1>5 DEF RangeTypes

(* JoinedSteps, JoinedMore: what is joined, one part at a time; and the    *)
(* first of the parts comes first.                                         *)
Joins(u, parts, S) ==
  /\ u \in [0 .. Len(parts) -> Seq(S)] /\ u[0] = << >>
  /\ \A i \in 0 .. Len(parts) - 1 : u[i + 1] = u[i] \o parts[i + 1]

LEMMA JoinedSteps ==
  ASSUME NEW S, NEW parts \in Seq(Seq(S))
  PROVE  \E u : Joins(u, parts, S) /\ Joined(parts) = u[Len(parts)]
<1> DEFINE n == Len(parts)
           next(v, i) == v \o parts[i]
           F == [i \in 1 .. n |-> [v \in Seq(S) |-> next(v, i)]]
           Is(u) == u = [i \in 0 .. n |-> IF i = 0 THEN << >> ELSE next(u[i - 1], i)]
           U0 == CHOOSE u : Is(u)
<1>1. n \in Nat /\ << >> \in Seq(S) /\ \A i \in 1 .. n, v \in Seq(S) : next(v, i) \in Seq(S)
  OBVIOUS
<1> HIDE DEF next
<1>2. F \in [1 .. n -> [Seq(S) -> Seq(S)]]
  BY <1>1
<1>3. PICK h \in [0 .. n -> Seq(S)] : Steps(h, n, << >>, F)
  <2> HIDE DEF F, n
  <2> QED BY <1>1, <1>2, Iterated
<1>4. Is(h)
  <2>1. ASSUME NEW i \in 1 .. n PROVE h[i] = next(h[i - 1], i)
    <3>1. h[i] = F[i][h[i - 1]]
      BY <1>3 DEF Steps
    <3>2. h[i - 1] \in Seq(S)
      <4>1. i - 1 \in 0 .. n
        BY <1>1
      <4> QED BY <1>3, <4>1
    <3> QED BY <3>1, <3>2
  <2>2. h[0] = << >>
    BY <1>3 DEF Steps
  <2>3. \A i \in 0 .. n : h[i] = IF i = 0 THEN << >> ELSE next(h[i - 1], i)
    BY <1>1, <2>1, <2>2
  <2> QED BY <1>3, <2>3
<1>5. Is(U0)
  <2> HIDE DEF Is
  <2> QED BY <1>4
<1> HIDE DEF U0
<1>6. \A k \in Nat : k <= n => U0[k] \in Seq(S)
  <2> DEFINE P == {k \in Nat : k <= n => U0[k] \in Seq(S)}
  <2>1. 0 \in P
    BY <1>1, <1>5
  <2>2. ASSUME NEW k \in Nat, k \in P PROVE k + 1 \in P
    <3> SUFFICES ASSUME k + 1 <= n PROVE U0[k + 1] \in Seq(S)
      OBVIOUS
    <3>1. U0[k + 1] = next(U0[k], k + 1) /\ U0[k] \in Seq(S) /\ k + 1 \in 1 .. n
      BY <1>1, <1>5, <2>2
    <3> QED BY <1>1, <3>1
  <2>3. Nat \subseteq P
    <3> HIDE DEF P
    <3> QED BY <2>1, <2>2, Upwards
  <2> QED BY <2>3
<1>7. Joins(U0, parts, S)
  <2>1. U0 \in [0 .. n -> Seq(S)]
    <3>1. U0 = [i \in 0 .. n |-> U0[i]] /\ \A i \in 0 .. n : U0[i] \in Seq(S)
      BY <1>1, <1>5, <1>6
    <3> QED BY <3>1
  <2>2. \A i \in 0 .. n : U0[i] = IF i = 0 THEN << >> ELSE next(U0[i - 1], i)
    BY <1>5
  <2>3. U0[0] = << >>
    BY <1>1, <2>2
  <2>4. ASSUME NEW i \in 0 .. n - 1 PROVE U0[i + 1] = next(U0[i], i + 1)
    <3>1. i + 1 \in 0 .. n /\ i + 1 # 0 /\ i + 1 - 1 = i
      BY <1>1
    <3> QED BY <2>2, <3>1
  <2> QED BY <2>1, <2>3, <2>4 DEF Joins, next
<1>8. Joined(parts) = U0[n]
  BY DEF Joined, U0, next
<1> QED BY <1>7, <1>8

LEMMA JoinedMore ==
  ASSUME NEW S, NEW x \in Seq(S), NEW parts \in Seq(Seq(S))
  PROVE  Joined(parts) \in Seq(S) /\ Joined(<<x>> \o parts) = x \o Joined(parts)
<1> DEFINE n == Len(parts)
           q == <<x>> \o parts
<1>1. n \in Nat /\ q \in Seq(Seq(S)) /\ Len(q) = n + 1 /\ q[1] = x /\ \A i \in 1 .. n : q[i + 1] = parts[i]
  OBVIOUS
<1>2. \A i \in 1 .. n : parts[i] \in Seq(S)
  OBVIOUS
<1>3. PICK u : Joins(u, parts, S) /\ Joined(parts) = u[n]
  BY JoinedSteps
<1> HIDE DEF q
<1>4. PICK w : Joins(w, q, S) /\ Joined(q) = w[Len(q)]
  BY <1>1, JoinedSteps
<1> DEFINE P == {k \in Nat : k <= n => w[k + 1] = x \o u[k]}
<1>5. 0 \in P
  <2>1. 0 \in 0 .. Len(q) - 1 /\ 0 + 1 = 1
    BY <1>1
  <2>2. w[1] = w[0] \o q[1] /\ w[0] = << >> /\ u[0] = << >>
    BY <1>3, <1>4, <2>1 DEF Joins
  <2>3. << >> \o x = x /\ x \o << >> = x
    OBVIOUS
  <2> QED BY <1>1, <2>2, <2>3
<1>6. ASSUME NEW k \in Nat, k \in P PROVE k + 1 \in P
  <2> SUFFICES ASSUME k + 1 <= n PROVE w[k + 1 + 1] = x \o u[k + 1]
    OBVIOUS
  <2>1. k + 1 \in 1 .. n /\ k \in 0 .. n - 1 /\ k \in 0 .. n /\ k + 1 \in 0 .. Len(q) - 1
    BY <1>1
  <2>2. u[k + 1] = u[k] \o parts[k + 1] /\ u[k] \in Seq(S)
    BY <1>3, <2>1 DEF Joins
  <2>3. w[k + 1 + 1] = w[k + 1] \o q[k + 1 + 1]
    BY <1>4, <2>1 DEF Joins
  <2>4. w[k + 1] = x \o u[k] /\ q[k + 1 + 1] = parts[k + 1] /\ parts[k + 1] \in Seq(S)
    <3>1. w[k + 1] = x \o u[k]
      BY <1>6, <2>1
    <3>2. q[k + 1 + 1] = parts[k + 1]
      BY <1>1, <2>1
    <3> QED BY <1>2, <2>1, <3>1, <3>2
  <2> DEFINE y == u[k]
             z == parts[k + 1]
  <2>5. y \in Seq(S) /\ z \in Seq(S)
    BY <2>2, <2>4
  <2>6. (x \o y) \o z = x \o (y \o z)
    <3> HIDE DEF y, z
    <3> QED BY <2>5, SMTT(30)
  <2> QED BY <2>2, <2>3, <2>4, <2>6
<1>7. Nat \subseteq P
  <2> HIDE DEF P
  <2> QED BY <1>5, <1>6, Upwards
<1>8. w[n + 1] = x \o u[n] /\ u[n] \in Seq(S)
  <2>1. n \in P /\ n <= n /\ n \in 0 .. n
    BY <1>1, <1>7
  <2> QED BY Zenon, <1>3, <2>1 DEF Joins
<1> QED BY <1>1, <1>3, <1>4, <1>8 DEF q

LEMMA JoinedNone == Joined(<< >>) = << >>
<1>1. << >> \in Seq(Seq({})) /\ Len(<< >>) = 0
  OBVIOUS
<1>2. PICK u : Joins(u, << >>, {}) /\ Joined(<< >>) = u[Len(<< >>)]
  BY <1>1, JoinedSteps
<1> QED BY <1>1, <1>2 DEF Joins

(* VectorIs: a vector is the function it is made of.                       *)
LEMMA VectorIs ==
  ASSUME NEW n \in Nat, NEW S, NEW f \in [1 .. n -> S]
  PROVE  Vector(f) = f /\ f \in Seq(S) /\ Len(f) = n
BY DEF Vector

(* ProofCommits: both kinds of proof have the commitments of the values.   *)
LEMMA ProofCommits ==
  ASSUME NEW sv, NEW gamma, NEW draw
  PROVE  /\ bulletproof_PROVE(sv, gamma, draw).V = CommitTo8(sv, gamma)
         /\ bulletproof_plus_PROVE(sv, gamma, draw).V = CommitTo8(sv, gamma)
<1>1. bulletproof_PROVE(sv, gamma, draw).V = CommitTo8(sv, gamma)
  BY DEF bulletproof_PROVE
<1>2. bulletproof_plus_PROVE(sv, gamma, draw).V = CommitTo8(sv, gamma)
  BY DEF bulletproof_plus_PROVE
<1> QED BY <1>1, <1>2

(* Proves: what a proof, or what stands for one, says of its amounts:      *)
(* RealProof of one that is made, DummyProof of one for an estimate.       *)
Proves(p, amounts, fake) ==
  LET n == Len(amounts)
  IN  /\ p.C \in Seq(Scalar) /\ Len(p.C) = n /\ p.masks \in Seq(Scalar) /\ Len(p.masks) = n
      /\ \A i \in 1 .. n : scalarmult8(p.C[i]) = commit(amounts[i], p.masks[i])
      /\ p.proof.V \in Seq(Scalar) /\ Len(p.proof.V) = n
      /\ ~fake => p.proof.V = p.C

LEMMA RealProof ==
  ASSUME NEW type, NEW amounts \in Seq(Amount), NEW keys \in Seq(Int), Len(keys) = Len(amounts), NEW draw
  PROVE  Proves(proveRangeBulletproof(type, amounts, keys, draw), amounts, FALSE)
<1> DEFINE n == Len(amounts)
           f == [i \in 1 .. n |-> genCommitmentMask(keys[i])]
           g == [i \in 1 .. n |-> addKeys2(sc_mul(f[i], INV_EIGHT), sc_mul(amounts[i], INV_EIGHT), H)]
           p == proveRangeBulletproof(type, amounts, keys, draw)
<1>1. n \in Nat /\ \A i \in 1 .. n : keys[i] \in Int /\ amounts[i] \in Int
  BY PowersOfTwo, AtomsAssumption DEF Amount
<1>2. f \in [1 .. n -> Scalar]
  BY <1>1, DrawnScalars
<1>3. Vector(f) = f /\ f \in Seq(Scalar) /\ Len(f) = n
  <2> HIDE DEF f, n
  <2> QED BY <1>1, <1>2, VectorIs
<1>4. p.masks = f /\ p.C = CommitTo8(amounts, f) /\ p.proof.V = CommitTo8(amounts, f)
  <2>1. Vector([i \in 1 .. Len(keys) |-> genCommitmentMask(keys[i])]) = f
    BY <1>3
  <2> HIDE DEF f
  <2>2. CASE is_rct_bulletproof_plus(type)
    <3>1. p = [C |-> bulletproof_plus_PROVE(amounts, f, draw).V, masks |-> f, proof |-> bulletproof_plus_PROVE(amounts, f, draw)]
      BY <2>1, <2>2 DEF proveRangeBulletproof
    <3> HIDE DEF p
    <3> QED BY <3>1, ProofCommits
  <2>3. CASE ~is_rct_bulletproof_plus(type)
    <3>1. p = [C |-> bulletproof_PROVE(amounts, f, draw).V, masks |-> f, proof |-> bulletproof_PROVE(amounts, f, draw)]
      BY <2>1, <2>3 DEF proveRangeBulletproof
    <3> HIDE DEF p
    <3> QED BY <3>1, ProofCommits
  <2> QED BY <2>2, <2>3
<1> HIDE DEF f, p
<1>5. g \in [1 .. n -> Scalar]
  <2> SUFFICES ASSUME NEW i \in 1 .. n PROVE addKeys2(sc_mul(f[i], INV_EIGHT), sc_mul(amounts[i], INV_EIGHT), H) \in Scalar
    OBVIOUS
  <2> DEFINE a == sc_mul(f[i], INV_EIGHT)
             b == sc_mul(amounts[i], INV_EIGHT)
  <2>1. f[i] \in Int /\ amounts[i] \in Int /\ INV_EIGHT \in Int /\ H \in Int
    BY <1>1, <1>2, EightInverted, HashedH, Reduced
  <2>2. a \in Int /\ b \in Int
    <3>1. f[i] * INV_EIGHT \in Int /\ amounts[i] * INV_EIGHT \in Int
      BY <2>1
    <3> QED BY <3>1, Reduced DEF sc_mul
  <2> HIDE DEF a, b
  <2>3. a + ((H * b) % l) \in Int
    <3>1. H * b \in Int
      BY <2>1, <2>2
    <3>2. (H * b) % l \in Int
      BY <3>1, Reduced
    <3> QED BY <2>2, <3>2
  <2>4. addKeys2(a, b, H) \in Scalar
    BY <2>3, Reduced DEF addKeys2, addKeys, scalarmultBase, scalarmultKey
  <2> QED BY <2>4 DEF a, b
<1>6. CommitTo8(amounts, f) = g /\ g \in Seq(Scalar) /\ Len(g) = n
  <2>1. CommitTo8(amounts, f) = Vector(g)
    BY DEF CommitTo8
  <2> HIDE DEF g, n
  <2> QED BY <1>1, <1>5, <2>1, VectorIs
<1>7. \A i \in 1 .. n : scalarmult8(g[i]) = commit(amounts[i], f[i])
  <2> SUFFICES ASSUME NEW i \in 1 .. n PROVE scalarmult8(g[i]) = commit(amounts[i], f[i])
    OBVIOUS
  <2>1. f[i] \in Int /\ amounts[i] \in Int
    BY <1>1, <1>2, Reduced
  <2>2. g[i] = addKeys2(sc_mul(f[i], INV_EIGHT), sc_mul(amounts[i], INV_EIGHT), H)
    OBVIOUS
  <2> HIDE DEF g
  <2> QED BY <2>1, <2>2, TimesEight
<1> HIDE DEF g
<1> QED BY <1>3, <1>4, <1>6, <1>7 DEF Proves, p

LEMMA DummyProof ==
  ASSUME NEW type, NEW amounts \in Seq(Amount)
  PROVE  Proves(make_dummy_bulletproof(type, amounts), amounts, TRUE)
<1> DEFINE n == Len(amounts)
           p == make_dummy_bulletproof(type, amounts)
           g == [i \in 1 .. n |-> addKeys2(INV_EIGHT, sc_mul(amounts[i], INV_EIGHT), H)]
           zeroes == [i \in 1 .. n |-> identity]
           ones == [i \in 1 .. n |-> 1]
<1>1. n \in Nat /\ \A i \in 1 .. n : amounts[i] \in Int
  BY PowersOfTwo, AtomsAssumption DEF Amount
<1>2. identity \in Scalar /\ 1 \in Scalar
  BY Reduced DEF identity, Scalar
<1>3. /\ vector_dup(identity, n) = zeroes /\ zeroes \in Seq(Scalar) /\ Len(zeroes) = n
      /\ vector_dup(1, n) = ones /\ ones \in Seq(Scalar) /\ Len(ones) = n
  <2>1. zeroes \in [1 .. n -> Scalar] /\ ones \in [1 .. n -> Scalar]
    BY <1>2
  <2>2. vector_dup(identity, n) = Vector(zeroes) /\ vector_dup(1, n) = Vector(ones)
    BY DEF vector_dup
  <2> HIDE DEF n, zeroes, ones
  <2> QED BY <1>1, <2>1, <2>2, VectorIs
<1>4. p.C = g /\ p.masks = ones /\ p.proof.V = zeroes
  <2>1. p.C = g
    BY DEF make_dummy_bulletproof
  <2>2. p.masks = vector_dup(1, n)
    BY DEF make_dummy_bulletproof
  <2>3. p.proof.V = vector_dup(identity, n)
    BY DEF make_dummy_bulletproof
  <2> QED BY <1>3, <2>1, <2>2, <2>3
<1> HIDE DEF p
<1>5. INV_EIGHT = sc_mul(1, INV_EIGHT)
  <2>1. 1 * INV_EIGHT = INV_EIGHT /\ INV_EIGHT % l = INV_EIGHT
    BY EightInverted, Reduced
  <2> QED BY <2>1 DEF sc_mul
<1>6. ASSUME NEW i \in 1 .. n PROVE scalarmult8(g[i]) = commit(amounts[i], ones[i]) /\ g[i] \in Scalar
  <2>1. amounts[i] \in Int /\ 1 \in Int /\ ones[i] = 1
    BY <1>1
  <2>2. g[i] = addKeys2(sc_mul(1, INV_EIGHT), sc_mul(amounts[i], INV_EIGHT), H)
    BY <1>5
  <2> DEFINE b == sc_mul(amounts[i], INV_EIGHT)
  <2>3. INV_EIGHT \in Int /\ H \in Int
    BY EightInverted, HashedH, Reduced
  <2>4. b \in Int
    <3>1. amounts[i] * INV_EIGHT \in Int
      BY <2>1, <2>3
    <3> QED BY <3>1, Reduced DEF sc_mul
  <2> HIDE DEF b
  <2>5. g[i] = (INV_EIGHT + ((H * b) % l)) % l
    BY DEF addKeys2, addKeys, scalarmultBase, scalarmultKey, b
  <2>6. INV_EIGHT + ((H * b) % l) \in Int
    <3>1. H * b \in Int
      BY <2>3, <2>4
    <3>2. (H * b) % l \in Int
      BY <3>1, Reduced
    <3> QED BY <2>3, <3>2
  <2> HIDE DEF g, ones
  <2> QED BY <2>1, <2>2, <2>5, <2>6, Reduced, TimesEight
<1>7. g \in Seq(Scalar) /\ Len(g) = n
  <2>1. g \in [1 .. n -> Scalar]
    BY <1>6
  <2> HIDE DEF g, n
  <2> QED BY <1>1, <2>1, VectorIs
<1> HIDE DEF g, ones, zeroes
<1> QED BY <1>3, <1>4, <1>6, <1>7 DEF Proves, p

(* Concatenated: what comes first, and what comes after it.                *)
LEMMA Concatenated ==
  ASSUME NEW S, NEW s \in Seq(S), NEW t \in Seq(S), NEW a, NEW b, Len(s) = a, Len(t) = b
  PROVE  /\ s \o t \in Seq(S) /\ a \in Nat /\ b \in Nat /\ Len(s \o t) = a + b
         /\ \A i \in 1 .. a : (s \o t)[i] = s[i]
         /\ \A j \in 1 .. b : (s \o t)[a + j] = t[j]
<1>1. s \o t \in Seq(S) /\ a \in Nat /\ b \in Nat /\ Len(s \o t) = a + b
  OBVIOUS
<1>2. (\A i \in 1 .. a : (s \o t)[i] = s[i]) /\ \A j \in 1 .. b : (s \o t)[a + j] = t[j]
  OBVIOUS
<1> QED BY <1>1, <1>2

(* OpensTo: the masks open the commitments of outputs to their amounts.    *)
(* Ranged: and the range proofs have these commitments.                    *)
OpensTo(r, amounts) ==
  LET n == Len(amounts)
  IN  /\ r.C \in Seq(Scalar) /\ Len(r.C) = n /\ r.masks \in Seq(Scalar) /\ Len(r.masks) = n
      /\ \A i \in 1 .. n : r.C[i] = commit(amounts[i], r.masks[i])

Ranged(r, amounts, fake) ==
  LET n == Len(amounts)
      V == Committed(r.bulletproofs)
  IN  /\ OpensTo(r, amounts)
      /\ V \in Seq(Scalar) /\ Len(V) = n
      /\ ~fake => \A i \in 1 .. n : scalarmult8(V[i]) = r.C[i]

(* Listed: a list of proofs, and of the commitments of each.               *)
VsOf(proofs) == [b \in 1 .. Len(proofs) |-> proofs[b].V]
Listed(proofs) == (\E T : proofs \in Seq(T)) /\ VsOf(proofs) \in Seq(Seq(Scalar))

(* CommittedMore, RangedMore: one more proof before those there are.       *)
LEMMA CommittedMore ==
  ASSUME NEW proof, proof.V \in Seq(Scalar), NEW proofs, Listed(proofs)
  PROVE  Listed(<<proof>> \o proofs) /\ Committed(<<proof>> \o proofs) = proof.V \o Committed(proofs)
         /\ Committed(proofs) \in Seq(Scalar)
<1> DEFINE q == <<proof>> \o proofs
           v == proof.V
<1>1. PICK T : proofs \in Seq(T)
  BY DEF Listed
<1> DEFINE n == Len(proofs)
           U == T \union {proof}
<1>2. q \in Seq(U) /\ n \in Nat /\ Len(q) = n + 1 /\ q[1] = proof /\ \A j \in 1 .. n : q[j + 1] = proofs[j]
  <2>1. proofs \in Seq(U) /\ <<proof>> \in Seq(U)
    BY <1>1
  <2> HIDE DEF U
  <2> QED BY <2>1
<1> HIDE DEF q, U, v
<1>3. VsOf(proofs) \in Seq(Seq(Scalar)) /\ Len(VsOf(proofs)) = n /\ \A j \in 1 .. n : VsOf(proofs)[j] = proofs[j].V
  BY <1>2 DEF VsOf, Listed
<1>4. Len(VsOf(q)) = n + 1 /\ \A j \in 1 .. n + 1 : VsOf(q)[j] = q[j].V
  BY <1>2 DEF VsOf
<1> DEFINE w == <<v>> \o VsOf(proofs)
<1>5. w \in Seq(Seq(Scalar)) /\ Len(w) = n + 1 /\ w[1] = v /\ \A j \in 1 .. n : w[j + 1] = proofs[j].V
  <2> DEFINE p == VsOf(proofs)
             S == Seq(Scalar)
  <2>1. p \in Seq(S) /\ Len(p) = n /\ v \in S
    BY <1>3 DEF v
  <2> HIDE DEF p, S
  <2>2. <<v>> \o p \in Seq(S) /\ Len(<<v>> \o p) = n + 1 /\ (<<v>> \o p)[1] = v
        /\ \A j \in 1 .. n : (<<v>> \o p)[j + 1] = p[j]
    BY <1>2, <2>1
  <2> QED BY <1>3, <2>2 DEF p, S
<1> HIDE DEF w
<1>6. VsOf(q) = w
  <2>1. DOMAIN VsOf(q) = 1 .. n + 1 /\ DOMAIN w = 1 .. n + 1
    BY <1>2, <1>5 DEF VsOf
  <2>2. ASSUME NEW i \in 1 .. n + 1 PROVE VsOf(q)[i] = w[i]
    <3>1. CASE i = 1
      BY <1>2, <1>4, <1>5, <3>1 DEF v
    <3>2. CASE i # 1
      <4>1. i - 1 \in 1 .. n /\ i - 1 + 1 = i
        BY <1>2, <3>2
      <4>2. q[i - 1 + 1] = proofs[i - 1] /\ w[i - 1 + 1] = proofs[i - 1].V
        BY <1>2, <1>5, <4>1
      <4> QED BY <1>4, <4>1, <4>2
    <3> QED BY <3>1, <3>2
  <2>3. VsOf(q) = [i \in 1 .. n + 1 |-> VsOf(q)[i]] /\ w = [i \in 1 .. n + 1 |-> w[i]]
    <3>1. VsOf(q) = [i \in 1 .. n + 1 |-> VsOf(q)[i]]
      BY <1>2 DEF VsOf
    <3>2. w = [i \in 1 .. n + 1 |-> w[i]]
      BY <1>5, <2>1
    <3> QED BY <3>1, <3>2
  <2> QED BY <2>2, <2>3
<1>7. v \in Seq(Scalar)
  BY DEF v
<1>8. Joined(VsOf(proofs)) \in Seq(Scalar) /\ Joined(w) = v \o Joined(VsOf(proofs))
  BY <1>3, <1>7, JoinedMore DEF w
<1>9. Committed(q) = Joined(VsOf(q)) /\ Committed(proofs) = Joined(VsOf(proofs))
  BY DEF Committed, VsOf
<1>10. Listed(q)
  BY <1>2, <1>5, <1>6 DEF Listed
<1> QED BY <1>6, <1>8, <1>9, <1>10 DEF q, v

LEMMA RangedMore ==
  ASSUME NEW x \in Seq(Amount), NEW y \in Seq(Amount), NEW fake \in BOOLEAN,
         NEW p, Proves(p, x, fake), NEW r, Ranged(r, y, fake), Listed(r.bulletproofs)
  PROVE  LET more == [C |-> Vector([i \in 1 .. Len(p.C) |-> scalarmult8(p.C[i])]) \o r.C,
                      masks |-> p.masks \o r.masks,
                      rangeSigs |-> << >>, bulletproofs |-> <<p.proof>> \o r.bulletproofs]
         IN  Ranged(more, x \o y, fake) /\ Listed(more.bulletproofs)
<1> DEFINE a == Len(x)
           b == Len(y)
           D == [i \in 1 .. Len(p.C) |-> scalarmult8(p.C[i])]
           C == D \o r.C
           m == p.masks \o r.masks
           q == <<p.proof>> \o r.bulletproofs
           V == Committed(q)
           z == x \o y
           more == [C |-> Vector(D) \o r.C, masks |-> m, rangeSigs |-> << >>, bulletproofs |-> q]
           W == Committed(r.bulletproofs)
<1>1. /\ p.C \in Seq(Scalar) /\ Len(p.C) = a /\ p.masks \in Seq(Scalar) /\ Len(p.masks) = a
      /\ \A i \in 1 .. a : scalarmult8(p.C[i]) = commit(x[i], p.masks[i])
      /\ p.proof.V \in Seq(Scalar) /\ Len(p.proof.V) = a
      /\ ~fake => p.proof.V = p.C
  BY DEF Proves
<1>2. /\ r.C \in Seq(Scalar) /\ Len(r.C) = b /\ r.masks \in Seq(Scalar) /\ Len(r.masks) = b
      /\ \A i \in 1 .. b : r.C[i] = commit(y[i], r.masks[i])
      /\ W \in Seq(Scalar) /\ Len(W) = b
      /\ ~fake => \A i \in 1 .. b : scalarmult8(W[i]) = r.C[i]
  BY DEF Ranged, OpensTo
<1>3. a \in Nat /\ b \in Nat /\ Len(z) = a + b /\ (\A i \in 1 .. a : z[i] = x[i]) /\ (\A j \in 1 .. b : z[a + j] = y[j])
  BY Concatenated
<1>4. D \in [1 .. a -> Scalar]
  <2>1. ASSUME NEW i \in 1 .. a PROVE scalarmult8(p.C[i]) \in Scalar
    <3>1. p.C[i] \in Scalar
      BY <1>1
    <3> DEFINE c == p.C[i]
    <3>2. c \in Int
      BY <3>1, Reduced
    <3> HIDE DEF c
    <3>3. c * 8 \in Int
      BY <3>2
    <3>4. scalarmult8(c) \in Scalar
      BY <3>3, Reduced DEF scalarmult8, scalarmultKey
    <3> QED BY <3>4 DEF c
  <2> QED BY <1>1, <2>1
<1>5. Vector(D) = D /\ D \in Seq(Scalar) /\ Len(D) = a /\ \A i \in 1 .. a : D[i] = scalarmult8(p.C[i])
  <2>1. \A i \in 1 .. a : D[i] = scalarmult8(p.C[i])
    BY <1>1
  <2> HIDE DEF D, a
  <2> QED BY <1>3, <1>4, <2>1, VectorIs
<1> HIDE DEF D, z, a, b
<1>6. C \in Seq(Scalar) /\ Len(C) = a + b /\ (\A i \in 1 .. a : C[i] = D[i]) /\ (\A j \in 1 .. b : C[a + j] = r.C[j])
  <2>1. r.C \in Seq(Scalar) /\ Len(r.C) = b
    BY <1>2
  <2> DEFINE t == r.C
  <2> HIDE DEF t
  <2>2. D \o t \in Seq(Scalar) /\ Len(D \o t) = a + b /\ (\A i \in 1 .. a : (D \o t)[i] = D[i])
        /\ (\A j \in 1 .. b : (D \o t)[a + j] = t[j])
    BY <1>5, <2>1, Concatenated DEF t
  <2> QED BY <2>2 DEF t
<1>7. /\ m \in Seq(Scalar) /\ Len(m) = a + b
      /\ (\A i \in 1 .. a : m[i] = p.masks[i]) /\ (\A j \in 1 .. b : m[a + j] = r.masks[j])
  <2> DEFINE s == p.masks
             t == r.masks
  <2>1. s \in Seq(Scalar) /\ Len(s) = a /\ t \in Seq(Scalar) /\ Len(t) = b
    BY <1>1, <1>2
  <2> HIDE DEF s, t
  <2>2. s \o t \in Seq(Scalar) /\ Len(s \o t) = a + b /\ (\A i \in 1 .. a : (s \o t)[i] = s[i])
        /\ (\A j \in 1 .. b : (s \o t)[a + j] = t[j])
    BY <2>1, Concatenated
  <2> QED BY <2>2 DEF s, t
<1>8. V = p.proof.V \o W /\ Listed(q)
  BY <1>1, CommittedMore
<1> HIDE DEF q, V
<1>9. V \in Seq(Scalar) /\ Len(V) = a + b /\ (\A i \in 1 .. a : V[i] = p.proof.V[i]) /\ (\A j \in 1 .. b : V[a + j] = W[j])
  <2> DEFINE s == p.proof.V
  <2>1. s \in Seq(Scalar) /\ Len(s) = a /\ W \in Seq(Scalar) /\ Len(W) = b
    BY <1>1, <1>2
  <2> HIDE DEF s, W
  <2>2. s \o W \in Seq(Scalar) /\ Len(s \o W) = a + b /\ (\A i \in 1 .. a : (s \o W)[i] = s[i])
        /\ (\A j \in 1 .. b : (s \o W)[a + j] = W[j])
    BY <2>1, Concatenated
  <2> QED BY <1>8, <2>2 DEF s
<1> HIDE DEF C, m, W
<1>10. \A i \in 1 .. a + b : i \in 1 .. a \/ \E j \in 1 .. b : i = a + j
  <2> SUFFICES ASSUME NEW i \in 1 .. a + b, i \notin 1 .. a PROVE \E j \in 1 .. b : i = a + j
    OBVIOUS
  <2>1. i - a \in 1 .. b /\ i = a + (i - a)
    BY <1>3
  <2> QED BY <2>1
<1>11. ASSUME NEW i \in 1 .. a + b PROVE C[i] = commit(z[i], m[i])
  <2>1. CASE i \in 1 .. a
    BY <1>1, <1>3, <1>5, <1>6, <1>7, <2>1
  <2>2. ASSUME NEW j \in 1 .. b, i = a + j PROVE C[i] = commit(z[i], m[i])
    BY <1>2, <1>3, <1>6, <1>7, <2>2
  <2> QED BY <1>10, <2>1, <2>2
<1>12. ASSUME NEW i \in 1 .. a + b, ~fake PROVE scalarmult8(V[i]) = C[i]
  <2>1. CASE i \in 1 .. a
    BY <1>1, <1>5, <1>6, <1>9, <1>12, <2>1
  <2>2. ASSUME NEW j \in 1 .. b, i = a + j PROVE scalarmult8(V[i]) = C[i]
    BY <1>2, <1>6, <1>9, <1>12, <2>2
  <2> QED BY <1>10, <2>1, <2>2
<1>13. more.C = C /\ more.masks = m /\ more.bulletproofs = q
  BY <1>5 DEF C
<1> HIDE DEF more
<1>14. Ranged(more, z, fake)
  BY <1>3, <1>6, <1>7, <1>9, <1>11, <1>12, <1>13 DEF Ranged, OpensTo, V
<1> QED BY <1>8, <1>13, <1>14 DEF more, z, D, m, q

(* RangesCommit: the commitments of the outputs, however their proofs are  *)
(* divided, also those of an estimate, and what the proofs commit to.      *)
LEMMA RangesCommit ==
  ASSUME NEW type, type # RCTTypeSimple, NEW range_proof_type \in RangeTypes, NEW fake \in BOOLEAN,
         NEW amounts \in Seq(Amount), NEW keys \in Seq(Int), Len(keys) = Len(amounts), NEW draw
  PROVE  Ranged(OutputRanges(type, range_proof_type, fake, amounts, keys, draw), amounts, fake)
<1> DEFINE n == Len(amounts)
           last == n + 1
           After(first) == first + BatchSize(range_proof_type, n + 1 - first)
           For(first) == ProveOutputs(type, fake, SubSeq(amounts, first, After(first) - 1),
                                      SubSeq(keys, first, After(first) - 1), draw \o <<1, first>>)
           Before(p, r) ==
             [C |-> Vector([i \in 1 .. Len(p.C) |-> scalarmult8(p.C[i])]) \o r.C, masks |-> p.masks \o r.masks,
              rangeSigs |-> << >>, bulletproofs |-> <<p.proof>> \o r.bulletproofs]
           none == [C |-> << >>, masks |-> << >>, rangeSigs |-> << >>, bulletproofs |-> << >>]
           Is(f, from) == f = [i \in from .. last |-> IF i = last THEN none ELSE Before(For(i), f[After(i)])]
           proved == CHOOSE f : Is(f, 1)
           Good(r, first) == Ranged(r, SubSeq(amounts, first, n), fake) /\ Listed(r.bulletproofs)
<1>1. OutputRanges(type, range_proof_type, fake, amounts, keys, draw) = proved[1]
  BY DEF OutputRanges
<1>2. n \in Nat /\ last \in Nat /\ last >= 1
  OBVIOUS
<1>3. ASSUME NEW i \in 1 .. n PROVE After(i) \in i + 1 .. last
  <2> DEFINE left == n + 1 - i
             size == BatchSize(range_proof_type, left)
  <2>1. left \in Nat \ {0}
    BY <1>2
  <2>2. size \in 1 .. left
    <3> HIDE DEF left
    <3> QED BY <2>1, Batched
  <2> HIDE DEF size
  <2> QED BY <1>2, <2>2 DEF size
<1>4. ASSUME NEW i \in 1 .. n, NEW r, Good(r, After(i)) PROVE Good(Before(For(i), r), i)
  <2> DEFINE next == After(i)
             x == SubSeq(amounts, i, next - 1)
             y == SubSeq(amounts, next, n)
             ks == SubSeq(keys, i, next - 1)
  <2>1. next \in i + 1 .. n + 1
    BY <1>3
  <2>2. For(i) = ProveOutputs(type, fake, x, ks, draw \o <<1, i>>)
    OBVIOUS
  <2>3. Good(r, next)
    BY <1>4
  <2> HIDE DEF next, After, For
  <2>4. /\ x \in Seq(Amount) /\ y \in Seq(Amount) /\ ks \in Seq(Int) /\ Len(ks) = Len(x)
        /\ SubSeq(amounts, i, n) \in Seq(Amount)
    BY <1>2, <2>1
  <2>5. SubSeq(amounts, i, n) = x \o y
    BY <1>2, <2>1
  <2>6. Proves(For(i), x, fake)
    <3> HIDE DEF x, ks
    <3>1. CASE fake
      BY <2>2, <2>4, <3>1, DummyProof DEF ProveOutputs
    <3>2. CASE ~fake
      <4>1. Proves(proveRangeBulletproof(type, x, ks, draw \o <<1, i>>), x, FALSE)
        BY <2>4, RealProof
      <4> QED BY <2>2, <3>2, <4>1 DEF ProveOutputs
    <3> QED BY <3>1, <3>2
  <2>7. Ranged(r, y, fake) /\ Listed(r.bulletproofs)
    BY <2>3
  <2> HIDE DEF x, y
  <2>8. Ranged(Before(For(i), r), x \o y, fake) /\ Listed(Before(For(i), r).bulletproofs)
    BY <2>4, <2>6, <2>7, RangedMore
  <2> QED BY <2>5, <2>8
<1>5. Good(none, last)
  <2>1. SubSeq(amounts, last, n) = << >>
    BY <1>2
  <2>2. Committed(<< >>) = << >>
    <3>1. [b \in 1 .. Len(<< >>) |-> << >>[b].V] = << >>
      OBVIOUS
    <3> QED BY <3>1, JoinedNone DEF Committed
  <2>3. Listed(<< >>)
    <3>1. VsOf(<< >>) = << >> /\ << >> \in Seq(Seq(Scalar)) /\ << >> \in Seq({})
      BY DEF VsOf
    <3> QED BY <3>1 DEF Listed
  <2>4. none.C = << >> /\ none.masks = << >> /\ none.bulletproofs = << >>
    OBVIOUS
  <2> HIDE DEF none, last
  <2>5. << >> \in Seq(Scalar) /\ Len(<< >>) = 0 /\ 1 .. 0 = {}
    OBVIOUS
  <2> DEFINE e == << >>
  <2> HIDE DEF e
  <2>6. Ranged(none, e, fake)
    BY <2>2, <2>4, <2>5 DEF Ranged, OpensTo, e
  <2>7. Listed(none.bulletproofs)
    BY <2>3, <2>4
  <2> QED BY <2>1, <2>6, <2>7 DEF e
<1> HIDE DEF Good, Before, For, none
<1>6. \E f : Is(f, 1)
  <2> DEFINE P == {k \in Nat : k <= n => \E f : Is(f, last - k)}
  <2>1. 0 \in P
    <3> DEFINE f == [i \in last .. last |-> none]
    <3>1. Is(f, last)
      BY <1>2
    <3>2. last - 0 = last
      BY <1>2
    <3> HIDE DEF f, Is
    <3> QED BY <3>1, <3>2
  <2>2. ASSUME NEW k \in Nat, k \in P PROVE k + 1 \in P
    <3> SUFFICES ASSUME k + 1 <= n PROVE \E f : Is(f, last - (k + 1))
      OBVIOUS
    <3> DEFINE from == last - (k + 1)
    <3>1. from \in 1 .. n /\ last - k = from + 1 /\ k <= n
      BY <1>2
    <3>2. PICK g : Is(g, from + 1)
      BY <2>2, <3>1
    <3> DEFINE f == [i \in from .. last |-> IF i = from THEN Before(For(from), g[After(from)]) ELSE g[i]]
    <3> HIDE DEF from
    <3>3. ASSUME NEW i \in from .. last PROVE f[i] = IF i = last THEN none ELSE Before(For(i), f[After(i)])
      <4>1. i # last => i \in 1 .. n /\ After(i) \in i + 1 .. last /\ After(i) \in from + 1 .. last
        <5>1. i # last => i \in 1 .. n
          <6>1. last = n + 1 /\ n \in Nat /\ last \in Nat
            BY <1>2
          <6> HIDE DEF last, n
          <6> QED BY <3>1, <6>1
        <5>2. i # last => After(i) \in i + 1 .. last
          BY <1>3, <5>1
        <5> HIDE DEF After
        <5> QED BY <1>2, <3>1, <5>1, <5>2
      <4> HIDE DEF After, last
      <4>2. \A j \in from + 1 .. last : f[j] = g[j]
        BY <1>2, <3>1
      <4>3. CASE i = from
        <5>1. i # last
          BY <1>2, <3>1, <4>3 DEF last
        <5>2. f[i] = Before(For(from), g[After(from)])
          BY <4>3
        <5> HIDE DEF f
        <5> QED BY <4>1, <4>2, <4>3, <5>1, <5>2
      <4>4. CASE i # from
        <5>1. i \in from + 1 .. last
          BY <1>2, <3>1, <4>4
        <5>2. f[i] = g[i]
          BY <4>2, <5>1
        <5> HIDE DEF f
        <5>3. g[i] = IF i = last THEN none ELSE Before(For(i), g[After(i)])
          BY <3>2, <5>1
        <5> QED BY <4>1, <4>2, <5>2, <5>3
      <4> QED BY <4>3, <4>4
    <3>4. Is(f, from)
      <4>1. f = [i \in from .. last |-> f[i]]
        OBVIOUS
      <4> HIDE DEF f
      <4> QED BY <3>3, <4>1
    <3> HIDE DEF f, Is
    <3> QED BY <3>4 DEF from
  <2>3. Nat \subseteq P
    <3> HIDE DEF P
    <3> QED BY <2>1, <2>2, Upwards
  <2>4. n \in P /\ last - n = 1
    BY <1>2, <2>3
  <2> HIDE DEF Is
  <2> QED BY <1>2, <2>4
<1>7. Is(proved, 1)
  <2> HIDE DEF Is
  <2> QED BY <1>6
<1> HIDE DEF proved
<1>8. proved[last] = none /\ \A i \in 1 .. n : proved[i] = Before(For(i), proved[After(i)])
  <2>1. \A i \in 1 .. last : proved[i] = IF i = last THEN none ELSE Before(For(i), proved[After(i)])
    BY <1>7
  <2> HIDE DEF After, Is
  <2>2. last \in 1 .. last /\ \A i \in 1 .. n : i \in 1 .. last /\ i # last
    BY <1>2
  <2> HIDE DEF last
  <2> QED BY <2>1, <2>2
<1> HIDE DEF Is
<1>9. \A k \in Nat : k <= n => \A i \in last - k .. last : Good(proved[i], i)
  <2> DEFINE P == {k \in Nat : k <= n => \A i \in last - k .. last : Good(proved[i], i)}
  <2>1. 0 \in P
    <3>1. \A i \in last - 0 .. last : i = last
      BY <1>2
    <3> HIDE DEF last
    <3> QED BY <1>5, <1>8, <3>1
  <2>2. ASSUME NEW k \in Nat, k \in P PROVE k + 1 \in P
    <3> SUFFICES ASSUME k + 1 <= n, NEW i \in last - (k + 1) .. last PROVE Good(proved[i], i)
      OBVIOUS
    <3>1. k <= n /\ (i \in last - k .. last \/ i = last - (k + 1))
      <4>1. n \in Nat /\ last \in Nat
        BY <1>2
      <4> HIDE DEF last, n, P
      <4> QED BY <4>1
    <3>2. CASE i \in last - k .. last
      BY <2>2, <3>1, <3>2
    <3>3. CASE i = last - (k + 1)
      <4>1. i \in 1 .. n
        BY <1>2, <3>3
      <4>2. After(i) \in last - k .. last
        <5>1. After(i) \in i + 1 .. last
          BY <1>3, <4>1
        <5> HIDE DEF After
        <5> QED BY <1>2, <3>3, <4>1, <5>1
      <4> HIDE DEF After
      <4>3. Good(proved[After(i)], After(i))
        BY <2>2, <3>1, <4>2
      <4>4. Good(Before(For(i), proved[After(i)]), i)
        BY <1>4, <4>1, <4>3
      <4> QED BY <1>8, <4>1, <4>4
    <3> QED BY <3>1, <3>2, <3>3
  <2>3. Nat \subseteq P
    <3> HIDE DEF P
    <3> QED BY <2>1, <2>2, Upwards
  <2> QED BY <2>3
<1>10. Good(proved[1], 1)
  <2>1. 1 \in last - n .. last /\ n <= n
    BY <1>2
  <2> HIDE DEF last
  <2> QED BY <1>2, <1>9, <2>1
<1>11. SubSeq(amounts, 1, n) = amounts
  OBVIOUS
<1> QED BY <1>1, <1>10, <1>11 DEF Good

(* BitRanges, BitsOpened: the commitments of outputs whose amounts are     *)
(* proved bit by bit.                                                      *)
LEMMA BitRanges ==
  ASSUME NEW n \in Nat, NEW amounts, \A i \in 1 .. n : amounts[i] \in Amount, NEW draw \in Seq(Int)
  PROVE  LET range == Vector([i \in 1 .. n |-> proveRange(amounts[i], draw \o <<1, i>>)])
         IN  /\ Len(range) = n
             /\ \A i \in 1 .. n : range[i].mask \in Scalar /\ range[i].C = commit(amounts[i], range[i].mask)
<1> DEFINE OfOutput(i) == proveRange(amounts[i], draw \o <<1, i>>)
           f == [i \in 1 .. n |-> OfOutput(i)]
           S == {OfOutput(i) : i \in 1 .. n}
<1>1. ASSUME NEW i \in 1 .. n PROVE OfOutput(i).mask \in Scalar /\ OfOutput(i).C = commit(amounts[i], OfOutput(i).mask)
  <2>1. draw \o <<1, i>> \in Seq(Int)
    <3>1. <<1, i>> \in Seq(Int)
      OBVIOUS
    <3> DEFINE t == <<1, i>>
    <3> HIDE DEF t
    <3>2. draw \o t \in Seq(Int)
      BY <3>1 DEF t
    <3> QED BY <3>2 DEF t
  <2> DEFINE d == draw \o <<1, i>>
  <2> HIDE DEF d
  <2>2. proveRange(amounts[i], d).mask \in Scalar
        /\ proveRange(amounts[i], d).C = commit(amounts[i], proveRange(amounts[i], d).mask)
    BY <2>1, BitsCommitted DEF d
  <2> QED BY <2>2 DEF d
<1> HIDE DEF OfOutput
<1>2. f \in [1 .. n -> S]
  OBVIOUS
<1>3. \A i \in 1 .. n : f[i] = OfOutput(i)
  OBVIOUS
<1> HIDE DEF f, S
<1>4. Vector(f) = f /\ Len(f) = n
  BY <1>2, VectorIs
<1> QED BY <1>1, <1>3, <1>4 DEF f, OfOutput

LEMMA BitsOpened ==
  ASSUME NEW range_proof_type, NEW fake, NEW amounts \in Seq(Amount), NEW keys, NEW draw \in Seq(Int)
  PROVE  OpensTo(OutputRanges(RCTTypeSimple, range_proof_type, fake, amounts, keys, draw), amounts)
<1> DEFINE n == Len(amounts)
           range == Vector([i \in 1 .. n |-> proveRange(amounts[i], draw \o <<1, i>>)])
           C == [i \in 1 .. n |-> range[i].C]
           masks == [i \in 1 .. n |-> range[i].mask]
           r == OutputRanges(RCTTypeSimple, range_proof_type, fake, amounts, keys, draw)
<1>1. r.C = C /\ r.masks = masks
  BY DEF OutputRanges
<1>2. n \in Nat /\ \A i \in 1 .. n : amounts[i] \in Amount
  OBVIOUS
<1>3. \A i \in 1 .. n : range[i].mask \in Scalar /\ range[i].C = commit(amounts[i], range[i].mask)
  BY <1>2, BitRanges
<1> HIDE DEF r, range, n
<1>4. masks \in [1 .. n -> Scalar] /\ \A i \in 1 .. n : masks[i] = range[i].mask /\ C[i] = range[i].C
  BY <1>3
<1>5. \A i \in 1 .. n : commit(amounts[i], masks[i]) \in Scalar
  <2> SUFFICES ASSUME NEW i \in 1 .. n PROVE commit(amounts[i], masks[i]) \in Scalar
    OBVIOUS
  <2> DEFINE v == amounts[i]
             m == masks[i]
  <2>1. v \in Int /\ m \in Int /\ H \in Int
    <3>1. amounts[i] \in Amount /\ masks[i] \in Scalar
      BY <1>2, <1>4
    <3>2. 2 ^ ATOMS \in Int
      BY AtomsAssumption, PowersOfTwo
    <3>3. Amount \subseteq Int
      BY <3>2 DEF Amount
    <3> QED BY <3>1, <3>3, HashedH, Reduced
  <2> HIDE DEF v, m, masks
  <2>2. H * v \in Int
    BY <2>1
  <2>3. (H * v) % l \in Int
    BY <2>2, Reduced
  <2>4. m + ((H * v) % l) \in Int
    BY <2>1, <2>3
  <2>5. commit(v, m) \in Scalar
    BY <2>4, Reduced DEF commit, genC, addKeys2, addKeys, scalarmultBase, scalarmultKey, d2h
  <2> QED BY <2>5 DEF v, m
<1>6. C \in [1 .. n -> Scalar]
  BY <1>3, <1>4, <1>5
<1> HIDE DEF C, masks
<1>7. C \in Seq(Scalar) /\ Len(C) = n /\ masks \in Seq(Scalar) /\ Len(masks) = n
  BY <1>2, <1>4, <1>6, VectorIs
<1> QED BY <1>1, <1>3, <1>4, <1>7 DEF OpensTo, r, n

-----------------------------------------------------------------------------
(* A signed transaction.                                                   *)

(* Sound: the commitments of a signed transaction are to the amounts, and  *)
(* its range proofs have them.                                             *)
Sound(rv, outSk, amounts, fake) ==
  LET V == Committed(rv.bulletproofs)
  IN  /\ is_rct_simple(rv.type) => Balanced(rv)
      /\ Len(rv.outPk) = Len(amounts)
      /\ \A i \in 1 .. Len(rv.outPk) : rv.outPk[i].mask = commit(amounts[i], outSk[i].mask)
      /\ ~is_rct_borromean(rv.type) =>
           /\ Len(V) = Len(rv.outPk)
           /\ ~fake => \A i \in 1 .. Len(V) : scalarmult8(V[i]) = rv.outPk[i].mask

(* SimpleSound: the sums are equal as those of the masks and those of the  *)
(* amounts are.                                                            *)
LEMMA SimpleSound ==
  ASSUME NEW type \in RCTTypeSimple .. RCTTypeBulletproofPlus, NEW range_proof_type \in RangeTypes, NEW fake \in BOOLEAN,
         NEW message, NEW inSk, NEW destinations,
         NEW inamounts \in Seq(Amount), inamounts # << >>, NEW outamounts \in Seq(Amount), NEW txnFee \in Amount,
         NEW mixRing, NEW amount_keys \in Seq(Int), NEW index, NEW draw \in Seq(Int),
         Len(destinations) = Len(outamounts), Len(amount_keys) = Len(outamounts),
         AddedUp(inamounts, Len(inamounts)) = sc_add(AddedUp(outamounts, Len(outamounts)), txnFee)
  PROVE  LET s == genRctSimple(type, range_proof_type, fake, message, inSk, destinations, inamounts, outamounts,
                               txnFee, mixRing, amount_keys, index, draw)
         IN  Sound(s.rv, s.outSk, outamounts, fake)
<1> DEFINE s == genRctSimple(type, range_proof_type, fake, message, inSk, destinations, inamounts, outamounts,
                             txnFee, mixRing, amount_keys, index, draw)
           r == OutputRanges(type, range_proof_type, fake, outamounts, amount_keys, draw)
           n == Len(outamounts)
           m == Len(inamounts)
           a == PseudoMasks(r.masks, m, draw)
           outs == [i \in 1 .. n |-> r.C[i]]
           ins == [i \in 1 .. m |-> genC(a[i], inamounts[i])]
           h == H
           A == AddedUp(r.masks, n)
           v == AddedUp(outamounts, n)
<1>1. /\ s.rv.type = type /\ s.rv.txnFee = txnFee /\ s.rv.bulletproofs = r.bulletproofs
      /\ s.rv.outPk = [i \in 1 .. n |-> [dest |-> destinations[i], mask |-> r.C[i]]]
      /\ s.rv.pseudoOuts = ins
      /\ s.outSk = [i \in 1 .. n |-> [dest |-> 0, mask |-> r.masks[i]]]
  <2>1. /\ s.rv.type = type /\ s.rv.txnFee = txnFee /\ s.rv.bulletproofs = r.bulletproofs
        /\ s.rv.outPk = [i \in 1 .. Len(destinations) |-> [dest |-> destinations[i], mask |-> r.C[i]]]
        /\ s.rv.pseudoOuts = [i \in 1 .. Len(inamounts) |-> genC(PseudoMasks(r.masks, Len(inamounts), draw)[i], inamounts[i])]
        /\ s.outSk = [i \in 1 .. Len(destinations) |-> [dest |-> 0, mask |-> r.masks[i]]]
    <3> HIDE DEF m, n, a, outs, ins, h, A, v
    <3> QED BY DEF genRctSimple
  <2>2. Len(destinations) = n
    OBVIOUS
  <2> HIDE DEF s, r, n
  <2> QED BY <2>1, <2>2
<1>2. OpensTo(r, outamounts) /\ (~is_rct_borromean(type) => Ranged(r, outamounts, fake))
  <2>1. CASE type = RCTTypeSimple
    BY <2>1, BitsOpened DEF is_rct_borromean
  <2>2. CASE type # RCTTypeSimple
    <3>1. Ranged(r, outamounts, fake)
      BY <2>2, RangesCommit
    <3> HIDE DEF r
    <3> QED BY <3>1 DEF Ranged
  <2> QED BY <2>1, <2>2
<1> HIDE DEF s, r
<1>3. /\ r.C \in Seq(Scalar) /\ Len(r.C) = n /\ r.masks \in [1 .. n -> Scalar]
      /\ \A i \in 1 .. n : r.C[i] = commit(outamounts[i], r.masks[i])
  BY <1>2 DEF OpensTo
<1>4. n \in Nat /\ m \in Nat \ {0} /\ (\A i \in 1 .. n : outamounts[i] \in Int) /\ (\A i \in 1 .. m : inamounts[i] \in Int)
      /\ txnFee \in Int /\ h \in Int
  <2>1. 2 ^ ATOMS \in Int
    BY AtomsAssumption, PowersOfTwo
  <2>2. Amount \subseteq Int
    BY <2>1 DEF Amount
  <2>3. h \in Int
    BY HashedH, Reduced
  <2>4. n \in Nat /\ m \in Nat \ {0} /\ (\A i \in 1 .. n : outamounts[i] \in Amount) /\ (\A i \in 1 .. m : inamounts[i] \in Amount)
    OBVIOUS
  <2> HIDE DEF n, m, h
  <2> QED BY <2>2, <2>3, <2>4
<1> HIDE DEF n, m, h
<1>5. a \in [1 .. m -> Scalar] /\ AddedUp(a, m) = A
  <2> DEFINE masks == r.masks
  <2>1. masks \in [1 .. n -> Scalar] /\ n \in Nat /\ m \in Nat \ {0}
    BY <1>3, <1>4
  <2> HIDE DEF masks
  <2>2. /\ PseudoMasks(masks, m, draw) \in [1 .. m -> Scalar]
        /\ AddedUp(PseudoMasks(masks, m, draw), m) = AddedUp(masks, n)
    BY <2>1, MasksBalance
  <2> QED BY <2>2 DEF masks
<1> HIDE DEF a
<1>6. AddedUp(outs, n) = (A + h * v) % l
  <2>1. \A i \in 1 .. n : r.masks[i] \in Int /\ outamounts[i] \in Int /\ outs[i] = commit(outamounts[i], r.masks[i])
    BY <1>3, <1>4, Reduced
  <2> HIDE DEF outs
  <2> QED BY <1>4, <2>1, CommitmentSum DEF h
<1>7. AddedUp(ins, m) = (A + h * AddedUp(inamounts, m)) % l
  <2>1. \A i \in 1 .. m : a[i] \in Int /\ inamounts[i] \in Int /\ ins[i] = commit(inamounts[i], a[i])
    BY <1>4, <1>5, Reduced DEF commit
  <2> HIDE DEF ins
  <2>2. AddedUp(ins, m) = (AddedUp(a, m) + h * AddedUp(inamounts, m)) % l
    BY <1>4, <2>1, CommitmentSum DEF h
  <2> QED BY <1>5, <2>2
<1>8. A \in Int /\ v \in Int
  <2> DEFINE masks == r.masks
  <2>1. n \in Nat /\ (\A i \in 1 .. n : masks[i] \in Int)
    BY <1>3, <1>4, Reduced
  <2> HIDE DEF masks
  <2>2. AddedUp(masks, n) \in Int /\ AddedUp(outamounts, n) \in Int
    BY <1>4, <2>1, SumReduced
  <2> QED BY <2>2 DEF masks
<1> HIDE DEF A, v
<1>9. AddedUp(ins, m) = sc_add(AddedUp(outs, n), scalarmultH(d2h(txnFee)))
  <2> DEFINE p == A + h * v
             q == h * txnFee
             u == v + txnFee
  <2>1. p \in Int /\ q \in Int /\ u \in Int
    BY <1>4, <1>8
  <2>2. AddedUp(inamounts, m) = u % l
    BY DEF sc_add, n, m, v
  <2>3. AddedUp(ins, m) = (A + h * (u % l)) % l
    BY <1>7, <2>2
  <2>4. (A + h * (u % l)) % l = (A + h * u) % l
    <3> HIDE DEF u
    <3> QED BY <1>4, <1>8, <2>1, MulAddedTo
  <2>5. A + h * u = p + q
    BY <1>4, <1>8
  <2>6. ((p % l) + (q % l)) % l = (p + q) % l
    <3> HIDE DEF p, q
    <3> QED BY <2>1, AddedTwice
  <2>7. scalarmultH(d2h(txnFee)) = q % l
    BY DEF scalarmultH, scalarmultKey, d2h, h
  <2> HIDE DEF ins, outs, q, u
  <2> QED BY <1>6, <2>3, <2>4, <2>5, <2>6, <2>7 DEF sc_add
<1>10. Balanced(s.rv)
  <2>1. Len(s.rv.outPk) = n /\ Len(s.rv.pseudoOuts) = m
    BY <1>1, <1>4
  <2>2. [i \in 1 .. n |-> s.rv.outPk[i].mask] = outs
    BY <1>1
  <2> HIDE DEF outs, ins
  <2> QED BY <1>1, <1>9, <2>1, <2>2 DEF Balanced
<1>11. Len(s.rv.outPk) = n /\ \A i \in 1 .. n : s.rv.outPk[i].mask = r.C[i] /\ s.outSk[i].mask = r.masks[i]
  BY <1>1, <1>4
<1>12. ~is_rct_borromean(type) =>
         /\ Len(Committed(r.bulletproofs)) = n
         /\ ~fake => \A i \in 1 .. n : scalarmult8(Committed(r.bulletproofs)[i]) = r.C[i]
  BY <1>2 DEF Ranged, n
<1> QED BY <1>1, <1>3, <1>10, <1>11, <1>12 DEF Sound, s, n

(* FullSound: a full signature's commitments are to the amounts; its ring  *)
(* signature is over their sum.                                            *)
LEMMA FullSound ==
  ASSUME NEW message, NEW inSk, NEW destinations, NEW amounts, NEW fee, amounts \in Seq(Amount),
         NEW mixRing, NEW amount_keys, NEW index, NEW draw \in Seq(Int), NEW fake, Len(destinations) = Len(amounts)
  PROVE  LET s == genRct(message, inSk, destinations, Append(amounts, fee), mixRing, amount_keys, index, draw)
         IN  Sound(s.rv, s.outSk, amounts, fake)
<1> DEFINE all == Append(amounts, fee)
           s == genRct(message, inSk, destinations, all, mixRing, amount_keys, index, draw)
           n == Len(amounts)
           range == Vector([i \in 1 .. n |-> proveRange(all[i], draw \o <<1, i>>)])
<1>1. n \in Nat /\ \A i \in 1 .. n : all[i] = amounts[i] /\ all[i] \in Amount
  OBVIOUS
<1> HIDE DEF all, n
<1>2. /\ s.rv.type = RCTTypeFull
      /\ s.rv.outPk = [i \in 1 .. n |-> [dest |-> destinations[i], mask |-> range[i].C]]
      /\ s.outSk = [i \in 1 .. n |-> [dest |-> 0, mask |-> range[i].mask]]
  <2>1. Len(destinations) = n
    BY DEF n
  <2> DEFINE ranges == Vector([i \in 1 .. Len(destinations) |-> proveRange(all[i], draw \o <<1, i>>)])
  <2>2. /\ s.rv.type = RCTTypeFull
        /\ s.rv.outPk = [i \in 1 .. Len(destinations) |-> [dest |-> destinations[i], mask |-> ranges[i].C]]
        /\ s.outSk = [i \in 1 .. Len(destinations) |-> [dest |-> 0, mask |-> ranges[i].mask]]
    BY DEF genRct
  <2> HIDE DEF s
  <2> QED BY <2>1, <2>2
<1>3. \A i \in 1 .. n : range[i].C = commit(amounts[i], range[i].mask)
  <2>1. \A i \in 1 .. n : range[i].C = commit(all[i], range[i].mask)
    BY <1>1, BitRanges
  <2> HIDE DEF range
  <2> QED BY <1>1, <2>1
<1> HIDE DEF s, range
<1>4. Len(s.rv.outPk) = n /\ \A i \in 1 .. n : s.rv.outPk[i].mask = range[i].C /\ s.outSk[i].mask = range[i].mask
  BY <1>1, <1>2
<1>5. ~is_rct_simple(RCTTypeFull) /\ is_rct_borromean(RCTTypeFull)
  BY DEF is_rct_simple, is_rct_borromean
<1> QED BY <1>2, <1>3, <1>4, <1>5 DEF Sound, s, all, n

(* SignedSound: so of every transaction that is signed.                    *)
LEMMA SignedSound ==
  ASSUME NEW q \in Requests
  PROVE  Sound(Signed(q).rv, Signed(q).outSk, q.outs, q.fake)
<1> DEFINE n == Len(q.outs)
           m == Len(q.ins)
           inSk == [i \in 1 .. m |-> Secret(q, i)]
           dests == [i \in 1 .. n |-> Destination(q, i)]
           keys == [i \in 1 .. n |-> amount_key(q, i)]
           rings == [i \in 1 .. m |-> Drawn(q, i).ring]
           index == [i \in 1 .. m |-> Drawn(q, i).index]
           draw == <<q.seed>>
           full == DrawnFull(q)
           message == Message(q)
<1>1. /\ q.type \in RCTTypeFull .. RCTTypeBulletproofPlus /\ q.range \in RangeTypes /\ q.fake \in BOOLEAN
      /\ q.ins \in Seq(Amount) /\ q.ins # << >> /\ q.outs \in Seq(Amount) /\ q.fee \in Amount /\ q.seed \in Nat
      /\ AddedUp(q.ins, m) = sc_add(AddedUp(q.outs, n), q.fee)
  BY RequestsAssumption DEF RangeTypes
<1>2. n \in Nat /\ draw \in Seq(Int)
  BY <1>1
<1>3. Len(dests) = n
  BY <1>2
<1>4. keys \in Seq(Int) /\ Len(keys) = n
  <2>1. ASSUME NEW i \in 1 .. n PROVE amount_key(q, i) \in Int
    <3>1. <<q.seed, 102, i>> \in Seq(Int)
      BY <1>1
    <3> DEFINE d == <<q.seed, 102, i>>
    <3> HIDE DEF d
    <3>2. skGen(d) \in Scalar
      BY <3>1, DrawnScalars DEF d
    <3>3. skGen(d) \in Int
      BY <3>2, Reduced
    <3> QED BY <3>3 DEF amount_key, d
  <2>2. keys \in [1 .. n -> Int]
    BY <2>1
  <2> HIDE DEF keys, n
  <2> QED BY <1>2, <2>2, VectorIs
<1>5. CASE q.type = RCTTypeFull
  <2> DEFINE s == genRct(message, inSk, dests, Append(q.outs, q.fee), full.ring, keys, full.index, draw)
  <2>1. Signed(q) = s
    BY <1>5 DEF Signed
  <2> HIDE DEF inSk, dests, keys, full, draw, message
  <2>2. Sound(s.rv, s.outSk, q.outs, q.fake)
    BY <1>1, <1>2, <1>3, FullSound
  <2> HIDE DEF s
  <2> QED BY <2>1, <2>2
<1>6. CASE q.type # RCTTypeFull
  <2> DEFINE s == genRctSimple(q.type, q.range, q.fake, message, inSk, dests, q.ins, q.outs, q.fee, rings, keys, index, draw)
  <2>1. Signed(q) = s
    BY <1>6 DEF Signed
  <2>2. q.type \in RCTTypeSimple .. RCTTypeBulletproofPlus
    BY <1>1, <1>6 DEF RCTTypeFull, RCTTypeSimple, RCTTypeBulletproofPlus
  <2> HIDE DEF inSk, dests, keys, rings, index, draw, message
  <2>3. Sound(s.rv, s.outSk, q.outs, q.fake)
    BY <1>1, <1>2, <1>3, <1>4, <2>2, SimpleSound
  <2> HIDE DEF s
  <2> QED BY <2>1, <2>3
<1> QED BY <1>5, <1>6

(* TxInv: whatever becomes of a transaction, what was signed and its       *)
(* secrets stay what the signing of a request gave.                        *)
TxInv ==
  tx # None =>
    /\ {"asked", "signed", "outSk"} \subseteq DOMAIN tx
    /\ \E q \in Requests : tx.asked = q /\ tx.signed = Signed(q).rv /\ tx.outSk = Signed(q).outSk

LEMMA TxStep == TxInv /\ [Next]_vars => TxInv'
<1> SUFFICES ASSUME TxInv, [Next]_vars PROVE TxInv'
  OBVIOUS
<1>1. ASSUME NEW q \in Requests, Sign(q) PROVE TxInv'
  <2>1. q \in [type : RCTTypeFull .. RCTTypeBulletproofPlus, range : {"padded", "single", "multi"}, fake : BOOLEAN,
                ins : Seq(Amount), outs : Seq(Amount), fee : Amount, mixin : Nat, seed : Nat, alter : BOOLEAN]
    BY RequestsAssumption
  <2>2. [q EXCEPT !.fake = q.fake] = q
    BY <2>1
  <2> DEFINE signed == [fake \in {q.fake, FALSE} |-> Signed([q EXCEPT !.fake = fake])]
             s == signed[q.fake]
  <2>3. s = Signed(q)
    BY <2>2
  <2> HIDE DEF signed, s
  <2>4. /\ tx'.asked = q /\ tx'.signed = s.rv /\ tx'.outSk = s.outSk
        /\ {"asked", "signed", "outSk"} \subseteq DOMAIN tx'
    BY <1>1 DEF Sign, signed, s
  <2> QED BY <2>3, <2>4 DEF TxInv
<1>2. ASSUME tx # None, DOMAIN tx' = DOMAIN tx,
             \A f \in {"asked", "signed", "outSk"} : f \in DOMAIN tx => tx'[f] = tx[f]
      PROVE  TxInv'
  <2>1. {"asked", "signed", "outSk"} \subseteq DOMAIN tx
        /\ \E q \in Requests : tx.asked = q /\ tx.signed = Signed(q).rv /\ tx.outSk = Signed(q).outSk
    BY <1>2 DEF TxInv
  <2>2. tx'.asked = tx.asked /\ tx'.signed = tx.signed /\ tx'.outSk = tx.outSk
    BY <1>2, <2>1
  <2> QED BY <1>2, <2>1, <2>2 DEF TxInv
<1>3. ASSUME NEW at, Alter(at) PROVE TxInv'
  BY <1>2, <1>3 DEF Alter, OnTheWay
<1>4. ASSUME NEW what, AlterContext(what) PROVE TxInv'
  BY <1>2, <1>4 DEF AlterContext, OnTheWay
<1>5. ASSUME NEW rv, AlterScalar(rv) PROVE TxInv'
  BY <1>2, <1>5 DEF AlterScalar, OnTheWay
<1>6. ASSUME Receive PROVE TxInv'
  BY <1>2, <1>6 DEF Receive
<1>7. ASSUME NEW i, NEW k, Decode(i, k) PROVE TxInv'
  BY <1>2, <1>7 DEF Decode
<1>8. ASSUME UNCHANGED tx PROVE TxInv'
  BY <1>8 DEF TxInv
<1>9. ASSUME NEW p, Prove(p) PROVE UNCHANGED tx
  BY <1>9 DEF Prove
<1>10. ASSUME NEW n, NEW field, NEW by, Spoil(n, field, by) PROVE UNCHANGED tx
  BY <1>10 DEF Spoil
<1>11. ASSUME NEW n, SpoilV(n) PROVE UNCHANGED tx
  BY <1>11 DEF SpoilV
<1>12. (VerifyBatch => UNCHANGED tx) /\ \A data : Add(data) => UNCHANGED tx
  BY DEF VerifyBatch, Add
<1>13. ASSUME MakeAccount \/ SignByRing \/ PutInOrder PROVE UNCHANGED tx
  BY <1>13 DEF MakeAccount, SignByRing, PutInOrder
<1>14. ASSUME Restart PROVE TxInv'
  BY <1>14 DEF Restart, TxInv
<1>15. UNCHANGED vars => UNCHANGED tx
  BY DEF vars
<1> QED
  BY <1>1, <1>3, <1>4, <1>5, <1>6, <1>7, <1>8, <1>9, <1>10, <1>11, <1>12, <1>13, <1>14, <1>15 DEF Next

(* CommitmentsAreBalanced: whatever transaction a wallet signs, of however *)
(* many inputs and outputs, and however its range proofs are divided, its  *)
(* commitments are to the amounts and add up, and its range proofs have    *)
(* those of all outputs in their order.                                    *)
THEOREM CommitmentsAreBalanced == Spec => []CommitmentsBalance
<1>1. Init => TxInv
  BY DEF Init, Idle, TxInv
<1>2. TxInv => CommitmentsBalance
  <2> SUFFICES ASSUME TxInv, tx # None PROVE AmountsBalance /\ (~is_rct_borromean(tx.signed.type) => RangeProofsCover)
    BY DEF CommitmentsBalance
  <2>1. PICK q \in Requests : tx.asked = q /\ tx.signed = Signed(q).rv /\ tx.outSk = Signed(q).outSk
    BY DEF TxInv
  <2>2. Sound(tx.signed, tx.outSk, tx.asked.outs, tx.asked.fake)
    BY <2>1, SignedSound
  <2> QED BY <2>2 DEF Sound, AmountsBalance, RangeProofsCover
<1> QED
  BY <1>1, <1>2, TxStep, PTL DEF Spec
=============================================================================
