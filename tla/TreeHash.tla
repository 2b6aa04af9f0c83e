------------------------------ MODULE TreeHash ------------------------------
(***************************************************************************)
(* The Merkle tree of a block's transaction hashes and its branches.       *)
(*                                                                         *)
(* tree_branch, which looks a hash up, folds the tree in place and gathers *)
(* the branch on the way, is a state machine with one action per turn of a *)
(* loop.  tree_hash and tree_path are the same loops without the branch,   *)
(* as functions.  cn_fast_hash is free: different inputs, different        *)
(* hashes.  Arrays are functions from 0, as in the code.                   *)
(***************************************************************************)
EXTENDS Integers, Sequences, FiniteSets

CONSTANTS
  Label,       \* names of transaction hashes
  Inputs       \* arrays of hashes to build the tree of

Leaf(l) == <<l>>
cn_fast_hash(a, b) == <<a, b>>
zero == << >>

count(h) == Cardinality(DOMAIN h)

ASSUME InputsAssumption ==
  \A h \in Inputs :
    /\ count(h) \in Nat
    /\ h \in [0 .. count(h) - 1 -> {Leaf(l) : l \in Label}]

VARIABLES
  pc,          \* the loop tree_branch is in
  hashes,      \* its arguments
  hash,
  pow, cnt,    \* the power of two being looked for, the size of the level
  ints,        \* the nodes of the level, folded in place
  i, j,        \* the pair being hashed and where it goes
  idx,         \* the node whose branch is gathered
  branch,      \* its siblings, leaf first; the depth is its length
  path         \* a bit per sibling: 1 when the sibling is on the left

vars == <<pc, hashes, hash, pow, cnt, ints, i, j, idx, branch, path>>
arguments == <<hashes, hash>>
outputs == <<idx, branch, path>>

-----------------------------------------------------------------------------
(* tree_hash_cnt: half of the least power of two that is not below n. *)
tree_hash_cnt(n) ==
  LET double[p \in 1 .. 2 * n + 2] == IF p < n THEN double[2 * p] ELSE p
  IN  double[2] \div 2

(* One level in place: node t - 1 becomes the hash of the pair at twice     *)
(* its place, for t = 1, ..., n.                                           *)
FoldLevel(a, n) ==
  LET turn[t \in 0 .. n] ==
        IF t = 0 THEN a
        ELSE [turn[t - 1] EXCEPT ![t - 1] = cn_fast_hash(turn[t - 1][2 * t - 2], turn[t - 1][2 * t - 1])]
  IN  turn[n]

FirstLevel_PairsFirst(h, n, m) ==
  [t \in 0 .. m - 1 |->
     IF t < n - m THEN cn_fast_hash(h[2 * t], h[2 * t + 1]) ELSE h[t + n - m]]

(* The nodes before the loop over the levels: leaves first, then pairs. *)
FirstLevel(h, n, m) ==
  LET s == 2 * m - n
  IN  [t \in 0 .. m - 1 |->
         IF t < s THEN h[t] ELSE cn_fast_hash(h[2 * t - s], h[2 * t - s + 1])]

tree_hash(h) ==
  LET n == count(h)
      m == tree_hash_cnt(n)
      down[c \in 1 .. m] ==
        IF 2 * c > m THEN FirstLevel(h, n, m) ELSE FoldLevel(down[2 * c], c)
      top == down[2]
  IN  CASE n = 1 -> h[0]
        [] n = 2 -> cn_fast_hash(h[0], h[1])
        [] OTHER -> cn_fast_hash(top[0], top[1])

Climb_UnpairedForgotten(u, s) ==
  [at |-> (u.at + s) \div 2, path |-> (2 * u.path) + ((u.at - s) % 2)]

(* The turn of a loop that meets node k: its pair's node, and one bit.      *)
(* Nodes below s have gone up unpaired.                                    *)
Climb(u, s) ==
  IF u.at < s THEN u
  ELSE [at |-> (u.at + s) \div 2, path |-> (2 * u.path) + ((u.at - s) % 2)]

tree_path(n, k) ==
  LET m == tree_hash_cnt(n)
      leaf == [at |-> k, path |-> 0]
      up[c \in 1 .. m] ==
        IF 2 * c > m THEN Climb(leaf, 2 * m - n) ELSE Climb(up[2 * c], 0)
  IN  IF n <= 2 THEN k ELSE up[1].path

Bit_FromTheEnd(p, n, d) == (p \div (2 ^ (d - 1))) % 2

(* Bit d of a path of n bits, the first being the most significant. *)
Bit(p, n, d) == (p \div (2 ^ (n - d))) % 2

tree_branch_hash(leaf, siblings, p) ==
  LET n == Len(siblings)
      partial[d \in 0 .. n] ==
        IF d = 0 THEN leaf
        ELSE IF Bit(p, n, d) = 1 THEN cn_fast_hash(siblings[d], partial[d - 1])
        ELSE cn_fast_hash(partial[d - 1], siblings[d])
  IN  partial[n]

is_branch_in_tree(leaf, root, siblings, p) ==
  tree_branch_hash(leaf, siblings, p) = root

-----------------------------------------------------------------------------
Init ==
  /\ hashes \in Inputs
  /\ hash \in {Leaf(l) : l \in Label}
  /\ pc = "call"
  /\ pow = 2 /\ cnt = 0 /\ ints = << >> /\ i = 0 /\ j = 0
  /\ idx = 0 /\ branch = << >> /\ path = 0

(* The first place of the hash; nothing is answered when it has none. *)
Places == {k \in DOMAIN hashes : hashes[k] = hash}

NotInTree_NotNoticed ==
  /\ pc = "call"
  /\ Places = {}
  /\ pc' = IF count(hashes) > 2 THEN "round" ELSE "false"
  /\ idx' = count(hashes)
  /\ UNCHANGED <<arguments, pow, cnt, ints, i, j, branch, path>>

NotInTree ==
  /\ pc = "call"
  /\ Places = {}
  /\ pc' = "false"
  /\ UNCHANGED <<arguments, pow, cnt, ints, i, j, outputs>>

Find ==
  /\ pc = "call"
  /\ \E k \in Places :
       /\ \A o \in Places : k <= o
       /\ idx' = k
       /\ IF count(hashes) = 2
          THEN /\ branch' = <<hashes[1 - k]>>
               /\ path' = k
          ELSE UNCHANGED <<branch, path>>
  /\ pc' = IF count(hashes) <= 2 THEN "true" ELSE "round"
  /\ UNCHANGED <<arguments, pow, cnt, ints, i, j>>

Double_FourBits ==
  /\ pc = "round"
  /\ pow < count(hashes)
  /\ pow' = (2 * pow) % 2 ^ 4
  /\ UNCHANGED <<pc, arguments, cnt, ints, i, j, outputs>>

(* tree_hash_cnt's loop. *)
Double ==
  /\ pc = "round"
  /\ pow < count(hashes)
  /\ pow' = 2 * pow
  /\ UNCHANGED <<pc, arguments, cnt, ints, i, j, outputs>>

Start ==
  /\ pc = "round"
  /\ pow >= count(hashes)
  /\ LET m == pow \div 2
         s == 2 * m - count(hashes)
     IN  /\ cnt' = m
         /\ ints' = [t \in 0 .. m - 1 |-> IF t < s THEN hashes[t] ELSE zero]
         /\ i' = s
         /\ j' = s
  /\ pc' = "leaves"
  /\ UNCHANGED <<arguments, pow, outputs>>

FoldPair_OneAhead(a) ==
  /\ j < cnt
  /\ ints' = [ints EXCEPT ![j] = cn_fast_hash(a[i], a[i + 1])]
  /\ i' = i + 1
  /\ j' = j + 1
  /\ UNCHANGED <<pc, arguments, pow, cnt, outputs>>

(* One turn of either loop: a is the array that is read. *)
FoldPair(a) ==
  /\ j < cnt
  /\ IF idx \in {i, i + 1}
     THEN /\ branch' = Append(branch, IF idx = i THEN a[i + 1] ELSE a[i])
          /\ path' = 2 * path + (IF idx = i THEN 0 ELSE 1)
          /\ idx' = j
     ELSE UNCHANGED outputs
  /\ ints' = [ints EXCEPT ![j] = cn_fast_hash(a[i], a[i + 1])]
  /\ i' = i + 2
  /\ j' = j + 1
  /\ UNCHANGED <<pc, arguments, pow, cnt>>

FoldLeaves == pc = "leaves" /\ FoldPair(hashes)
FoldNodes  == pc = "nodes" /\ FoldPair(ints)

NextLevel ==
  /\ pc \in {"leaves", "nodes"}
  /\ j >= cnt
  /\ cnt > 2
  /\ cnt' = cnt \div 2
  /\ i' = 0
  /\ j' = 0
  /\ pc' = "nodes"
  /\ UNCHANGED <<arguments, pow, ints, outputs>>

Top ==
  /\ pc \in {"leaves", "nodes"}
  /\ j >= cnt
  /\ cnt <= 2
  /\ IF idx \in {0, 1}
     THEN /\ branch' = Append(branch, ints[1 - idx])
          /\ path' = 2 * path + idx
          /\ idx' = 0
     ELSE UNCHANGED outputs
  /\ pc' = "true"
  /\ UNCHANGED <<arguments, pow, cnt, ints, i, j>>

Returned == pc \in {"true", "false"} /\ UNCHANGED vars

Next ==
  \/ NotInTree
  \/ Find
  \/ Double
  \/ Start
  \/ FoldLeaves
  \/ FoldNodes
  \/ NextLevel
  \/ Top
  \/ Returned

(* tree_branch is called and runs to its end in its caller's thread. *)
Spec == Init /\ [][Next]_vars /\ WF_vars(Next)

-----------------------------------------------------------------------------
(* TypeOK: the counters are naturals, a node is being followed, and the    *)
(* level lies within the array that was allocated for the first one.       *)
TypeOK ==
  /\ pc \in {"call", "round", "leaves", "nodes", "true", "false"}
  /\ hashes \in Inputs
  /\ hash \in {Leaf(l) : l \in Label}
  /\ pow \in Nat /\ cnt \in Nat /\ i \in Nat /\ j \in Nat
  /\ idx \in Nat /\ path \in Nat
  /\ pc \in {"leaves", "nodes"} =>
       /\ idx < count(hashes)
       /\ DOMAIN ints = 0 .. (pow \div 2) - 1
       /\ cnt <= pow \div 2

(* ReadsInBounds: tree_branch hashes only pairs that lie in the array it   *)
(* reads, writes where ints has room, and the first loop ends at the last  *)
(* hash, which the code asserts at tree-hash.c:195.  The root of a block   *)
(* of 514 transactions was wrong once because this failed (tree-hash.c:63).*)
ReadsInBounds ==
  /\ pc = "leaves" /\ j < cnt => i + 1 < count(hashes) /\ j \in DOMAIN ints
  /\ pc = "leaves" /\ j >= cnt => i = count(hashes)
  /\ pc = "nodes" /\ j < cnt => i + 1 \in DOMAIN ints /\ j \in DOMAIN ints
  /\ pc \in {"leaves", "nodes"} => 1 \in DOMAIN ints

(* BranchProves: the branch tree_branch answers leads from the hash to the *)
(* root tree_hash gives, and from no other hash, and a path that differs   *)
(* in one bit leads elsewhere; tree_path, which is told only where the     *)
(* hash is, gives the same path.                                           *)
BranchProves ==
  pc = "true" =>
    LET root == tree_hash(hashes)
        n == Len(branch)
        flipped(d) == IF Bit(path, n, d) = 1 THEN path - 2 ^ (n - d)
                      ELSE path + 2 ^ (n - d)
    IN  /\ is_branch_in_tree(hash, root, branch, path)
        /\ \E k \in Places : (\A o \in Places : k <= o) /\ path = tree_path(count(hashes), k)
        /\ \A l \in Label :
             is_branch_in_tree(Leaf(l), root, branch, path) => Leaf(l) = hash
        /\ \A d \in 1 .. n :
             is_branch_in_tree(hash, root, branch, flipped(d))
               => branch[d] = tree_branch_hash(hash, SubSeq(branch, 1, d - 1),
                                               path \div (2 ^ (n - d + 1)))

(* RootIsMerkle: folding in place gives the tree that is perfect but for   *)
(* its last level, where the hashes at the end are the ones paired, and    *)
(* every hash of the block is in it once; top[d][k] is the root over the   *)
(* 2^d nodes from node k on.                                               *)
RootIsMerkle ==
  pc = "call" /\ count(hashes) > 0 =>
    LET n == count(hashes)
        depth == CHOOSE d \in 0 .. n : n <= 2 ^ (d + 1) /\ (2 ^ d < n \/ d = 0)
        pairs == n - 2 ^ depth
        level == [k \in 0 .. 2 ^ depth - 1 |->
                    IF k < 2 ^ depth - pairs THEN hashes[k]
                    ELSE LET f == 2 * k - (2 ^ depth - pairs)
                         IN  cn_fast_hash(hashes[f], hashes[f + 1])]
        top[d \in 0 .. depth] ==
          IF d = 0 THEN level
          ELSE [k \in 0 .. 2 ^ depth - 2 ^ d |->
                  cn_fast_hash(top[d - 1][k], top[d - 1][k + 2 ^ (d - 1)])]
    IN  tree_hash(hashes) = top[depth][0]

(* BranchReturned: tree_branch comes to its end. *)
BranchReturned == <>(pc \in {"true", "false"})
=============================================================================
