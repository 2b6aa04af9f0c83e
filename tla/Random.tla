------------------------------- MODULE Random -------------------------------
(***************************************************************************)
(* crypto/random.c and the part of crypto.cpp that locks it: one state,    *)
(* filled from the system's source before main, permuted before each block *)
(* that is handed out, and mixed with what callers add.                    *)
(*                                                                         *)
(* A permutation reads the whole state and writes it back: two steps,      *)
(* between which another thread without the lock would read the old state. *)
(* A state is known by the turns it has had and the entropy mixed in.      *)
(***************************************************************************)
EXTENDS Integers, Sequences, FiniteSets

CONSTANTS
  Drawer,      \* threads that use the generator
  DATA_AREA,   \* HASH_DATA_AREA: bytes of a block
  SEED,        \* bytes read from the system's source
  MaxTurns,    \* bound: permutations after which nothing more is asked
  MaxDraw      \* bound: bytes asked for in one call

ASSUME SeedAssumption == SEED \in Nat

VARIABLES
  seeded,      \* which byte of the source is in each byte of the state
  taken,       \* bytes taken from the source
  state,       \* turns and entropy
  random_lock, \* the thread that has it, or {}
  curstate,    \* 0 before and after, 1 idle, 2 at work
  rpc, left,   \* of each thread: where it is, bytes it has yet to get
  read,        \* and the state it is permuting
  drawn,       \* blocks handed out: the state each is a part of
  given,       \* pieces of entropy that callers have added
  failed       \* an assertion of the code has failed

randomVars == <<seeded, taken, state, random_lock, curstate, rpc, left, read, drawn, given, failed>>

-----------------------------------------------------------------------------
RandomInit ==
  /\ seeded = [i \in 1 .. SEED |-> 0] /\ taken = 0
  /\ state = [turns |-> 0, mixed |-> {}]
  /\ random_lock = {} /\ curstate = 0
  /\ rpc = [t \in Drawer |-> <<"idle">>] /\ left = [t \in Drawer |-> 0]
  /\ read = [t \in Drawer |-> state]
  /\ drawn = << >> /\ given = 0 /\ failed = FALSE

(* read() may return a part of what is asked; result moves on by as much.  *)
Filled(n) ==
  [i \in 1 .. SEED |-> IF i \in taken + 1 .. taken + n THEN i ELSE seeded[i]]

generate_system_random_bytes(n) ==
  /\ curstate = 0 /\ n \in 1 .. SEED - taken
  /\ seeded' = Filled(n)
  /\ taken' = taken + n
  /\ curstate' = IF taken' = SEED THEN 1 ELSE 0
  /\ UNCHANGED <<state, random_lock, rpc, left, read, drawn, given, failed>>

-----------------------------------------------------------------------------
(* Callers of the variants with the lock; there are no others. *)
Asked(t, n, at) ==
  /\ curstate # 0 /\ rpc[t] = <<"idle">> /\ state.turns < MaxTurns
  /\ left' = [left EXCEPT ![t] = n]
  /\ rpc' = [rpc EXCEPT ![t] = at]
  /\ UNCHANGED <<seeded, taken, state, random_lock, curstate, read, drawn, given, failed>>

generate_random_bytes_thread_safe(t, n) == Asked(t, n, <<"draw">>)
add_extra_entropy_thread_safe(t, n) == Asked(t, n, <<"add">>)

MayEnter_Unlocked(t) == TRUE
MayEnter(t) == random_lock = {}

Entered(t) == MayEnter(t) /\ random_lock' = {t}

StartDraw(t) ==
  /\ rpc[t] = <<"draw">> /\ Entered(t)
  /\ failed' = (failed \/ curstate # 1)
  /\ curstate' = 2
  /\ rpc' = [rpc EXCEPT ![t] = IF left[t] = 0 THEN <<"drawn">> ELSE <<"permute", "draw">>]
  /\ UNCHANGED <<seeded, taken, state, left, read, drawn, given>>

StartAdd(t) ==
  /\ rpc[t] = <<"add">> /\ Entered(t)
  /\ rpc' = [rpc EXCEPT ![t] = IF left[t] = 0 THEN <<"added">> ELSE <<"permute", "add">>]
  /\ UNCHANGED <<seeded, taken, state, curstate, left, read, drawn, given, failed>>

(* hash_permutation. *)
BeginPermutation(t, for) ==
  /\ rpc[t] = <<"permute", for>>
  /\ read' = [read EXCEPT ![t] = state]
  /\ rpc' = [rpc EXCEPT ![t] = <<"write", for>>]
  /\ UNCHANGED <<seeded, taken, state, random_lock, curstate, left, drawn, given, failed>>

EndPermutation(t, for) ==
  /\ rpc[t] = <<"write", for>>
  /\ state' = [read[t] EXCEPT !.turns = @ + 1]
  /\ rpc' = [rpc EXCEPT ![t] = <<"block", for>>]
  /\ UNCHANGED <<seeded, taken, random_lock, curstate, left, read, drawn, given, failed>>

CopyBlock(t) ==
  /\ rpc[t] = <<"block", "draw">>
  /\ drawn' = Append(drawn, state)
  /\ left' = [left EXCEPT ![t] = IF @ <= DATA_AREA THEN 0 ELSE @ - DATA_AREA]
  /\ rpc' = [rpc EXCEPT ![t] = IF left[t] <= DATA_AREA THEN <<"drawn">> ELSE <<"permute", "draw">>]
  /\ UNCHANGED <<seeded, taken, state, random_lock, curstate, read, given, failed>>

MixBlock(t) ==
  /\ rpc[t] = <<"block", "add">>
  /\ given' = given + 1
  /\ state' = [state EXCEPT !.mixed = @ \union {given'}]
  /\ left' = [left EXCEPT ![t] = IF @ <= DATA_AREA THEN 0 ELSE @ - DATA_AREA]
  /\ rpc' = [rpc EXCEPT ![t] = IF left[t] <= DATA_AREA THEN <<"added">> ELSE <<"permute", "add">>]
  /\ UNCHANGED <<seeded, taken, random_lock, curstate, read, drawn, failed>>

Leave(t) ==
  /\ rpc[t] \in {<<"drawn">>, <<"added">>}
  /\ failed' = (failed \/ (rpc[t] = <<"drawn">> /\ curstate # 2))
  /\ curstate' = IF rpc[t] = <<"drawn">> THEN 1 ELSE curstate
  /\ random_lock' = {}
  /\ rpc' = [rpc EXCEPT ![t] = <<"idle">>]
  /\ UNCHANGED <<seeded, taken, state, left, read, drawn, given>>

(* The process ends, its threads before it; another is started. *)
deinit_random ==
  /\ \A t \in Drawer : rpc[t] = <<"idle">>
  /\ curstate = 1
  /\ seeded' = [i \in 1 .. SEED |-> 0] /\ taken' = 0
  /\ state' = [turns |-> 0, mixed |-> {}] /\ curstate' = 0
  /\ read' = [t \in Drawer |-> state'] /\ drawn' = << >> /\ given' = 0
  /\ UNCHANGED <<random_lock, rpc, left, failed>>

RandomNext ==
  \/ deinit_random
  \/ \E n \in 1 .. SEED : generate_system_random_bytes(n)
  \/ \E t \in Drawer :
       \/ \E n \in 0 .. MaxDraw : generate_random_bytes_thread_safe(t, n)
       \/ \E n \in 0 .. MaxDraw : add_extra_entropy_thread_safe(t, n)
       \/ StartDraw(t) \/ StartAdd(t)
       \/ \E for \in {"draw", "add"} : BeginPermutation(t, for) \/ EndPermutation(t, for)
       \/ CopyBlock(t) \/ MixBlock(t) \/ Leave(t)

-----------------------------------------------------------------------------
(* random32_unbiased, of numbers below range: those past the highest       *)
(* multiple of the order are drawn again, and so is zero.                  *)
Accepted(bytes, limit, order) == bytes < limit /\ bytes % order # 0

(* The constant of the code: the order 2 ^ 252 + ... and fifteen times it, *)
(* in bytes, lowest first.                                                 *)
order32 ==
  <<237, 211, 245, 92, 26, 99, 18, 88, 214, 156, 247, 162, 222, 249, 222, 20>> \o [i \in 1 .. 15 |-> 0] \o <<16>>
limit32 ==
  <<227, 106, 103, 114, 139, 206, 19, 41, 143, 48, 130, 140, 11, 164, 16, 57, 1>> \o [i \in 1 .. 14 |-> 0] \o <<240>>

(* n times a number of 32 bytes: the product's bytes and what is carried   *)
(* out of them.                                                            *)
Times(n, bytes) ==
  LET carry[i \in Nat] == IF i = 0 THEN 0 ELSE (carry[i - 1] + n * bytes[i]) \div 256
  IN  [bytes |-> << >> \o [i \in 1 .. 32 |-> (carry[i - 1] + n * bytes[i]) % 256], over |-> carry[32]]

less32(k0, k1) ==
  \E n \in 1 .. 32 : k0[n] < k1[n] /\ \A m \in n + 1 .. 32 : k0[m] = k1[m]

-----------------------------------------------------------------------------
(* DrawsDiffer: no block is handed out twice, whoever draws and adds       *)
(* entropy at the same time; none before the state is filled, each byte    *)
(* of it with another byte of the source; all entropy added stays in the   *)
(* state; the debug build's assertions hold.  Scalars drawn are reduced,   *)
(* none is zero and each comes from as many draws as any other.            *)
ScalarsUnbiased ==
  /\ Times(15, order32) = [bytes |-> limit32, over |-> 0] /\ Times(16, order32).over > 0
  /\ less32(order32, limit32) /\ ~less32(limit32, order32) /\ ~less32(limit32, limit32)
  /\ \A order \in 2 .. 7, range \in 8 .. 40 :
       LET limit == (range \div order) * order
           drawsOf(s) == {b \in 0 .. range - 1 : Accepted(b, limit, order) /\ b % order = s}
       IN  drawsOf(0) = {} /\ \A s \in 1 .. order - 1 : Cardinality(drawsOf(s)) = range \div order

BlocksDiffer == \A i, j \in DOMAIN drawn : i # j => drawn[i] # drawn[j]
StateFilled == curstate # 0 => seeded = [i \in 1 .. SEED |-> i]
EntropyKept == random_lock = {} => state.mixed = 1 .. given

DrawsDiffer ==
  /\ BlocksDiffer /\ StateFilled /\ EntropyKept
  /\ ~failed
  /\ taken = 0 => ScalarsUnbiased
=============================================================================
