# A verification development for monero-core-custom

This directory holds TLA+ specifications of the library's own logic, the TLC
configurations that check them on small instances, and proofs checked by TLAPS
that hold for every value of the constants. The library is the part of a Monero
wallet that makes transactions: keys and addresses, the construction of a
transaction and of its signatures, the encodings it is sent in, and the helpers
(threads, random numbers, memory) these use. It has no network, no storage and
no main loop; its callers are outside the repository.

`PROJECT.json` lists components, runs, the lines each definition translates
("map"), mutants, findings, hazards and theorems.

## 1. Inventory

| Part | State | Operations | Used by |
|---|---|---|---|
| transaction construction (`cryptonote_core/cryptonote_tx_utils.*`) | the transaction in the making, the caller's sources, destinations and additional keys (all changed in place), the device's open transaction | `construct_tx`, `construct_tx_and_get_tx_key`, `construct_tx_with_tx_key`, `classify_addresses`, `get_destination_view_key_pub` | external callers; calls the device, the extra, the key-image helper, ringct |
| ownership of outputs (`cryptonote_basic/cryptonote_format_utils.cpp`) | none; reads account keys and the subaddress table | `is_out_to_acc`, `is_out_to_acc_precomp`, `out_can_be_to_acc`, `generate_key_image_helper(_precomp)` | construction, external scanners |
| transaction extra (same file, `tx_extra.h`) | a byte string holding typed fields | parse, find, add, remove, sort, nonces and payment ids | construction, scanners |
| thread pool (`common/threadpool.*`) | queue, `active`, `running`, workers; per thread `depth`, `is_leaf`; per waiter `num`, `error_flag` | `submit`, `wait`, `run`, `recycle`, the destructors | external callers |
| key primitives (`crypto/crypto.*`) | none | derivations, one-time keys, key images, signatures, ring signatures | everything |
| random numbers (`crypto/random.c`) | one global Keccak state behind one mutex | generate, add entropy, initialise, and at exit deinitialise | everything that makes keys |
| hash caches of transactions and blocks (`cryptonote_basic.h`, `cryptonote_format_utils.cpp`) | value and validity flag per hash, the blob's size, where its parts end | get, set, invalidate, copy, (de)serialise | readers on several threads |
| ring confidential transactions (`ringct/rctSigs.cpp`, `rctOps.cpp`, `rctTypes.*`) | none | MLSAG, CLSAG, Borromean, `genRct`, `genRctSimple`, the verifiers, `decodeRct*` | construction |
| bulletproofs, multi-exponentiation (`ringct/*.cc`) | tables made once | prove, verify in batches, Straus, Pippenger | ringct |
| Merkle tree (`crypto/tree-hash.c`) | none | `tree_hash`, `tree_path`, `tree_branch`, `is_branch_in_tree` | blocks |
| curve arithmetic (`crypto/crypto-ops.c`) | none | decode, encode, add, nine ways to multiply, hash to the curve, scalars | keys and ringct |
| permutations (`common/apply_permutation.h`) | the vector, a copy of the order | `apply_permutation` | construction |
| serialization, varint (`serialization/`, `common/varint.h`) | archive position and error flag | save, load | everything that is stored or sent |
| portable storage (`epee/.../storages/`) | a tree of sections | store, load, get and set values | external callers |
| addresses and base 58 (`cryptonote_basic_impl.cpp`, `common/base58.cpp`) | none | write and read as text | external callers |
| mnemonic seeds and word lists (`mnemonics/`) | thirteen lists, maps made of them | keys to words and back | external callers |
| accounts (`cryptonote_basic/account.*`) | key pairs and a date | create, recover, forget | external callers |
| devices (`device/`) | a registry of devices | look up, and the default device's operations | construction |
| memory (`wipeable_string`, `mlocker`, `memwipe`) | buffers | grow, parse, wipe | secrets |
| error classes, RPC structures | - | - | declarations |

Interactions are calls. Two parts have concurrency of their own (the thread
pool, the random-number generator) and two more are shared by threads of their
callers (the hash caches, the once-only tables).

What is hard, by part:

* **construction**: three key schemes (one subaddress, only standard addresses,
  both) chosen from all destinations at once and used at five places;
  in-place shuffles and sorts of vectors that share indices; a dozen ways to
  return or throw; sums of 64-bit amounts; fields of the extra left over from
  earlier calls; answers of helpers that are not looked at.
* **ownership**: two generations of scanners, and index arithmetic over a list
  from which failures are left out.
* **thread pool**: nesting, helping, two condition variables, thread-local
  flags, exceptions, restarts.
* **caches, generator, tables**: readers without locks, once-only work.
* **the curve**: windows and carries, four roots of unity, the neutral point in
  every position, encodings past the field.
* **signatures and range proofs**: padding to powers of two, sizes that are not
  saved, masks that have to add up, equations that are weighed and summed, scalars
  that are not reduced.
* **what is written and read again**: varints, sizes, limits of depth, checksums,
  thirteen languages whose prefixes overlap.
* **secrets in memory**: every path of a growing string must wipe.

## 2. Modules

    OutputOwnership ─┐
           TxExtra ──┴─ TxConstruct ── TxConstructProps ─┬─ MCTxConstruct
                                              │          └─ TxConstruct_proof ── TxFinished_proof
                                       (INSTANCE) Payment
    ThreadPool ── ThreadPoolProps ─┬─ MCThreadPool
                       │           └─ ThreadPool_proof
                (INSTANCE) ForkJoin
    TreeHash ─┬─ MCTreeHash
              └─ TreeHash_proof
    Edwards ── CurveCalls ─┬─ MCCurve ── (INSTANCE) FieldPower
                   │       └─ CurveCalls_proof
            (INSTANCE) CurveGroup
    RctOps ── VectorOps ── Bulletproofs ── BulletproofsPlus ── RctTypes ── RctSigs ─┐
    RctOps ── Keys ─────────────────────────────────────────────────────────────────┼─ RctCalls ── MCRct
    Permutation ────────────────────────────────────────────────────────────────────┴─ RctCalls_proof
    TxCache, Random ── SharedState ─┬─ MCShared
                                    └─ SharedState_proof
    Archive ── Addresses ───────┐
    Archive ── PortableStorage ─┤
    Mnemonics ──────────────────┼─ MCWritten
    WipeableString ─┬───────────┤
                    └─ WipeableString_proof
    WordLists ──────────────────┘

The library is a box of tools more than one machine: construction, the pool and
the caches each have a state of their own, and the rest is called. The
components are therefore modelled at two levels. `TxConstruct` has the keys
symbolic and takes a signature as what it is made over; `Keys`, `RctSigs` and
the two kinds of range proof below it compute signatures as numbers in a group of
prime order; `Edwards` computes such a group as the code does, over a small
field, and `CurveGroup` is the promise in between. `Permutation` stands in the
same way below the step `SortInputs` of `TxConstruct`. Modules that share no state
are put together (`SharedState`, `MCWritten`) as alternatives: a behaviour is about
one of them, named by `part`.

### OutputOwnership
Points, secrets, derivations, one-time keys and key images, symbolically. A
point is a base multiplied by a set of secrets, so `a*(r*G) = r*(a*G)`: the one
law stealth addresses need. Everything else is free: different secrets, bases
or indices give different values, i.e. hashes do not collide. A point may fail
to decode (`BadPoint`), where the code's `ge_frombytes_vartime` fails. Indices
count from 1 where the code's count from 0.

Over them, the two scanners and the key-image helper, with the code's fall-back to the
identity when the shared derivation fails and its list of additional
derivations from which failed ones are missing. An account is full, multisig
(a share of the spend secret) or watch-only.

### TxExtra
The extra as the sequence of fields its bytes decode to. Bytes that do not
decode are a field "junk"; a padding field decodes only at the very end. What
the functions do when parsing fails part-way is kept: `get_tx_pub_key_from_extra`
uses the fields before the bad one, `remove_field_from_tx_extra` changes
nothing, `sort_tx_extra` refuses.

### TxConstruct
One request from call to return. `pc` is the place in
`construct_tx_with_tx_key`, and each action is the code up to the next place
where it can return, throw or loop:

| Action | Lines of `cryptonote_tx_utils.cpp` |
|---|---|
| `OpenTx`, `CloseTx` | 499-527, both ways of leaving |
| `EmptySources` | 102-106 |
| `UnparsableExtra`, `EncryptPaymentId`, `DummyPaymentId` | 118-192 |
| `AddInput` | 200-246, once per source |
| `ShuffleDestinations`, `SortInputs` | 248-266 |
| `SetTxPubKey` | 268-293 |
| `AddOutput` | 295-315, with `OutputKeys` for the device's `generate_output_ephemeral_keys` |
| `FinishExtra` | 316-330 |
| `CheckMoney` | 332-337 |
| `SignV1`, `SignV2` | 339-382, 383-492 |

`device`, `sources`, `destinations`, `additional_tx_keys`, `tx`, `in_contexts`,
`txkey_pub` have the code's names; `keys` holds `additional_tx_public_keys` and
`amount_keys`, `money` the two sums. The order of key images is the order of
hashes: any permutation. Uninitialised variables of the output loop
(`Uninitialised`) hold unrelated bytes or what the loop before left there. A
signature records what it was made over (ring, real index, secret, prefix).
`SignV2` throws where `genRct` and `genRctSimple` do (`genRctThrows`): fewer amount
keys than outputs, a version of bulletproofs there is not, a padded proof of no
output or of more than 16, a ring of one for MLSAG; by then the amounts are out of
the prefix. The kind of range proof and its version (`rct_config`) are part of the
request and decide which of these apply; their other checks compare the sizes of
vectors that construction fills together.

### Payment
The promise of a call: the orders are received, each by the wallet and
subaddress it names with its amount and nothing besides, or the call is refused
and nobody gets anything. `TxConstructProps` maps a construction to it: what is
received is what the wallets' scanners read off the finished transaction.

### ThreadPool
Threads (callers and workers) with stacks of frames: `run`, the body of an
actor (a caller or a task), or the owner that stops the pool. One action per
critical section:

| Action | `threadpool.cpp` |
|---|---|
| `SubmitFromLeaf`, `SubmitInline`, `SubmitQueued` | 85-106, `inc` 139-142 |
| `CallWait`, `WaitReturns` | 131-137 |
| `DestroyWaiter`, `WaiterDestroyed` | 112-129 (which waits once more) |
| `RunLoop` | 151-178: from taking the mutex to giving it up, i.e. `active--` of the last task, the look at the queue, and sleeping, leaving or taking a task |
| `InlineEnds`, `TaskEnds`, `CallerEnds` | the end of a body: 92-96; 169-175 with `set_error` and `dec` 144-149 |
| `Stop`, `Join`, `Create` | 47-83 |
| `SpuriousWake` | `has_work.wait` returning for no reason |

The mutex is not a variable: a critical section is one step. `set_error`,
`--depth`, `is_leaf = false` and `dec` are one step, because nobody reads the
error before the count is zero and the other two are the thread's own. The
waiter's condition variable is the guard `num = 0`. What the actors submit,
which tasks are leaves, throw or have no waiter, and who recycles or destroys
the pool is the environment's (`plan`); nothing in the repository uses the pool.
Every body that submits has one waiter and waits on it, as callers of this
class do; an exception passes through the waiter's destructor. A task stands for
one call of `submit`, which moves a function into the queue, so it is in one place
of one list (`SubmittedOnce`, part of `PlansAssumption`), and it is not a caller
(`TasksAssumption`).

### ForkJoin
The promise of the pool: an actor is answered when all its tasks are over, with
"false" exactly if one of them failed; nobody ends before the tasks it waits
for; every caller ends. `ThreadPoolProps` maps the pool to it.

### TreeHash
`tree_branch` (`crypto/tree-hash.c`) is a state machine: one action per turn of
a loop, with the code's variables `ints`, `i`, `j`, `cnt`, `idx`, `branch`,
`path` and the level folded in place. `Double` and `Start` are `tree_hash_cnt`
and what follows it, `FoldLeaves` and `FoldNodes` the bodies of the two loops,
`NextLevel` and `Top` the tests between them. `tree_hash`, `tree_path` and
`tree_branch_hash` are functions, recursive ones where the code loops, so that they can
be reasoned about. A hash is the term that was hashed. The properties define the tree
once more, by halves, and compare.

### Edwards, CurveCalls, CurveGroup, FieldPower
`Edwards` is `crypto-ops.c` over the integers modulo a small prime: the five
coordinate systems with the additions between them, decoding and encoding with
each refusal, the recodings of scalars (`slide`, and the signed digits of the two
fixed-window multiplications), the tables, the loops of the nine functions that
multiply, the test for infinity and the map of a hash to the curve with its four
branches and their assertions. What the code needs of the real field is
`CurveAssumption`; scalars have a whole number of bytes (`NibblesAssumption`), and those
a caller multiplies by are below half of their range (`ScalarsAssumption`), as the
reduced ones of the program are. Limbs are integers and `cmov` is a choice: the constant time
is not modelled. `CurveCalls` is a caller that holds one point; each operation
is an action and the point keeps the coordinates the formulas left it with.
`CurveGroup` is the promise: one element of a group and what each operation makes
of it; the mapping is the point's affine form. `FieldPower` is the three chains
of squarings, a value being the exponent it is a power by.

### RctOps, VectorOps, Bulletproofs, BulletproofsPlus
The group is of prime order `l` and a point is written as its logarithm, so an
equation the code may rely on holds, and one it may not holds for one in `l` by
accident. A hash is a fixed function of what it is given; what is drawn is the
hash of a list that names the draw. Keys always decode and are in the subgroup.
Assumed: `l` is an odd prime (`OrderAssumption`, `PrimeAssumption`), above four times
the amounts (`AtomsAssumption`), as the real one is; bits of an amount and the largest
proof are powers of two (`VectorAssumption`). That a product of two scalars is one of
TLC's integers is asked of the instance only (`WidthAssumption` of `MCRct`).
`VectorOps` has Straus with its bands and digits, Pippenger with its heap and
buckets, their caches and the sizes that choose between them, and the vectors of
scalars and points both proofs compute with. `Bulletproofs` and
`BulletproofsPlus` are the two provers step by step, with their transcripts, the
return to the start when a challenge is zero, padding, and the two verifiers of
batches: every check before the equation, the weights, the one sum of multiples.

### RctTypes, RctSigs
`RctTypes` is what a signature is made of, how each of the six types is saved
without sizes and loaded by those the reader knows, the counts of amounts and
`expand_transaction_1`. `RctSigs` has Borromean signatures, MLSAG and CLSAG (made
and verified), the hashes they are over, `genRct`, `genRctSimple` with every way of
dividing the range proofs, the placeholders of an estimate, and decoding.

### Keys, Permutation, RctCalls
`Keys` generates and recovers accounts (numbers below and past the order; 32 bytes
hold four times the small order where they hold sixteen times the real one) and
signs inputs of version 1 with `generate_ring_signature`. A signer whose secret
or image is another member's is what a debug build asserts against.
`Permutation` is `apply_permutation` swap by swap. `RctCalls` is what is done
with all that. What a wallet is asked to sign has inputs and outputs, and what goes
in is what comes out and the fee (`RequestsAssumption`): `genRctSimple` does not look
at that, the caller makes it so (`MoneyConserved` of `TxConstruct`).

| Actions | Calls |
|---|---|
| `Sign`, `Alter`, `AlterContext`, `AlterScalar`, `Receive`, `Decode` | `genRct` or `genRctSimple`, saving; one change on the way: any saved element, what is signed with it, a scalar that stands for itself plus the order; loading, expanding, verifying; `decodeRct` |
| `Prove`, `Spoil`, `SpoilV`, `VerifyBatch` | the provers, a value changed, the verifiers of batches |
| `Add` | `straus`, `pippenger`, the sums of powers and `invert` of batches |
| `MakeAccount`, `SignByRing`, `PutInOrder` | `Keys` and `Permutation` |

The functions with which a node verifies a whole transaction are not in this
repository, their parts are: `Verified` puts the range proofs' and the ring
signatures' verifiers together and asks that the sums are equal.

### TxCache, Random, SharedState
`TxCache` is one transaction, which is also the miner transaction of one block,
and readers that may be at any place of `get_transaction_hash`,
`calculate_transaction_hash`, `get_transaction_prunable_hash`,
`get_pruned_transaction_hash`, `get_block_hash` and the copy constructor at once:
each load of a flag, half of a hash, each store is an action, named after what is
done (`LoadFlag`, `ReadHalf`, `Serialize`, `LoadSizes`, `Calculate`, `WriteHalf`,
`SetValid`, ...; `cpc` is the place). A hash is what was hashed. Owners parse,
change and assign while nobody reads: they may, since the flags say only that
readers of a const object may overlap. Where the code's contract ends the model
does: a blob without the prunable part is parsed into a fresh object
(`parse_and_validate_tx_base_from_blob` resets neither sizes nor, on failure,
flags), and whoever changes a block's miner transaction invalidates both.
`Random` is the generator: the state filled in pieces before `main`, the
permutation as a read and a write, blocks copied out and mixed in, the lock, the
`curstate` of debug builds, the end of the process. `SharedState` itself has
the construction of the tables of the range proofs behind its mutex (`table`,
`caches`, `init_done`).

### Mnemonics, WordLists
`words_to_bytes` and `bytes_to_words` with the search for the language: the maps
of words and of prefixes each constructor makes, the four results of trying a
language, the language kept for want of a checksum, the checksum by trimmed
words. A key is its groups of 32 bits, a number the three digits to the base 1626
and compared digit by digit. CRC32 is any function of the text. The lists are the
program's own; letters that are not ASCII are written with digits.

### Archive, PortableStorage, Addresses
Bytes are written, perhaps one of them changed, lost or added, and read.
`Archive` has varints of each width with the refusals (`Overflows`, `Redundant`),
blobs, containers, variants, and the declarations of transactions' and blocks'
fields; `short` remembers that a number was cut off at the end, which the code
accepts. `PortableStorage` is the tree of named values: sizes of one, two, four or
eight bytes by two marking bits, entries, arrays, and the limit of 100 calls.
`Addresses` is base 58 in blocks of 8 bytes, the checksum, the prefixes of the
three networks and four kinds of address, and the old hexadecimal form.

### WipeableString
One string as its vector: the memory up to its capacity and the size in use
(`string`), what a `std::string` would hold in its place (`meant`), and what of its
contents is in memory that was given back (`freed`) or was assigned over
(`abandoned`). Each operation is an action with the vector's own growth; an
allocation may fail between the two copies of `grow`.

## 3. Runs

Construction (`payees`, `sources`, `calls`; `MCTxConstruct`): three wallets with a
main address and one subaddress each; each run varies one part of the request.

| Run | Asks | Bounds, and why they are enough |
|---|---|---|
| `payees` | `OutputsReachOwners`, `ScannersAgree`, `PaymentPromise` | every multiset of up to 3 of 7 destinations (each kind of address of each wallet, one of them twice with different amounts), 3 change addresses, both versions, all shuffles. The scheme depends only on whether 0, 1 or more distinct subaddresses and standard addresses are paid, and 3 destinations give each case with and without change and repetition |
| `sources` | `TypeOK`, `InputsAligned`, `SignaturesVerify` | up to 3 sources, keyed by the shared key, for a subaddress, or by an additional key, real output first or second; full and watch-only; refused sources in second place; word of 10 so that one list overflows. Three inputs give permutations that are no involutions |
| `calls` | `MoneyConserved`, `ExtraCanonical`, `PaymentIdReadable`, `WellFormedSucceeds` | stale keys or junk first, each kind of nonce, then one other field, for 8 destination lists: each test of the code for each outcome, and each field before and after those the code appends; both entry points, additional keys of right, wrong and no number; destinations worth less than the sources, more, and (with a word of 32) so much that their sum wraps; every kind of range proof with its versions 0 to 4 and one that is none, for 0, 1, 16 and 17 outputs, one source or two, with a ring of one and without, and both versions of transaction |
| `pool_forkjoin` (`MCThreadPool`) | `TypeOK`, `CountsExact`, `ForksAndJoins` | two callers, up to 4 tasks, one of which uses the pool, pools of 1 to 3 threads, leaves and throwing tasks in each position |
| `pool_shared` (`MCThreadPool`) | `QueuedTasksRun`, `CallersReturn` | a caller recycles the pool while the other's three leaves and tasks without waiter are about; the last caller destroys it |
| `tree_branches` (`MCTreeHash`) | `TypeOK`, `ReadsInBounds`, `BranchProves`, `RootIsMerkle`, `BranchReturned` | every size from 0 to 17, so powers of two with their neighbours, every hash looked up and one that is absent, one hash possibly twice. Four full levels and a partial one run every loop, with the hash on either side in each |
| `curve` (`MCCurve`) | `OnCurve`, `CanonicalBytes`, `DigitsExact`, `ChainsExact`, `ComputesInGroup` | the field of 61 elements, where the curve has 56 points and cofactor 8, as the real one; all encodings, the ones past the field among them; all points as arguments of the single multiplications, a point of order 8 and one of the whole group in pairs and triples; scalars of four nibbles each about to carry. Operations follow one another, so points come in coordinates with every Z. 61 is 5 modulo 8, as 2^255 - 19 is: all four branches of the map are taken. The chains are compared modulo 18 primes whose product is beyond 2^257, which decides them for the real field |
| `rct` (`MCRct`) | `SavedIsLoaded`, `CommitmentsBalance`, `SignedVerifies`, `AlteredRefused`, `DecodedIsSent`, `BatchIsEach`, `SumsAgree`, `RecoveredIsSame`, `PermutedInPlace` | a group of order 32749, so that what should be refused is accepted by accident once in 32749 trials and was not; amounts of 4 bits with both ends; one to three outputs (padded to 4), every type, every way of dividing the proofs, rings of 2 to 4 (of 1 to 4 for version 1, the signer everywhere); draws for which a challenge comes out zero; batches of two; every element of a saved transaction altered; sums of 1 to 5 points at scalars about powers of two; permutations of up to 5 and all other maps of up to 4 |
| `shared` (`MCShared`) | `CachedIsRight`, `DrawsDiffer`, `TablesComplete` | two readers with every interleaving of their loads and stores on three transactions (version 1, version 2 with and without a prunable part), two headers, one refused; two threads that draw or add up to 3 blocks, seeding in pieces, 4 turns, two lives of the process; three threads and 4 entries. Two readers are enough for a flag to change between a reader's look and its store; a third would repeat one of them |
| `written` (`MCWritten`) | `SeedIsRecovered`, `WhatIsWrittenIsRead`, `SecretsAreWiped` | the thirteen real word lists with the least and greatest key of each, and keys whose words or prefixes are another language's; words abbreviated, misspelt, without or with another checksum, the first of them. Transactions and blocks of each kind of input and output, every byte changed to twelve others, lost or doubled; numbers of ten groups. Trees up to 18 and 32 levels and one deeper, strings at each boundary of a size, forms nobody writes. Every network, kind of address and character. Strings of up to 4 characters |

Runs expected to fail show where the code departs from what it says of itself:

| Run | What the trace shows |
|---|---|
| `bad_address` | a destination with a spend key that does not decode: `generate_output_ephemeral_keys` reports the failure, the caller does not look, and the call answers `true` with an output key nobody wrote |
| `pool_recycled` | a worker's task submits a leaf and waits; the pool is stopped in between; `run(true)` returns at once, the leaf stays in the queue, the recycler waits for the worker, the worker for the leaf |

Deadlock is checked in all runs but two: `pool_recycled`, whose subject is that the
system stops, and `written`, where a behaviour is over when what was written has
been read. In construction `Done` and in the pool `Quiet` are the states where a
call has returned or all callers have; they stutter. In the runs `curve`, `rct`
and `shared` an owner or a caller can always go on.

What these runs ask, in a few words:

* **curve.** `ComputesInGroup` is a refinement: whatever the program decodes, adds,
  doubles, multiplies or hashes, with whichever function and in whichever
  coordinates, it makes the step of the group that was meant. `OnCurve` is the
  invariant the formulas rely on; `CanonicalBytes` that a point and a scalar have
  one encoding each that is accepted; `DigitsExact` that recodings add up.
* **rct.** What is signed and arrives as it was sent is accepted, what was changed
  anywhere is refused, what goes in comes out, what is saved without sizes is
  loaded, what is decoded is what was sent, and one equation for a batch says as
  much as one for each proof.
* **shared.** A flag that is seen set covers a whole value; a value computed from an
  object is that of the object; no block of random bytes is handed out twice; tables
  are whole when they are used.
* **written.** What is read is what was written, or it is refused, and there is one
  way to write it. Where the code accepts more than that, the property says so and
  section 5 lists it.

**Fairness.** A construction or a call of `tree_branch` is one thread running to
its end: weak fairness of `Next`. In the pool each thread is scheduled
(`WF_vars(Step(t))`); a thread that sleeps or waits has no step, so nothing is
assumed of the choice `notify_one` makes or of spurious wake-ups. Mutexes are
assumed to be handed out eventually, which weak fairness of critical sections
expresses. The other specifications state no fairness: their properties are safety.

## 4. Proofs

`TxConstruct_proof` (TLAPS, all obligations proved) shows for any sets of
wallets, subaddress indices and secrets, any set of requests that are of the
right type, any number of sources and destinations and any word size:

* `TypeCorrect`: `Spec => []TypeOK`;
* `InputsStayAligned`: `Spec => []InputsAligned`;
* `OutputsAlwaysReachOwners`: `Spec => []OutputsReachOwners`.

The assumptions are those declared with the constants: index 0 (the main
address) is an index, the word size is positive, requests have their type.

The type invariant is not inductive alone: what a step appends has its type only
if the loops are where they ought to be. `IInv` adds `Phases`: how many inputs
and contexts there are at each step, that there are no outputs before "outputs"
and never more than destinations, that an additional key exists for each
output when they are needed. `OutputsReachOwners` needs more: that the
published key is `s*D` or `s*G` according to the classification
(`RightTxPubKey`), and that each output made so far is found by its owner
(`OutputsInv`). The classification is of the shuffled destinations, which no
later step changes. The heart is lemma `NextOutputFound`: for each of the three
schemes, the derivation made by the sender and the one made by the owner are
the same set of secrets on the same base. A change address must be the
sender's, and destinations genuine (`GenuineDestinations`); without either
the statement is false and the code makes no promise.

`TxFinished_proof` goes on from there to what a finished transaction is, under the
same assumptions and one more where it is named:

* `ExtraStaysCanonical`: `Spec => []ExtraCanonical`. The invariant `ExtraInv` follows
  the extra from the caller's to the sorted one: fields that construction does not
  touch stay as they were, from the removal of old keys on the transaction's key is
  the only one, and once sorted everything is in place. The lemmas are about the
  fields of one type in order (`OfTypes`): what the parser's loop makes of an
  extra, what removing one type keeps and drops, and that the sort neither loses nor
  reorders fields of one type (`SortKeeps`) and has nothing to do the second time
  (`SortTwice`).
* `ScannersAlwaysAgree`: `Spec => []ScannersAgree`. The two scanners differ in what
  they do about a published key that does not decode: one skips it, which moves the
  keys behind it, the other stops. `ScanInv` says that every key that construction
  publishes decodes; with `ExtraStaysCanonical` both read back the same keys.
* `SignaturesAlwaysVerify`: `Spec => []SignaturesVerify`. `SignInv` says that the
  sources are the caller's in some order, that each input carries the offsets of the
  ring at its own index and each context a secret with its key, and that signatures
  are made when nothing signed will change. What a verifier adds up from the offsets
  is the sorted ring (`OffsetsAddUp`), which is the source's own ring when that was
  ascending (`IncreasingIsIdentity`). Assumed: an index names one output
  (`OneChainAssumption`), as the rings of one call are taken from one chain.
* `MoneyAlwaysConserved`: `Spec => []MoneyConserved`. `MoneyInv` says that the running
  sums are those of the first inputs and outputs; none wraps while the totals fit a
  word (`NoWrap`), and reordering changes no total (`TotalPermuted`: take one amount
  out of both, and go on with the rest). `Total` is a recursive function and not a
  `RECURSIVE` operator, so it can be reasoned about.
* `PaymentsKeepPromise`: `Spec /\ GenuineDestinations => Promise!Safety`: the
  construction implements the safety half of `Payment`, under the mapping of
  `TxConstructProps`, for requests whose destinations are addresses of wallets. The
  steps that answer map to `Pay` or `Refuse` and all others to a stutter. `PayInv`:
  the destinations are the request's, permuted, and each output has the key, view
  tag, amount and amount key of one derivation, that of `ScanInv`. With it the
  owner finds the output (`TheOwner`) and nobody else does, through any of the keys
  that are published (`OnlyTheOwner`); so what is read is as often the payment of a
  place as there are places, and the permutation is a bijection between the places of
  outputs and of the order (`Delivered`). That an address is of one wallet and one
  index is a lemma (`AddressNames`).
* `WellFormedAlwaysSucceeds`: `Spec => []WellFormedSucceeds`. `GoingInv` follows a
  well-formed call: the next source is the sender's, so the helper makes its key pair
  (`OwnSourceFound`, for full, multisig and watch-only accounts alike); the extra
  keeps decoding, as no field is ever put behind a padding (`NoPadding`,
  `ExtraGoesOn`); the money is enough, by `MoneyInv`; the counts that are compared
  at the end agree; and `genRct` and `genRctSimple` throw on nothing (`Unrefused`): a
  request is well-formed in version 2 only if its rings and the number of its
  destinations are within what its configuration can sign and prove (`Provable`), there
  are as many outputs as destinations (`CountsInv`), and the rings are still those of
  the request, in another order (`SignInv`). The counts depend on whether additional keys are needed, which is
  decided once before the shuffle and again after it: `ShuffleNeeds` shows that both
  decisions are the same, because they say that two different addresses other than
  the change are paid, one of them a subaddress (`AdditionalIff`).
* `PaymentIdAlwaysReadable`: `Spec /\ Named(req.destinations) /\ IdsInPlace =>
  []PaymentIdReadable`, for destinations that are addresses, flagged as they were
  parsed, and an id of the caller's, if any, that is in the first nonce and not yet
  encrypted. `IdInv` says that from the step that looks at the extra on every id in
  it is the caller's, or a dummy, under one pad, that of the address paid
  (`EncryptSeals`, `DummySeals`), that nothing after touches a nonce, and that the
  destinations are the caller's in some order. The recipient makes the same pad from
  the published key (`RecipientKnows`): that key is `s*D` exactly if the one address
  paid is a subaddress, as the classification after the shuffle and the choice of the
  view key before it go by different rules that agree on these calls.

`TreeHash_proof` shows for any number of hashes:

* `BranchTypes`: `Spec => []TypeOK`;
* `BranchInBounds`: `Spec => []ReadsInBounds`: no read or write outside the
  arrays, and `assert(i == count)` holds. The invariant `IInv` is about the power of
  two being looked for (even, and half of it short of the count) and about the pace
  of the loops (`i` runs two steps for each step of `j`, from a start that depends on
  the count).
* `RootAlwaysMerkle`: `Spec => []RootIsMerkle`. By induction over the levels
  (`LevelsAreTops`): what a level folded in place holds at place `t` is the root over
  the nodes below it. It rests on what one folding leaves behind (`Folded`) and on
  `tree_hash_cnt` giving the one power of two below the count that is at least half
  of it (`Rounded`, `OnePower`).
* `BranchAlwaysProves`: `Spec => []BranchProves`. The invariant `BInv` says of each
  turn of each loop what the array holds, before and behind the place being written,
  in terms of the levels of `tree_hash` (`Contents`); that the branch so far leads
  from the hash to the node being followed (`Leads`); and that this node and the path
  are those `tree_path` has at that level (`Climbed`). At the end, `Enough`: a branch
  has one hash it leads to the root from, by induction from the root down
  (`SameEnd`), and turning a bit of the path over leaves the other bits
  (`FlippedBits`) but changes sides at one sibling. TLC found `BInv` to hold first.

The only assumptions are that the arguments are arrays of hashes and that hashes of
different pairs differ. Induction over numbers is done with a set of numbers that holds
0 and with each number the next (`Upwards`, from the library's well-founded orders);
each recursive function of the model is shown to exist before its equation is used,
and the powers of two, of which the prover knows nothing, are got from the cardinality
of a set of subsets (`PowerStep`).

`SharedState_proof` shows for any number of threads:

* `TablesAreWhole`: `Spec => []TablesComplete`. The invariant: whoever builds has the
  mutex (`OneBuilds`) and builds because nobody has (`BuiltOnce`), each part is whole
  when the builder goes on to the next (`WholeInTurn`), `init_done` means whole
  (`DoneIsFull`). Assumed: there is at least one entry.
* `BlocksAreApart`: `Spec => []DrawsDiffer`. The invariant says where the lock is for
  each place of a thread, that a state read by the permutation is still the state
  when it is written back, and that the turns in the state are more than those of
  any block handed out. The two constants of `random32_unbiased` are assumed to be
  as TLC evaluates them (`ScalarsUnbiased` has no variables).
* `CachesAreRight`: `Spec => []CachedIsRight`, for any transactions, headers and
  refused blocks. Readers take no lock; what makes it true is that they all write the
  same. The invariant `CacheInv` says for each place of a reader what it has found out
  and what is already written (`HashOK`, `PrunableOK`, `BlockOK`): sizes read after
  saving are those of the object, a flag is set over two halves of the right hash.
  A step that keeps what is right in the objects (`Kept`) disturbs no other reader
  (`OthersStay`), so each action is looked at for its own reader only. Owners come
  alone and leave an object without a hash or with the right one. Assumed: the
  transactions are of version 1 or 2 and made of three sequences
  (`ContentAssumption`). TLC found `CacheInv` to hold on the instance of `shared`.

`RctCalls_proof` shows of all the calls of `RctCalls`, in a group of any order:

* `PermutesInPlace`: `Spec => []PermutedInPlace`, for vectors of any length and any
  sequence of numbers. The checks of the code
  establish that the numbers are a permutation by counting only half of it
  (each place is named by somebody): lemma `SaneIsPermutation` is the
  pigeonhole principle, from the library's facts about cardinalities. The invariant
  `TurnInv` follows the swaps: places that are done hold what they should
  (`Settled`), the others what they held (`Untouched`) but for the one the cycle is
  at, what is not done is closed under the permutation (`Closed`, `Reached`), and
  everything before the cycle is done (`Passed`).
* `RecoversAccounts`: `Spec => []RecoveredIsSame`, for any numbers that accounts are made
  of. `AccountInv` says what the account in hand was made of and recovered from;
  that a scalar is reduced already (`Reduced`) makes the keys those of the spend key,
  and the view key is the hash of the same number.
* `RingsVerify`: `Spec => []RingVerifies`, the half of `SignedVerifies` that is about
  `generate_ring_signature`, for rings of any size. At the signer's place the response
  leads back to what was committed to (`Opening`), so signer and verifier hash the same
  points; and the signer's challenge, which makes the sum the hash when all the others
  are added up without it, does so when it is added at its place (`Closing`). Hashes
  are numbers for lists of any length (`Hashes`); nothing else is used of them.
  Assumed: the signer's place, and the owners of secret and image, are in the ring.
* `CommitmentsAreBalanced`: `Spec => []CommitmentsBalance`, for any number of inputs and
  outputs, every type and every way of dividing the range proofs, for estimates too, in
  any group of odd prime order. The invariant `TxInv` says that what was signed, with
  its secrets, is what signing some request gives, whatever becomes of the transaction
  after; so it is about `Signed` alone (`SignedSound`), and there it is arithmetic.
  A sum of commitments is one to the sum of the amounts under the sum of the masks
  (`CommitmentSum`); the last mask of the pseudo outputs makes the sums of masks equal
  (`MasksBalance`). The commitments to the bits of an amount add up to the one to the
  amount (`BitsCommitted`), and that of a range proof, scaled down by the inverse of
  eight and up again, is the one to its amount (`TimesEight`; `EightInverted` is why
  there is an inverse). However the outputs are divided, each proof takes at least one
  and at most those left (`Batched`), and what the proofs commit to, one after the
  other, is what the outputs do (`RangedMore`, `RangesCommit`). Assumed:
  `RequestsAssumption`.

`ThreadPool_proof` shows for any number of callers, workers and tasks, whatever the
plans (all that is assumed of these is said under ThreadPool):

* `PoolTypes`: `Spec => []TypeOK`.
* `CountersExact`: `Spec => []CountsExact`. `active` and each waiter's `num` count
  frames of stacks and places of the queue, so the invariant `PoolInv` has to say
  what a stack may look like (`StacksInv`: above a body that waits there is what
  `run` took up for it, above one that submits the task it runs itself; only the top
  moves) before the counts can be followed. The lemmas are about how many elements of
  a sequence are in a set, when the top of one stack is pushed, popped or replaced,
  and about sums over threads: no step changes two stacks, so a sum changes by what
  the one changes.
* `JoinsSafely`: `Spec => Promise!Safety`, i.e. the pool implements the safety half of
  `ForkJoin` under the mapping of `ThreadPoolProps`: an actor is begun once and after
  it was given, is answered when all its tasks are over and with "false" exactly if
  one of them failed, and nobody ends before that. It needs the second invariant
  `LifeInv`, inductive relative to the first (`LivesInvariant`): an actor has one body
  and has it from its beginning to its end (`OneBody`, `Alive`), tasks are handed in
  in the order of the plan (`InTurn`) and queued once (`QueuedOnce`), and a failure is
  noted with the waiter until its owner is told (`Told`). That an answer comes after
  the tasks then follows from the exactness of `num`. Each action is a step of
  `ForkJoin` or a stutter (`StepJoins`), by lemmas that say what the mapping makes of
  a body that begins, is answered, finishes.

`CurveCalls_proof` shows for scalars of any number of bytes, the 32 of the code among
them:

* `RecodingsExact`: `Spec => []DigitsExact`. For each of the three recodings a sequence
  is given of what is left of the scalar above digit `i`, with what was carried there;
  it loses exactly the digit at each place and ends at 0 (`Valued`). For the signed
  recodings (`BaseExact`, `RecodeExact`) this is the quotient by a power of two and the
  carry, which is 0 or 1 (`BaseCarries`, `ByteCarries`, with the ranges the comments of
  the code give), and the last digit needs no carry as the last nibble is below 8. For
  `slide` (`SlideExact`) it is the quotient with the carry of the windows below: the bits
  above the window being made are always those of that number (`Propagated`: the
  ones that become zeros and the zero that becomes a one are its increment). The first
  three turns of the inner loop take in a bit each (`LowTurn`), the fourth carries if
  its bit is set (`HighTurn`), the last two change nothing (`LastTurns`); and nothing is
  lost when the bits run out, because a number below half of the range leaves the carry
  a zero to stop at (`SomeZero`, `HalfAgain`). Assumed: `ScalarsAssumption` and
  `NibblesAssumption`. The invariant is that every call's scalars are as assumed
  (`ScalarsSmall`); nothing is assumed of the field.

`WipeableString_proof` shows for texts of any length:

* `StringsAreWiped`: `WipeableSpec => []SecretsAreWiped`. The invariant `WipeInv`: past
  its size a string's memory holds zeros and what was abandoned (`Tidy`), and nothing
  else was given back. `grow` keeps that in place and when it moves, as long as no call
  shrinks and moves at once (lemma `Grown`; its calls never do). The words of `split`
  and the bytes of `parse_hexstr` are strings of their own which grow one character at
  a time; that their loops leave nothing behind needs the loops to have a run at all,
  which lemma `LoopRuns` builds step by step without induction over an operator: a set
  of numbers that holds 0 and with each number the next holds all (`Upwards`, from the
  library's well-founded orders). Assumed: texts are sequences of characters.

Only model-checked: the refinement `ComputesInGroup`, with `OnCurve`, `CanonicalBytes`
and the chains of exponents (about one field: the group law is associative on a curve
by an identity of polynomials that the provers do not find), and the liveness of `ForksAndJoins`
and of `PaymentPromise`, which is out of the prover's reach; of the run `rct` what is
about the verification of whole transactions and of range proofs, and about loading
what was saved: what is refused is refused for the one
fixed function that stands for the hash, and the provers draw again until no
challenge is zero, so that a proof exists for each request is not to be had (the
commitments in it do not depend on the draws, which is why they can be proved about);
of the run `written` what is read and recovered, as its readers and writers
are recursive or folds over data.

## 5. Not modelled

**Left out, and why.** In construction, commitments, range proofs and the mathematics
of ring signatures (a signature is what it signs; `RctSigs` has the rest), and the device in its mode of
estimates, where dummy proofs take the place of real ones and their limits;
`unlock_time`, logging; hardware devices (only `device_default` is in the
repository); multisig construction (its outputs are refused or finished elsewhere).
The size of stacks and the lifetime of closures in the pool. Limbs and constant time
of field arithmetic, and Keccak: TLC would compute what a test vector shows. The
registry of devices: a map filled once before use and deleted by an exit handler.
JSON and debug archives, which are only written; the calls that get and set single
values of portable storage through bare pointers, which nothing in the repository
makes; `mlocker`, whose calls are stubs here. Key-value maps, error classes and RPC
structures are declarations. A failing system source of random bytes ends the
process. `DepthCounts` holds while no task has thrown: an exception passing through
`submit` leaves `depth` raised.

**Where the code accepts more, or does less, than one may think.** These were met
while modelling; the models do what the code does, and the properties say what
remains true.

* `words_to_bytes` with a length of half the key (`electrum-words.h:69`, "we accept
  half the data, and duplicate it"): the second computation of `expected`
  (`electrum-words.cpp:340`) is of the length that was asked, so a seed of 12 words
  is not doubled, and the overload for keys refuses it. With length 0, words that
  are no multiple of three are not refused; one word alone divides by zero, and
  the model starts at two.
* A seed whose words, or prefixes, are all of an earlier language and whose
  checksum agrees there is read in that language. Old English has words with the
  same prefix; the later one is meant.
* A varint that is cut off at the end of a blob is accepted as what was read of it
  (`Archive`, flag `short`), and a missing one as zero.
* In portable storage, an array of arrays can be written but reading it throws; a
  name of 255 bytes can be read but not written; of two entries of one name the
  first stays; bytes after the tree are ignored; a load that is refused leaves what
  it read before; sizes may be wider than they need be.
* An old hexadecimal address is not checked for keys on the curve, and its checksum
  of 8 bits misses changes that make up for each other. `get_account_address_from_str`
  writes part of its answer before it refuses.
* An account made of a legacy seed past the order and recovered from its spend key
  has another view key.
* `wipeable_string`: both assignments give memory back unwiped, and so does a failing
  allocation in `grow`; `parse_hexstr` takes the character NUL for a digit of
  value 16. Appending a string to itself (`s += s`) reads memory that was given
  back; the model leaves that call out.
* `parse_and_validate_block_from_blob` does not look at what `calculate_block_hash`
  answers, and keeps a null hash as that of a block that is refused.
* A range proof divided into several (`RangeProofMultiOutputBulletproof` and others)
  is signed and cannot be expanded when it is loaded.
* An additional key that does not decode before the receiver's own index shifts the
  list of derivations (`cryptonote_format_utils.cpp:274`): the output is not found
  and a source is refused.
* A task without waiter that throws stores its error through a null pointer
  (`threadpool.cpp:170`). A waiting task may help with another, so executions
  outnumber threads and a task is queued that a comment says is run at once
  (`threadpool.cpp:88`).
* A second destination that is sent nothing: `get_destination_view_key_pub` skips it,
  the classification does not, and the payment id is then encrypted under another
  key than the recipient can form. `PaymentIdReadable` leaves such calls out.
* A transaction that pays nobody but its change, which is a subaddress: the
  classification skips the change, so the published key is `s*G`, but
  `get_destination_view_key_pub` (`cryptonote_tx_utils.cpp:76`) answers the view key
  of the change, and its owner cannot make the derivation that a payment id is then
  encrypted under. `PaymentIdReadable` leaves this out as well.
* Only the first nonce is looked at for a payment id: an id to be encrypted in a
  second nonce, behind another use of the field, stays as the caller wrote it
  (`cryptonote_tx_utils.cpp:124`). `IdsInPlace` leaves such an extra out, and so do
  the calls of the runs.
* Two destinations whose amounts add up to less than one of them modulo 2^64 pass
  the check of the money (`cryptonote_tx_utils.cpp:314`); callers are assumed to
  keep sums below it, and `MoneyConserved` says what holds then. The run `calls` has
  such a call, and the code accepts it.

## 6. What is left

1. Portable storage's calls for single values, and the maps of key-value
   serialization that use them.
2. Larger fields for `curve`, amounts of 8 bits and aggregates of 8 for `rct`.
