------------------------------ MODULE TxCache ------------------------------
(***************************************************************************)
(* The hashes and sizes a transaction and a block keep of themselves       *)
(* (cryptonote_basic.h, cryptonote_format_utils.cpp).  Readers share const *)
(* objects without a lock: each looks at a flag, computes what is missing, *)
(* writes it and sets the flag.  Owners change an object while nobody      *)
(* reads it.                                                               *)
(*                                                                         *)
(* A hash is what is hashed.  It is written and read in two halves, so     *)
(* that one caught half way shows.  Saving a transaction, const or not,    *)
(* writes where its parts end (prefix_size, unprunable_size).              *)
(***************************************************************************)
EXTENDS Integers, Sequences

CONSTANTS
  None,
  Reader,      \* threads
  Content,     \* transactions, [version, prefix, base, prunable]: sequences of bytes
  Header,      \* headers of blocks
  Refused      \* those that claim the identity of block 202612

TransactionType == [version : {1, 2}, prefix : Seq(STRING), base : Seq(STRING), prunable : Seq(STRING)]
ASSUME ContentAssumption == Content \subseteq TransactionType

VARIABLES
  tx,          \* the miner transaction of the block
  original,    \* what was there before its prunable part was left out
  block,
  cpc, ask,    \* of each reader: where it is, what it asked
  found        \* and what it has found out

cacheVars == <<tx, original, block, cpc, ask, found>>

-----------------------------------------------------------------------------
Half == {1, 2}
Whole(h) == [n \in Half |-> h]
Unwritten == Whole(None)

Blob(c) == c.prefix \o c.base \o c.prunable
BlobOf(t) == IF t.pruned THEN t.content.prefix \o t.content.base ELSE Blob(t.content)

(* The hash of a version 2 transaction is one of three hashes; a coinbase  *)
(* transaction's third is null, that of nothing is not.                    *)
TxHash(c, base, prunable) ==
  IF c.version = 1 THEN <<"blob", Blob(c)>>
  ELSE <<"three", c.prefix, base, IF c.prunable = << >> THEN <<"null_hash">> ELSE prunable>>
HashOf(c) == TxHash(c, c.base, c.prunable)

Empty == [version |-> 1, prefix |-> << >>, base |-> << >>, prunable |-> << >>]
set_null ==
  [content |-> Empty, pruned |-> FALSE, prefix_size |-> 0, unprunable_size |-> 0,
   hash_valid |-> FALSE, hash |-> Unwritten, prunable_hash_valid |-> FALSE, prunable_hash |-> Unwritten,
   blob_size_valid |-> FALSE, blob_size |-> None]

(* What a copy takes over: a value that is not valid is left as it was.    *)
Taken(valid, value, old) == IF valid THEN value ELSE old
Copied(t, old) ==
  [t EXCEPT !.hash = Taken(t.hash_valid, @, old.hash),
            !.prunable_hash = Taken(t.prunable_hash_valid, @, old.prunable_hash),
            !.blob_size = Taken(t.blob_size_valid, @, old.blob_size)]

invalidate_hashes(t) ==
  [t EXCEPT !.hash_valid = FALSE, !.prunable_hash_valid = FALSE, !.blob_size_valid = FALSE]

(* Saving or loading all of it. *)
Sized(t) ==
  [t EXCEPT !.prefix_size = Len(t.content.prefix),
            !.unprunable_size = Len(t.content.prefix) + Len(t.content.base)]

-----------------------------------------------------------------------------
CacheInit ==
  /\ tx = set_null /\ original = Empty
  /\ block = [header |-> None, hash_valid |-> FALSE, hash |-> Unwritten]
  /\ cpc = [r \in Reader |-> "idle"]
  /\ ask = [r \in Reader |-> None]
  /\ found = [r \in Reader |-> None]

Alone == \A r \in Reader : cpc[r] \in {"idle", "answered"}
Readers == <<cpc, ask, found>>
Forgotten == /\ cpc' = [r \in Reader |-> "idle"] /\ ask' = [r \in Reader |-> None] /\ found' = [r \in Reader |-> None]

(* parse_and_validate_tx_from_blob, into whatever was there. *)
ParseTx(c) ==
  /\ Alone
  /\ tx' = [invalidate_hashes(Sized([tx EXCEPT !.content = c, !.pruned = FALSE]))
              EXCEPT !.blob_size = Len(Blob(c)), !.blob_size_valid = TRUE]
  /\ original' = c
  /\ block' = [block EXCEPT !.hash_valid = FALSE]
  /\ Forgotten

(* parse_and_validate_tx_base_from_blob, into a transaction that is new:   *)
(* neither sizes nor, when it fails, flags are reset for another.          *)
ParsePruned(c) ==
  /\ Alone /\ tx.content = Empty /\ ~block.hash_valid
  /\ c.version = 2 /\ c.prunable # << >>
  /\ tx' = invalidate_hashes([tx EXCEPT !.content = [c EXCEPT !.prunable = <<None>>], !.pruned = TRUE])
  /\ original' = c
  /\ UNCHANGED block
  /\ Forgotten

(* parse_and_validate_block_from_blob, without a hash being asked: the     *)
(* sizes of the miner transaction are those of another blob no more.       *)
ParseBlock(h, c) ==
  /\ Alone
  /\ tx' = invalidate_hashes(Sized([tx EXCEPT !.content = c, !.pruned = FALSE]))
  /\ original' = c
  /\ block' = [block EXCEPT !.header = h, !.hash_valid = FALSE]
  /\ Forgotten

(* The same with the hash asked for: it is kept even if it is refused.     *)
ParseBlockHashed(h, c) ==
  /\ Alone
  /\ tx' = [invalidate_hashes(Sized([tx EXCEPT !.content = c, !.pruned = FALSE]))
              EXCEPT !.hash = Whole(HashOf(c)), !.hash_valid = TRUE,
                     !.blob_size = Len(Blob(c)), !.blob_size_valid = TRUE]
  /\ original' = c
  /\ block' = [header |-> h, hash_valid |-> TRUE,
               hash |-> Whole(IF h \in Refused THEN <<"null_hash">> ELSE <<h, HashOf(c)>>)]
  /\ Forgotten

(* An owner changes fields and says so, of the block as well as of the     *)
(* transaction inside it.                                                  *)
Change(c) ==
  /\ Alone /\ ~tx.pruned
  /\ tx' = invalidate_hashes([tx EXCEPT !.content = c])
  /\ original' = c
  /\ block' = [block EXCEPT !.hash_valid = FALSE]
  /\ Forgotten

ChangeHeader(h) ==
  /\ Alone /\ h # block.header
  /\ block' = [block EXCEPT !.header = h, !.hash_valid = FALSE]
  /\ UNCHANGED <<tx, original>>
  /\ Forgotten

(* A copy becomes the object. *)
Assign(r) ==
  /\ Alone /\ cpc[r] = "answered" /\ ask[r].what = "copy"
  /\ tx' = Copied(found[r], tx)
  /\ UNCHANGED <<original, block>>
  /\ Forgotten

-----------------------------------------------------------------------------
(* Readers. *)
Nothing == [valid |-> FALSE, hash |-> Unwritten, value |-> None, prefix_size |-> 0, unprunable_size |-> 0, size |-> None]
Ask(r, what, size) ==
  /\ size => what \in {"tx", "block"}
  /\ what = "block" => size
  /\ cpc[r] \in {"idle", "answered"} /\ tx.content # Empty
  /\ what = "block" => block.header # None /\ ~tx.pruned
  /\ ask' = [ask EXCEPT ![r] = [what |-> what, size |-> size]]
  /\ found' = [found EXCEPT ![r] = Nothing]
  /\ cpc' = [cpc EXCEPT ![r] = CASE what = "tx" -> "hash?" [] what = "block" -> "block hash?"
                                 [] what = "prunable" -> "prunable?" [] what = "pruned" -> "three hashes"
                                 [] what = "copy" -> "copy"]
  /\ UNCHANGED <<tx, original, block>>

Step(r, from, to) == cpc[r] = from /\ cpc' = [cpc EXCEPT ![r] = to] /\ UNCHANGED <<ask, original>>
Learn(r, f, v) == found' = [found EXCEPT ![r][f] = v]
Fails(r, from) == Step(r, from, "failed") /\ UNCHANGED <<tx, block, found>>

(* get_transaction_hash. *)
LoadFlag(r) ==
  /\ Step(r, "hash?", IF tx.hash_valid THEN "read 1" ELSE "serialize")
  /\ UNCHANGED <<tx, block, found>>

ReadHalf(r, n) ==
  /\ n \in Half
  /\ Step(r, IF n = 1 THEN "read 1" ELSE "read 2",
             IF n = 1 THEN "read 2" ELSE IF ask[r].size THEN "size?" ELSE "got")
  /\ found' = [found EXCEPT ![r].hash[n] = tx.hash[n]]
  /\ UNCHANGED <<tx, block>>

(* calculate_transaction_hash. *)
Serialize(r) ==
  /\ ~tx.pruned
  /\ Step(r, "serialize", "sizes")
  /\ tx' = Sized(tx)
  /\ UNCHANGED <<block, found>>

RefusePruned(r) == tx.pruned /\ Fails(r, "serialize")

LoadSizes(r) ==
  /\ Step(r, "sizes", "calculate")
  /\ found' = [found EXCEPT ![r].prefix_size = tx.prefix_size, ![r].unprunable_size = tx.unprunable_size]
  /\ UNCHANGED <<tx, block>>

Calculate_ValidFirst(r) ==
  /\ Step(r, "calculate", IF ask[r].size THEN "size of blob?" ELSE "write 1")
  /\ LET blob == Blob(tx.content)
         p == found[r].prefix_size
         u == found[r].unprunable_size
     IN  Learn(r, "value", TxHash(tx.content, SubSeq(blob, p + 1, u), SubSeq(blob, u + 1, Len(blob))))
  /\ tx' = [tx EXCEPT !.hash_valid = TRUE]
  /\ UNCHANGED block
Calculate(r) ==
  /\ Step(r, "calculate", IF ask[r].size THEN "size of blob?" ELSE "write 1")
  /\ LET blob == Blob(tx.content)
         p == found[r].prefix_size
         u == found[r].unprunable_size
     IN  Learn(r, "value", TxHash(tx.content, SubSeq(blob, p + 1, u), SubSeq(blob, u + 1, Len(blob))))
  /\ UNCHANGED <<tx, block>>

(* For version 1 the size is that of the blob; otherwise the one kept, if  *)
(* it is valid.                                                            *)
SizeOfBlob(r) ==
  /\ Step(r, "size of blob?", "write 1")
  /\ LET new == IF tx.content.version = 1 \/ tx.blob_size_valid THEN tx
                ELSE [tx EXCEPT !.blob_size = Len(Blob(tx.content)), !.blob_size_valid = TRUE]
     IN  /\ tx' = new
         /\ Learn(r, "size", IF tx.content.version = 1 THEN Len(Blob(tx.content)) ELSE new.blob_size)
  /\ UNCHANGED block

WriteHalf(r, n) ==
  /\ n \in Half
  /\ Step(r, IF n = 1 THEN "write 1" ELSE "write 2", IF n = 1 THEN "write 2" ELSE "set valid")
  /\ tx' = [tx EXCEPT !.hash[n] = found[r].value]
  /\ UNCHANGED <<block, found>>

SetValid(r) ==
  /\ Step(r, "set valid", IF ask[r].size THEN "set size" ELSE "got")
  /\ tx' = [tx EXCEPT !.hash_valid = TRUE]
  /\ found' = [found EXCEPT ![r].hash = Whole(found[r].value)]
  /\ UNCHANGED block

SetSize(r) ==
  /\ Step(r, "set size", "got")
  /\ tx' = [tx EXCEPT !.blob_size = found[r].size, !.blob_size_valid = TRUE]
  /\ UNCHANGED <<block, found>>

(* The hash was valid, the size perhaps is not. *)
CachedSize(r) ==
  /\ Step(r, "size?", "got")
  /\ tx' = IF tx.blob_size_valid THEN tx
           ELSE [Sized(tx) EXCEPT !.blob_size = Len(BlobOf(tx)), !.blob_size_valid = TRUE]
  /\ Learn(r, "size", tx'.blob_size)
  /\ UNCHANGED block

(* Whoever asked for the transaction has it; for a block there is more,    *)
(* unless it is refused.                                                   *)
Got(r) ==
  /\ Step(r, "got", "answered")
  /\ ask[r].what # "block"
  /\ UNCHANGED <<tx, block, found>>

GotForBlock(r) ==
  /\ Step(r, "got", IF block.header \in Refused THEN "failed" ELSE "block write 1")
  /\ ask[r].what = "block"
  /\ Learn(r, "value", <<block.header, found[r].hash[1]>>)
  /\ UNCHANGED <<tx, block>>

-----------------------------------------------------------------------------
(* get_transaction_prunable_hash, with a blob that was just made of the    *)
(* transaction or without one.                                             *)
Prunable(r, withBlob) ==
  /\ ~tx.prunable_hash_valid /\ (withBlob => ~tx.pruned)
  /\ Step(r, "prunable?", IF tx.content.version = 1 \/ tx.pruned THEN "failed" ELSE "write prunable 1")
  /\ tx' = IF withBlob THEN Sized(tx) ELSE tx
  /\ LET blob == Blob(tx.content)
     IN  Learn(r, "value", IF withBlob THEN SubSeq(blob, tx'.unprunable_size + 1, Len(blob)) ELSE tx.content.prunable)
  /\ UNCHANGED block

PrunableCached(r) ==
  /\ tx.prunable_hash_valid
  /\ Step(r, "prunable?", "answered")
  /\ Learn(r, "hash", tx.prunable_hash)
  /\ UNCHANGED <<tx, block>>

WritePrunableHalf(r, n) ==
  /\ n \in Half
  /\ Step(r, IF n = 1 THEN "write prunable 1" ELSE "write prunable 2", IF n = 1 THEN "write prunable 2" ELSE "set prunable valid")
  /\ tx' = [tx EXCEPT !.prunable_hash[n] = found[r].value]
  /\ UNCHANGED <<block, found>>

SetPrunableValid(r) ==
  /\ Step(r, "set prunable valid", "answered")
  /\ tx' = [tx EXCEPT !.prunable_hash_valid = TRUE]
  /\ found' = [found EXCEPT ![r].hash = Whole(found[r].value)]
  /\ UNCHANGED block

(* get_pruned_transaction_hash, given the hash of what was left out.       *)
PrunedHash(r) ==
  /\ tx.content.version = 2
  /\ Step(r, "three hashes", "write 1")
  /\ Learn(r, "value", TxHash(tx.content, tx.content.base, original.prunable))
  /\ UNCHANGED <<tx, block>>

RefuseVersion1(r) == tx.content.version = 1 /\ Fails(r, "three hashes")

(* The copy constructor. *)
Copy(r) ==
  /\ Step(r, "copy", "answered")
  /\ found' = [found EXCEPT ![r] = Copied(tx, set_null)]
  /\ UNCHANGED <<tx, block>>

-----------------------------------------------------------------------------
(* get_block_hash: the hash of the miner transaction, with its size, is    *)
(* asked while that of the block is calculated.                            *)
BlockFlag(r) ==
  /\ Step(r, "block hash?", IF block.hash_valid THEN "block read" ELSE "hash?")
  /\ tx' = IF block.hash_valid THEN tx ELSE Sized(tx)
  /\ UNCHANGED <<block, found>>

BlockRead(r) ==
  /\ Step(r, "block read", "answered")
  /\ Learn(r, "hash", block.hash)
  /\ UNCHANGED <<tx, block>>

BlockWriteHalf(r, n) ==
  /\ n \in Half
  /\ Step(r, IF n = 1 THEN "block write 1" ELSE "block write 2", IF n = 1 THEN "block write 2" ELSE "block valid")
  /\ block' = [block EXCEPT !.hash[n] = found[r].value]
  /\ UNCHANGED <<tx, found>>

BlockValid(r) ==
  /\ Step(r, "block valid", "answered")
  /\ block' = [block EXCEPT !.hash_valid = TRUE]
  /\ found' = [found EXCEPT ![r].hash = Whole(found[r].value)]
  /\ UNCHANGED tx

GaveUp(r) ==
  /\ Step(r, "failed", "idle")
  /\ UNCHANGED <<tx, block, found>>

CacheNext ==
  \/ \E c \in Content : ParseTx(c) \/ ParsePruned(c) \/ Change(c)
  \/ \E h \in Header, c \in Content : ParseBlock(h, c) \/ ParseBlockHashed(h, c)
  \/ \E h \in Header : ChangeHeader(h)
  \/ \E r \in Reader :
       \/ Assign(r)
       \/ \E what \in {"tx", "block", "prunable", "pruned", "copy"}, size \in BOOLEAN : Ask(r, what, size)
       \/ LoadFlag(r) \/ Serialize(r) \/ RefusePruned(r) \/ LoadSizes(r) \/ Calculate(r)
       \/ SizeOfBlob(r) \/ SetValid(r) \/ SetSize(r) \/ CachedSize(r) \/ Got(r) \/ GotForBlock(r)
       \/ \E n \in Half : \/ ReadHalf(r, n) \/ WriteHalf(r, n) \/ WritePrunableHalf(r, n) \/ BlockWriteHalf(r, n)
       \/ \E withBlob \in BOOLEAN : Prunable(r, withBlob)
       \/ PrunableCached(r) \/ SetPrunableValid(r) \/ PrunedHash(r) \/ RefuseVersion1(r)
       \/ Copy(r) \/ BlockFlag(r) \/ BlockRead(r) \/ BlockValid(r) \/ GaveUp(r)

-----------------------------------------------------------------------------
(* CachedIsRight: whatever readers do at the same time, and whatever was   *)
(* parsed, changed, copied or assigned before, a hash or a size that is    *)
(* valid and whole is that of the object, and so is what a reader is       *)
(* answered - but for a block that is refused when its hash is asked with  *)
(* its parsing (parse_and_validate_block_from_blob ignores the answer).    *)
RightOf(t) ==
  /\ t.hash_valid => t.hash = Whole(HashOf(original))
  /\ t.prunable_hash_valid => t.prunable_hash = Whole(original.prunable)
  /\ t.blob_size_valid => t.blob_size = Len(BlobOf(t))

Answer(r) ==
  CASE ask[r].what \in {"tx", "pruned"} ->
         /\ found[r].hash = Whole(HashOf(original))
         /\ ask[r].size => found[r].size = Len(BlobOf(tx))
    [] ask[r].what = "prunable" -> found[r].hash = Whole(original.prunable)
    [] ask[r].what = "block" -> block.header \in Refused \/ found[r].hash = Whole(<<block.header, HashOf(original)>>)
    [] ask[r].what = "copy" -> RightOf(found[r]) /\ found[r].content = tx.content

CachedIsRight ==
  /\ RightOf(tx)
  /\ block.hash_valid /\ block.header \notin Refused => block.hash = Whole(<<block.header, HashOf(original)>>)
  /\ \A r \in Reader : cpc[r] = "answered" => Answer(r)
=============================================================================
