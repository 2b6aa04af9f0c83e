------------------------------ MODULE Archive ------------------------------
(***************************************************************************)
(* Binary archives: common/varint.h, serialization/binary_archive.h,       *)
(* container.h, variant.h, serialization.h, and what is declared of blocks *)
(* and prefixes of transactions with them (cryptonote_basic.h).            *)
(*                                                                         *)
(* A number is what a varint makes of it: its digits to the base 128,      *)
(* lowest first, none of them a leading zero; a number of fixed width is   *)
(* its bytes, highest first.  A blob of 32 bytes is one of BlobSize.       *)
(***************************************************************************)
EXTENDS Integers, Sequences, FiniteSetsExt, SequencesExt

CONSTANTS
  BlobSize,    \* of a hash or a key; a signature has two
  MaxHashes,   \* CRYPTONOTE_MAX_TX_PER_BLOCK
  Objects,     \* [type, value]: what is saved
  OddBytes     \* what a byte may be altered to

VARIABLES
  apc,
  object,      \* what was saved
  blob,        \* its bytes, perhaps altered
  altered,
  loaded       \* what was read

archiveVars == <<apc, object, blob, altered, loaded>>

-----------------------------------------------------------------------------
write_varint(v) == [n \in DOMAIN v |-> IF n < Len(v) THEN v[n] + 128 ELSE v[n]]

Number(digits) ==
  LET used == {n \in DOMAIN digits : digits[n] # 0}
  IN  IF used = {} THEN <<0>> ELSE SubSeq(digits, 1, Max(used))

(* What is at the start of bytes: an error, or the number and how many     *)
(* bytes of it there are.  Bytes that end before the number does are what  *)
(* there is of it.                                                         *)
EVARINT_OVERFLOW == -1
EVARINT_REPRESENT == -2
Septets(bits, bytes) == {n \in DOMAIN bytes : 7 * (n - 1) < bits}
Room(bits, n) == 2 ^ (bits - 7 * (n - 1))
Overflows_OffByOne(bits, bytes, n) == 7 * n >= bits /\ bytes[n] > Room(bits, n)
Overflows(bits, bytes, n) == 7 * n >= bits /\ bytes[n] >= Room(bits, n)
Redundant(bytes, n) == bytes[n] = 0 /\ n > 1
Shifted(bits, bytes, n) == IF 7 * n < bits THEN bytes[n] % 128 ELSE (bytes[n] % 128) % Room(bits, n)
Joined(bits, bytes, n) == Number([m \in 1 .. n |-> Shifted(bits, bytes, m)])

LastGroup(bits, bytes) ==
  Min({n \in Septets(bits, bytes) : Overflows(bits, bytes, n) \/ Redundant(bytes, n) \/ bytes[n] < 128}
      \union {Len(bytes) + 1})
read_varint(bits, bytes) ==
  LET Until(n) ==
        CASE n > Len(bytes) -> [read |-> Len(bytes), value |-> Joined(bits, bytes, Len(bytes))]
          [] n <= Len(bytes) /\ Overflows(bits, bytes, n) -> [read |-> EVARINT_OVERFLOW]
          [] n <= Len(bytes) /\ ~Overflows(bits, bytes, n) /\ Redundant(bytes, n) -> [read |-> EVARINT_REPRESENT]
          [] OTHER -> [read |-> n, value |-> Joined(bits, bytes, n)]
  IN  Until(LastGroup(bits, bytes))

-----------------------------------------------------------------------------
(* What is declared of types. *)
Varint(bits) == <<"varint", bits>>
Uint(size) == <<"uint", size>>
Blob == <<"blob", BlobSize>>
Byte == <<"blob", 1>>
Container(of) == <<"container", of>>
Variant(of) == <<"variant", of>>      \* types by their tags
Fields(of) == <<"fields", of>>

txout_to_script == Fields(<<Container(Blob), Container(Byte)>>)
txin_v ==
  Variant((255 :> Fields(<<Varint(64)>>)) @@
          (0 :> Fields(<<Blob, Varint(64), Container(Byte)>>)) @@
          (1 :> Fields(<<Blob, Varint(64), txout_to_script, Container(Byte)>>)) @@
          (2 :> Fields(<<Varint(64), Container(Varint(64)), Blob>>)))
txout_target_v ==
  Variant((0 :> txout_to_script) @@ (1 :> Blob) @@ (2 :> Blob) @@ (3 :> Fields(<<Blob, Byte>>)))
tx_out == Fields(<<Varint(64), txout_target_v>>)

(* version, unlock_time, vin, vout, extra *)
transaction_prefix ==
  Fields(<<Varint(64), Varint(64), Container(txin_v), Container(tx_out), Container(Byte)>>)
GoodVersion(v) == v \in {<<1>>, <<2>>}

block_header == Fields(<<Varint(8), Varint(8), Varint(64), Blob, Uint(4)>>)
(* What follows the prefix of a transaction.  In the first version it is   *)
(* a ring of signatures for each input that spends a key.  In the second,  *)
(* if there are inputs, it is the type of what RctTypes has more of; here  *)
(* there is no more of it than that it is none.                            *)
Rings(vin) == FoldLeft(LAMBDA n, in : IF in.tag = 2 THEN n + Len(in.is[2]) ELSE n, 0, vin)
TailSize(prefix) ==
  IF prefix[1] = <<1>> THEN 2 * BlobSize * Rings(prefix[3]) ELSE IF prefix[3] = << >> THEN 0 ELSE 1
GoodTail(prefix, tail) == prefix[1] = <<1>> \/ prefix[3] = << >> \/ tail = <<0>>

-----------------------------------------------------------------------------
(* Saving. *)
RECURSIVE Saved(_, _)
Saved(type, v) ==
  CASE type[1] = "varint" -> write_varint(v)
    [] type[1] = "uint" -> Reverse(v)
    [] type[1] = "blob" -> v
    [] type[1] = "container" ->
         write_varint(Number(<<Len(v) % 128, Len(v) \div 128>>)) \o FlattenSeq([n \in DOMAIN v |-> Saved(type[2], v[n])])
    [] type[1] = "variant" -> <<v.tag>> \o Saved(type[2][v.tag], v.is)
    [] type[1] = "fields" -> FlattenSeq([n \in DOMAIN v |-> Saved(type[2][n], v[n])])

(* Loading: whether it succeeds, what it is, the bytes left, and whether   *)
(* the bytes have run out in the middle of a number or before it.          *)
Failed == [good |-> FALSE, value |-> << >>, rest |-> << >>, short |-> FALSE]
Loaded(v, rest, short) == [good |-> TRUE, value |-> v, rest |-> rest, short |-> short]
After(bytes, n) == SubSeq(bytes, n + 1, Len(bytes))
With(r, next) ==
  IF r.good /\ next.good THEN Loaded(Append(r.value, next.value), next.rest, r.short \/ next.short) ELSE Failed

LoadVarint(bits, bytes) ==
  LET Taken(r) == IF r.read < 0 THEN Failed
                  ELSE Loaded(r.value, After(bytes, r.read), r.read = 0 \/ bytes[r.read] >= 128)
  IN  Taken(read_varint(bits, bytes))

LoadBlob(size, bytes) == IF Len(bytes) < size THEN Failed ELSE Loaded(SubSeq(bytes, 1, size), After(bytes, size), FALSE)
Backwards(r) == [r EXCEPT !.value = Reverse(@)]
Tagged(tag, r) == [r EXCEPT !.value = [tag |-> tag, is |-> @]]
Counted(count, r) == [r EXCEPT !.short = @ \/ (r.good /\ count.short)]

(* A count of more than the bytes that are left is refused before memory   *)
(* is taken for as many elements.                                          *)
Count(number) == IF Len(number) > 2 THEN 128 * 128 ELSE number[1] + (IF Len(number) = 2 THEN 128 * number[2] ELSE 0)

RECURSIVE Load(_, _)
Load(type, bytes) ==
  CASE type[1] = "varint" -> LoadVarint(type[2], bytes)
    [] type[1] = "uint" -> Backwards(LoadBlob(type[2], bytes))
    [] type[1] = "blob" -> LoadBlob(type[2], bytes)
    [] type[1] = "container" ->
         LET Elements(count) ==
               IF ~count.good \/ Count(count.value) > Len(count.rest) THEN Failed
               ELSE Counted(count, Load(Fields([n \in 1 .. Count(count.value) |-> type[2]]), count.rest))
         IN  Elements(LoadVarint(64, bytes))
    [] type[1] = "variant" ->
         IF bytes = << >> \/ Head(bytes) \notin DOMAIN type[2] THEN Failed
         ELSE Tagged(Head(bytes), Load(type[2][Head(bytes)], Tail(bytes)))
    [] type[1] = "fields" /\ type[2] = << >> -> Loaded(<< >>, bytes, FALSE)
    [] type[1] = "fields" /\ type[2] # << >> ->
         LET Further(most) == With(most, Load(Last(type[2]), most.rest))
         IN  Further(Load(Fields(Front(type[2])), bytes))

(* Version 0 and versions to come are refused before there is more. *)
LoadTransaction(bytes) ==
  LET Whole(prefix, tail) ==
        IF tail.good /\ GoodTail(prefix.value, tail.value)
        THEN Loaded(<<prefix.value, tail.value>>, tail.rest, prefix.short) ELSE Failed
      Rest(prefix) ==
        IF prefix.good /\ GoodVersion(prefix.value[1])
        THEN Whole(prefix, LoadBlob(TailSize(prefix.value), prefix.rest)) ELSE Failed
  IN  Rest(Load(transaction_prefix, bytes))

LoadBlock(bytes) ==
  LET Begun(header) == [header EXCEPT !.value = <<@>>]
      miner_tx(r) == With(r, LoadTransaction(r.rest))
      tx_hashes(r) == With(r, Load(Container(Blob), r.rest))
      Limited(r) == IF r.good /\ Len(r.value[3]) <= MaxHashes THEN r ELSE Failed
  IN  Limited(tx_hashes(miner_tx(Begun(Load(block_header, bytes)))))

(* dump_binary, and parse_binary, which takes no bytes too many. *)
SavedTransaction(tx) == Saved(transaction_prefix, tx[1]) \o tx[2]
dump_binary(type, v) ==
  CASE type = "transaction" -> SavedTransaction(v)
    [] type = "block" -> Saved(block_header, v[1]) \o SavedTransaction(v[2]) \o Saved(Container(Blob), v[3])
    [] OTHER -> Saved(type, v)
parse_binary(type, bytes) ==
  LET Whole(r) == IF r.rest = << >> THEN r ELSE Failed
  IN  Whole(CASE type = "transaction" -> LoadTransaction(bytes)
              [] type = "block" -> LoadBlock(bytes)
              [] OTHER -> Load(type, bytes))

-----------------------------------------------------------------------------
ArchiveInit == apc = "idle" /\ object = << >> /\ blob = << >> /\ altered = FALSE /\ loaded = Failed

Save(o) ==
  /\ apc = "idle"
  /\ object' = o /\ blob' = dump_binary(o.type, o.value) /\ altered' = FALSE
  /\ apc' = "saved"
  /\ UNCHANGED loaded

(* On the way bytes are lost, changed or added, once. *)
Altered(bytes) ==
  /\ apc = "saved" /\ ~altered
  /\ blob' = bytes /\ altered' = (bytes # blob)
  /\ UNCHANGED <<apc, object, loaded>>
Lost(from, to) == from <= to /\ to <= Len(blob) /\ Altered(SubSeq(blob, 1, from - 1) \o After(blob, to))
Changed(n, byte) == n \in DOMAIN blob /\ Altered([blob EXCEPT ![n] = byte])
Added(n, byte) == n <= Len(blob) /\ Altered(InsertAt(blob, n + 1, byte))

Parse ==
  /\ apc = "saved"
  /\ loaded' = parse_binary(object.type, blob)
  /\ apc' = "loaded"
  /\ UNCHANGED <<object, blob, altered>>

ArchiveNext ==
  \/ \E o \in Objects : Save(o)
  \/ \E n \in 0 .. Len(blob) :
       \/ \E m \in n .. Len(blob) : n > 0 /\ Lost(n, m)
       \/ \E byte \in OddBytes : Changed(n, byte) \/ Added(n, byte)
  \/ Parse

-----------------------------------------------------------------------------
(* ArchiveIsRead: what was saved is loaded, and bytes that are loaded are  *)
(* those of the object they are loaded as, with no two forms of a number - *)
(* but for bytes that end where a number goes on or should begin, which    *)
(* are read as if it were what there is of it.                             *)
ArchiveIsRead ==
  apc = "loaded" =>
    /\ ~altered => loaded.good /\ loaded.value = object.value /\ ~loaded.short
    /\ loaded.good /\ ~loaded.short => dump_binary(object.type, loaded.value) = blob
=============================================================================
