-------------------------- MODULE PortableStorage --------------------------
(***************************************************************************)
(* The binary form of trees of named values:                               *)
(* epee/include/storages/portable_storage_{base,to_bin,from_bin}.h and     *)
(* store_to_binary, load_from_binary of portable_storage.h.                *)
(*                                                                         *)
(* An entry is its type and its value; of an array the type is that of the *)
(* elements with the flag, and the value the elements.  A section is a     *)
(* function from names to entries; a name is its bytes.  A value of fixed  *)
(* width is its bytes, lowest first.  Bytes are altered on their way as in *)
(* Archive.                                                                *)
(***************************************************************************)
EXTENDS Archive

CONSTANTS
  Trees,       \* sections to store
  Received,    \* bytes that somebody else wrote
  MaxToAlter   \* longer bytes are not altered

SERIALIZE_TYPE_STRING == 10
SERIALIZE_TYPE_OBJECT == 12
SERIALIZE_TYPE_ARRAY == 13
SERIALIZE_FLAG_ARRAY == 128
SizeOf == [t \in 1 .. 9 \union {11} |-> IF t = 11 THEN 1 ELSE <<8, 4, 2, 1, 8, 4, 2, 1, 8>>[t]]
ElementType == 1 .. 13

-----------------------------------------------------------------------------
(* A size takes 1, 2, 4 or 8 bytes, as the two lowest bits tell. *)
MarkOf_OffByOne(val) == CASE val <= 64 -> 0 [] val \in 65 .. 16383 -> 1 [] val \in 16384 .. 1073741823 -> 2 [] OTHER -> 3
MarkOf(val) == CASE val <= 63 -> 0 [] val \in 64 .. 16383 -> 1 [] val \in 16384 .. 1073741823 -> 2 [] OTHER -> 3
pack_varint(val) ==
  <<(val % 64) * 4 + MarkOf(val)>> \o [n \in 1 .. 2 ^ MarkOf(val) - 1 |-> IF n > 4 THEN 0 ELSE (val \div (64 * 256 ^ (n - 1))) % 256]

(* Names are in their order, as a map has them. *)
Before(a, b) ==
  \/ a # b /\ IsPrefix(a, b)
  \/ \E n \in DOMAIN a \intersect DOMAIN b : a[n] < b[n] /\ \A m \in 1 .. n - 1 : a[m] = b[m]
put_string(v) == pack_varint(Len(v)) \o v

RECURSIVE pack_entry_to_buff(_, _), NamesFit(_, _)
pack_entry_to_buff(type, v) ==
  CASE type \in DOMAIN SizeOf -> v
    [] type = SERIALIZE_TYPE_STRING -> put_string(v)
    [] type = SERIALIZE_TYPE_OBJECT ->
         LET names == SetToSortSeq(DOMAIN v, Before)
         IN  pack_varint(Len(names))
               \o FlattenSeq([n \in DOMAIN names |->
                    <<Len(names[n])>> \o names[n] \o <<v[names[n]][1]>>
                      \o pack_entry_to_buff(v[names[n]][1], v[names[n]][2])])
    [] type = SERIALIZE_TYPE_ARRAY -> <<v[1]>> \o pack_entry_to_buff(v[1], v[2])
    [] type > SERIALIZE_FLAG_ARRAY ->
         pack_varint(Len(v)) \o FlattenSeq([n \in DOMAIN v |-> pack_entry_to_buff(type - SERIALIZE_FLAG_ARRAY, v[n])])

(* A name of 255 bytes or more ends it. *)
NamesFit(type, v) ==
  CASE type = SERIALIZE_TYPE_OBJECT -> \A name \in DOMAIN v : Len(name) < 255 /\ NamesFit(v[name][1], v[name][2])
    [] type = SERIALIZE_TYPE_ARRAY -> NamesFit(v[1], v[2])
    [] type > SERIALIZE_FLAG_ARRAY -> \A n \in DOMAIN v : NamesFit(type - SERIALIZE_FLAG_ARRAY, v[n])
    [] OTHER -> TRUE

storage_block_header == <<1, 17, 1, 1, 1, 1, 2, 1, 1>>
store_to_binary(root) == storage_block_header \o pack_entry_to_buff(SERIALIZE_TYPE_OBJECT, root)

-----------------------------------------------------------------------------
(* Reading.  "count" is m_recursion_count when the function is called;     *)
(* every call on the way to a byte adds one and fails at the limit.        *)
RECURSION_LIMIT == 100
Within(count) == count < RECURSION_LIMIT
LoadPod(count, size, bytes) == IF Within(count) THEN LoadBlob(size, bytes) ELSE Failed

Huge == 2147483647     \* more than there are bytes
Unpacked(b) ==
  IF \E n \in DOMAIN b : n > 4 /\ b[n] # 0 THEN Huge
  ELSE b[1] \div 4 + FoldFunction(+, 0, [n \in DOMAIN b \intersect 2 .. 4 |-> b[n] * 64 * 256 ^ (n - 2)])
LoadSize(count, bytes) ==
  IF bytes = << >> THEN Failed
  ELSE LET raw == LoadPod(count + 4, 2 ^ (Head(bytes) % 4), bytes)
       IN  IF raw.good THEN [raw EXCEPT !.value = Unpacked(@)] ELSE Failed
LoadText(count, bytes) ==
  LET len == LoadSize(count + 1, bytes) IN IF len.good THEN LoadBlob(len.value, len.rest) ELSE Failed
LoadName(count, bytes) ==
  LET len == LoadPod(count + 3, 1, bytes) IN IF len.good THEN LoadBlob(Head(len.value), len.rest) ELSE Failed

(* A section that fails is what has been read of it. *)
RECURSIVE LoadEntries(_, _, _, _), LoadElements(_, _, _, _), LoadArray(_, _, _), LoadEntry(_, _)
LoadSection(count, bytes) ==
  LET size == LoadSize(count + 1, bytes)
  IN  IF size.good THEN LoadEntries(count + 1, size.value, << >>, size.rest) ELSE Failed

(* Of two entries with one name the first stays. *)
Emplaced(section, name, entry) == IF name \in DOMAIN section THEN section ELSE section @@ (name :> entry)
LoadEntries(count, size, section, bytes) ==
  LET WithEntry(name, entry) ==
        IF entry.good THEN LoadEntries(count, size - 1, Emplaced(section, name, entry.value), entry.rest)
        ELSE [Failed EXCEPT !.value = section]
      Named(name) == WithEntry(name.value, IF name.good THEN LoadEntry(count, name.rest) ELSE Failed)
  IN  IF size = 0 THEN Loaded(section, bytes, FALSE) ELSE Named(LoadName(count, bytes))

LoadElement(count, type, bytes) ==
  CASE type \in DOMAIN SizeOf -> LoadPod(count + 3, SizeOf[type], bytes)
    [] type = SERIALIZE_TYPE_STRING -> LoadText(count + 1, bytes)
    [] type = SERIALIZE_TYPE_OBJECT -> LoadSection(count + 1, bytes)
    [] OTHER -> Failed
LoadElements(count, type, size, most) ==
  IF size = 0 \/ ~most.good THEN most
  ELSE LoadElements(count, type, size - 1, With(most, LoadElement(count, type, most.rest)))

(* An array, which has as many bytes as elements at least. *)
LoadArray(count, type, bytes) ==
  LET size == LoadSize(count + 2, bytes)
  IN  IF type - SERIALIZE_FLAG_ARRAY \in ElementType /\ size.good /\ size.value <= Len(size.rest)
      THEN [LoadElements(count + 2, type - SERIALIZE_FLAG_ARRAY, size.value, Loaded(<< >>, size.rest, FALSE))
              EXCEPT !.value = <<type, @>>]
      ELSE Failed

LoadEntry(count, bytes) ==
  LET type == LoadPod(count + 3, 1, bytes)
      Typed(t, r) == [r EXCEPT !.value = <<t, @>>]
      Of(t, rest) ==
        CASE t > SERIALIZE_FLAG_ARRAY -> LoadArray(count + 1, t, rest)
          [] t = SERIALIZE_TYPE_ARRAY ->
               IF Within(count + 4) /\ rest # << >> THEN LoadArray(count + 2, Head(rest), Tail(rest)) ELSE Failed
          [] t = SERIALIZE_TYPE_STRING -> Typed(t, LoadText(count + 3, rest))
          [] OTHER -> Typed(t, LoadElement(count + 1, t, rest))
  IN  IF type.good THEN Of(Head(type.value), type.rest) ELSE Failed

(* What follows the section is not looked at. *)
load_from_binary(source) ==
  LET size == Len(storage_block_header)
  IN  IF Len(source) > size /\ SubSeq(source, 1, size) = storage_block_header
      THEN LoadSection(0, After(source, size)) ELSE Failed

-----------------------------------------------------------------------------
StoreTree(tree) ==
  /\ apc = "idle" /\ NamesFit(SERIALIZE_TYPE_OBJECT, tree)
  /\ object' = tree /\ blob' = store_to_binary(tree) /\ altered' = FALSE
  /\ apc' = "saved"
  /\ UNCHANGED loaded
Receive(bytes) ==
  /\ apc = "idle"
  /\ blob' = bytes /\ altered' = TRUE
  /\ apc' = "saved"
  /\ UNCHANGED <<object, loaded>>
LoadTree ==
  /\ apc = "saved"
  /\ loaded' = load_from_binary(blob)
  /\ apc' = "loaded"
  /\ UNCHANGED <<object, blob, altered>>

StorageNext ==
  \/ \E tree \in Trees : StoreTree(tree)
  \/ \E bytes \in Received : Receive(bytes)
  \/ /\ Len(blob) <= MaxToAlter
     /\ \E n \in 0 .. Len(blob) :
          \/ \E m \in n .. Len(blob) : n > 0 /\ Lost(n, m)
          \/ \E byte \in OddBytes : Changed(n, byte) \/ Added(n, byte)
  \/ LoadTree

-----------------------------------------------------------------------------
RECURSIVE Levels(_, _), ArrayInArray(_, _)
Levels(type, v) ==
  CASE type = SERIALIZE_TYPE_OBJECT -> Max({0} \union {1 + Levels(v[name][1], v[name][2]) : name \in DOMAIN v})
    [] type > SERIALIZE_FLAG_ARRAY -> Max({0} \union {Levels(type - SERIALIZE_FLAG_ARRAY, v[n]) : n \in DOMAIN v})
    [] OTHER -> 0
ArrayInArray(type, v) ==
  CASE type = SERIALIZE_TYPE_OBJECT -> \E name \in DOMAIN v : ArrayInArray(v[name][1], v[name][2])
    [] type > SERIALIZE_FLAG_ARRAY ->
         \E n \in DOMAIN v : type = SERIALIZE_FLAG_ARRAY + SERIALIZE_TYPE_ARRAY \/ ArrayInArray(type - SERIALIZE_FLAG_ARRAY, v[n])
    [] OTHER -> FALSE

(* StorageIsRead: a tree that was stored is loaded as it was, unless it    *)
(* has arrays of arrays, which are written and not read; the limit of      *)
(* calls always leaves room for 18 levels of values, of whatever kind, and *)
(* never for more than 32.  Whatever bytes are loaded, the tree they are   *)
(* loaded as can be stored in as many bytes or fewer and loaded again, but *)
(* for names of 255 bytes, which are read and not written (read_sec_name,  *)
(* pack_entry_to_buff).                                                    *)
StorageIsRead ==
  apc = "loaded" =>
    /\ ~altered =>
         LET levels == Levels(SERIALIZE_TYPE_OBJECT, object)
         IN  /\ loaded.good => loaded.value = object /\ loaded.rest = << >> /\ levels <= 32
             /\ levels <= 18 => loaded.good = ~ArrayInArray(SERIALIZE_TYPE_OBJECT, object)
    /\ loaded.good /\ NamesFit(SERIALIZE_TYPE_OBJECT, loaded.value) =>
         LET again == store_to_binary(loaded.value)
         IN  Len(again) <= Len(blob) /\ load_from_binary(again).value = loaded.value
=============================================================================
