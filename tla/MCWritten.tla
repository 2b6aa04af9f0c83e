----------------------------- MODULE MCWritten -----------------------------
(***************************************************************************)
(* What the program writes for others, or for itself to read later: keys   *)
(* as words, transactions and blocks as bytes, trees of named values,      *)
(* addresses as text, and the strings that secrets are kept in on the way. *)
(* They have no state in common: a behaviour is about one of them.         *)
(*                                                                         *)
(* Blobs of 2 bytes instead of 32; payment ids, checksums and blocks of    *)
(* base 58 have the sizes of the program, and so have its word lists.      *)
(***************************************************************************)
EXTENDS WordLists, Mnemonics, Addresses, PortableStorage, WipeableString

VARIABLE part

writtenVars == <<part, wordVars, archiveVars, addressVars, wipeableVars>>

WrittenInit ==
  /\ part \in {"seed", "archive", "storage", "address", "string"}
  /\ WordsInit /\ ArchiveInit /\ AddressInit /\ WipeableInit
  /\ part # "address" => info = Fresh

WrittenNext ==
  /\ UNCHANGED part
  /\ \/ part = "seed" /\ WordsNext /\ UNCHANGED <<archiveVars, addressVars, wipeableVars>>
     \/ part = "archive" /\ ArchiveNext /\ UNCHANGED <<wordVars, addressVars, wipeableVars>>
     \/ part = "storage" /\ StorageNext /\ UNCHANGED <<wordVars, addressVars, wipeableVars>>
     \/ part = "address" /\ AddressNext /\ UNCHANGED <<wordVars, archiveVars, wipeableVars>>
     \/ part = "string" /\ WipeableNext /\ UNCHANGED <<wordVars, archiveVars, addressVars>>

WrittenSpec == WrittenInit /\ [][WrittenNext]_writtenVars

(* SeedIsRecovered: keys are read from the words they were written as, in  *)
(* the language that was meant and no other; see KeyIsRead.                *)
SeedIsRecovered == part = "seed" => KeyIsRead

(* WhatIsWrittenIsRead: bytes of an archive or of a tree of values and     *)
(* text of an address mean what they were written from, and there is one   *)
(* way to write it; a string of secrets holds what was put into it.        *)
WhatIsWrittenIsRead ==
  /\ part = "archive" => ArchiveIsRead
  /\ part = "storage" => StorageIsRead
  /\ part = "address" => AddressIsRead
  /\ part = "string" => ReadsAsString

-----------------------------------------------------------------------------
(* The least and the greatest key of every language, and keys whose words  *)
(* are all of another language as well.                                    *)
Key(l, groups) == [language |-> l, groups |-> groups]
KeysToWrite ==
  {Key(l, <<w>>) : l \in Language, w \in {<<0, 0, 0>>, <<489, 807, 1624>>}} \union
  {Key(4, <<<<2, 915, 708>>>>),     \* French: their prefixes are English
   Key(7, <<<<6, 683, 547>>>>),     \* Italian: their prefixes are Spanish
   Key(7, <<<<23, 592, 620>>>>),    \* Italian: they are Spanish
   Key(3, <<<<81, 868, 604>>>>),    \* Dutch: they are English
   Key(13, <<<<2, 782, 838>>>>),    \* Old English: they are English
   Key(13, <<<<2, 22, 2>>>>),       \* Old English: their prefixes are those of other words
   Key(2, <<<<0, 1, 0>>, <<5, 6, 7>>>>)}
CheckSumsOfThree == 0 .. 2

(* Numbers of one byte, of several, and the greatest there is. *)
Blob2(a) == <<a, a + 1>>
Greatest == <<127, 127, 127, 127, 127, 127, 127, 127, 127, 1>>
Generated(height) == [tag |-> 255, is |-> <<height>>]
ToScript == [tag |-> 0, is |-> <<Blob2(0), <<1>>, << >>>>]
ToScriptHash == [tag |-> 1, is |-> <<Blob2(0), <<1>>, <<<<Blob2(3)>>, << >>>>, <<<<0>>>>>>]
ToKey(offsets) == [tag |-> 2, is |-> <<<<0>>, offsets, Blob2(2)>>]
Out(amount, tag, target) == <<amount, [tag |-> tag, is |-> target]>>

Mined == <<<<<<1>>, <<60>>, <<Generated(<<0, 1>>)>>, <<Out(<<0, 1>>, 2, Blob2(1))>>, <<<<1>>, <<128>>>>>>, << >>>>
MinedV2 == <<<<<<2>>, <<60>>, <<Generated(<<0, 1>>)>>, << >>, <<<<1>>>>>>, <<0>>>>
Spent == <<<<<<1>>, <<0>>, <<ToKey(<<<<3>>, <<0, 2>>>>)>>, << >>, << >>>>, [n \in 1 .. 4 * BlobSize |-> n]>>
Mixed ==
  <<<<<<2>>, Greatest, <<ToKey(<<<<3>>>>), ToScript, ToScriptHash>>,
      <<Out(<<1>>, 3, <<Blob2(1), <<7>>>>), Out(<<1>>, 1, Blob2(1)), Out(<<1>>, 0, <<<<Blob2(1)>>, << >>>>)>>, << >>>>, <<0>>>>
Header == <<<<1, 1>>, <<16>>, <<5, 127, 1>>, Blob2(4), <<0, 1, 2, 255>>>>
ObjectsToSave ==
  {[type |-> "transaction", value |-> tx] : tx \in {Mined, Spent, Mixed}} \union
  {[type |-> "block", value |-> <<Header, tx, hashes>>] :
     tx \in {Mined, MinedV2}, hashes \in {<< >>, <<Blob2(1), Blob2(2)>>}}
BytesToPut == {0, 1, 2, 3, 8, 10, 12, 127, 128, 129, 140, 255}

(* Blocks with the least bytes and with the greatest, and a key that is    *)
(* not one.                                                                *)
Keys2 == {<<0, 0>>, <<255, 255>>, <<88, 102>>}
AddressesToWrite ==
  {[nettype |-> net, kind |-> kind, adr |-> adr, payment_id |-> <<1, 2, 3, 4, 5, 6, 7, 255>>] :
     net \in nettype, kind \in {"address", "subaddress", "integrated", "old"},
     adr \in {<<<<0, 0>>, <<255, 255>>>>, <<<<88, 102>>, <<1, 1>>>>}}
CharactersToPut == {"1", "z", "0", "a", "A"}

(* Sections and arrays of sections as deep as they are read, and deeper;   *)
(* strings as long as two bytes of size allow, and longer.                 *)
Inner[n \in Nat] == IF n = 0 THEN << >> ELSE <<97>> :> <<SERIALIZE_TYPE_OBJECT, Inner[n - 1]>>
InnerArray[n \in Nat] ==
  <<97>> :> IF n = 0 THEN <<SERIALIZE_FLAG_ARRAY + SERIALIZE_TYPE_STRING, <<<<1>>>>>>
            ELSE <<SERIALIZE_FLAG_ARRAY + SERIALIZE_TYPE_OBJECT, <<InnerArray[n - 1]>>>>
TreesToStore ==
  {Inner[n] : n \in {0, 1, 31, 32}} \union {InnerArray[n] : n \in {0, 1, 17, 18}} \union
  {<<97>> :> <<SERIALIZE_TYPE_STRING, [i \in 1 .. n |-> 7]>> : n \in {63, 64, 16383, 16384}} \union
  {(<<97>> :> <<6, <<1, 2, 3, 4>>>>) @@ (<<97, 1>> :> <<139, <<<<0>>, <<1>>>>>>) @@ (<< >> :> <<3, <<255, 1>>>>),
   (<<98>> :> <<140, <<<<97>> :> <<10, <<3>>>>, << >>>>>>) @@ (<<97>> :> <<8, <<9>>>>),
   <<97>> :> <<141, << >>>>,
   <<97>> :> <<141, <<<<136, <<<<1>>>>>>>>>>}

(* A name of 255 bytes, sizes that take more bytes than they need, and an  *)
(* array that is said to be one twice.                                     *)
Long == [n \in 1 .. 255 |-> 1]
BytesReceived ==
  {storage_block_header \o rest :
     rest \in {<<4, 255>> \o Long \o <<8, 1>>, <<5, 0, 1, 97, 8, 5>>, <<6, 0, 0, 0, 1, 97, 10, 7, 0, 0, 0, 0, 0, 0, 0>>,
              <<8, 1, 97, 13, 136, 4, 5, 1, 97, 8, 6>>, <<8, 1, 97, 13, 8, 1, 98, 8, 6>>}}

(* "A", and a space and "1". *)
TextsToKeep == {<<65>>, <<32, 49>>}
=============================================================================
