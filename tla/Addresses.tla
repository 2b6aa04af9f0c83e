----------------------------- MODULE Addresses -----------------------------
(***************************************************************************)
(* Addresses as text: common/base58.cpp and what cryptonote_basic_impl.cpp *)
(* writes and reads with it.                                               *)
(*                                                                         *)
(* A text is a sequence of characters, a block of 8 bytes is a number that *)
(* is written to the base 58.  cn_fast_hash is some function of the bytes, *)
(* of which four bytes are kept.                                           *)
(***************************************************************************)
EXTENDS Archive

CONSTANTS
  CurveKeys,      \* the blobs that check_key accepts
  PaymentIdSize,
  ToWrite,        \* [nettype, kind, adr, payment_id]: what is written
  OddCharacters   \* what a character may be altered to

VARIABLES
  dpc,
  written,
  text,           \* as it was written, or altered
  garbled,
  info,           \* address_parse_info
  result          \* [nettype, good]

addressVars == <<dpc, written, text, garbled, info, result>>

-----------------------------------------------------------------------------
Characters(s) == [n \in 1 .. Len(s) |-> SubSeq(s, n, n)]
alphabet == Characters("123456789ABCDEFGHJKLMNPQRSTUVWXYZabcdefghijkmnopqrstuvwxyz")
alphabet_size == Len(alphabet)
Symbol == ToSet(alphabet)
reverse_alphabet == [c \in Symbol |-> (CHOOSE n \in DOMAIN alphabet : alphabet[n] = c) - 1]

full_block_size == 8
full_encoded_block_size == 11
encoded_block_sizes == <<2, 3, 5, 6, 7, 9, 10, 11>>
DecodedSize(size) == CHOOSE n \in DOMAIN encoded_block_sizes : encoded_block_sizes[n] = size
addr_checksum_size == 4

(* A number to another base, in size digits: over if it needs more. *)
RECURSIVE TimesPlus(_, _, _, _)
TimesPlus(digits, factor, more, base) ==
  IF digits = << >> THEN [digits |-> << >>, over |-> more > 0]
  ELSE LET v == Head(digits) * factor + more
           rest == TimesPlus(Tail(digits), factor, v \div base, base)
       IN  [digits |-> <<v % base>> \o rest.digits, over |-> rest.over]
RECURSIVE Rebased(_, _, _, _)
Rebased(number, from, to, size) ==
  IF number = << >> THEN [digits |-> [n \in 1 .. size |-> 0], over |-> FALSE]
  ELSE LET most == Rebased(Front(number), from, to, size)
           all == TimesPlus(most.digits, from, Last(number), to)
       IN  [digits |-> all.digits, over |-> most.over \/ all.over]

Text58(digits) == [n \in DOMAIN digits |-> alphabet[Reverse(digits)[n] + 1]]
encode_block(block) == Text58(Rebased(block, 256, alphabet_size, encoded_block_sizes[Len(block)]).digits)

NotDecoded == [good |-> FALSE, tag |-> << >>, data |-> << >>]
Decoded(data) == [good |-> TRUE, data |-> data]
Number58(block) == [n \in DOMAIN block |-> reverse_alphabet[block[n]]]
decode_block_OverflowUnchecked(block) ==
  IF Range(block) \subseteq Symbol
  THEN Decoded(Reverse(Rebased(Number58(block), alphabet_size, 256, DecodedSize(Len(block))).digits))
  ELSE NotDecoded
decode_block(block) ==
  LET Fitting(r) == IF r.over THEN NotDecoded ELSE Decoded(Reverse(r.digits))
  IN  IF Range(block) \subseteq Symbol
      THEN Fitting(Rebased(Number58(block), alphabet_size, 256, DecodedSize(Len(block))))
      ELSE NotDecoded

Blocks(s, size) ==
  [b \in 1 .. (Len(s) + size - 1) \div size |-> SubSeq(s, size * (b - 1) + 1, IF size * b < Len(s) THEN size * b ELSE Len(s))]

encode(data) ==
  LET Each(blocks) == FlattenSeq([b \in DOMAIN blocks |-> encode_block(blocks[b])])
  IN  Each(Blocks(data, full_block_size))

decode(enc) ==
  LET All(decoded) ==
        IF \A b \in DOMAIN decoded : decoded[b].good
        THEN Decoded(FlattenSeq([b \in DOMAIN decoded |-> decoded[b].data])) ELSE NotDecoded
      Each(blocks) == All([b \in DOMAIN blocks |-> decode_block(blocks[b])])
  IN  IF Len(enc) % full_encoded_block_size \in Range(encoded_block_sizes) \union {0}
      THEN Each(Blocks(enc, full_encoded_block_size)) ELSE NotDecoded

cn_fast_hash(data) ==
  LET h == FoldLeft(LAMBDA r, byte : (31 * r + byte + 7) % 65521, 1, data)
  IN  <<h % 256, h \div 256, (17 * h) % 251, (7 * h) % 253>>

encode_addr(tag, data) ==
  LET buf == write_varint(tag) \o data IN encode(buf \o cn_fast_hash(buf))

decode_addr(addr) ==
  LET Tag(buf, tag) ==
        IF tag.read > 0 THEN [good |-> TRUE, tag |-> tag.value, data |-> After(buf, tag.read)] ELSE NotDecoded
      Summed(buf, checksum) == IF cn_fast_hash(buf) = checksum THEN Tag(buf, read_varint(64, buf)) ELSE NotDecoded
      Parts(data, size) == IF size > 0 THEN Summed(SubSeq(data, 1, size), After(data, size)) ELSE NotDecoded
      Data(d) == Parts(d.data, Len(d.data) - addr_checksum_size)
  IN  Data(decode(addr))

-----------------------------------------------------------------------------

nettype == {"MAINNET", "TESTNET", "STAGENET", "FAKECHAIN"}
get_config(net) ==
  CASE net = "TESTNET" -> [address |-> <<53>>, integrated |-> <<54>>, subaddress |-> <<63>>]
    [] net = "STAGENET" -> [address |-> <<24>>, integrated |-> <<25>>, subaddress |-> <<36>>]
    [] OTHER -> [address |-> <<18>>, integrated |-> <<19>>, subaddress |-> <<42>>]

account_public_address == Fields(<<Blob, Blob>>)
integrated_address == Fields(<<account_public_address, <<"blob", PaymentIdSize>>>>)

get_account_address_as_str(net, subaddress, adr) ==
  encode_addr(IF subaddress THEN get_config(net).subaddress ELSE get_config(net).address,
              dump_binary(account_public_address, adr))
get_account_integrated_address_as_str(net, adr, payment_id) ==
  encode_addr(get_config(net).integrated, dump_binary(integrated_address, <<adr, payment_id>>))

(* The format of old: version, keys and a sum of it all, in digits of both *)
(* cases to the base 16.                                                   *)
public_address_outer_blob == 2 + 2 * BlobSize
get_account_address_checksum(bytes) == FoldLeft(LAMBDA sum, byte : (sum + byte) % 256, 0, Front(bytes))
OldBytes(adr) ==
  LET bytes == <<0>> \o adr[1] \o adr[2] \o <<0>>
  IN  [bytes EXCEPT ![Len(bytes)] = get_account_address_checksum(bytes)]

HexDigits == [lower |-> Characters("0123456789abcdef"), upper |-> Characters("0123456789ABCDEF")]
OldText(adr) ==
  LET bytes == OldBytes(adr)
  IN  FlattenSeq([n \in DOMAIN bytes |-> <<HexDigits.lower[(bytes[n] \div 16) + 1], HexDigits.lower[(bytes[n] % 16) + 1]>>])
isx(c) == {n - 1 : n \in {m \in 1 .. 16 : HexDigits.lower[m] = c \/ HexDigits.upper[m] = c}}
parse_hexstr_to_binbuff(s) ==
  LET digit == [n \in DOMAIN s |-> CHOOSE d \in isx(s[n]) : TRUE]
  IN  IF \E n \in DOMAIN s : isx(s[n]) = {} THEN NotDecoded
      ELSE Decoded([n \in 1 .. Len(s) \div 2 |-> 16 * digit[2 * n - 1] + digit[2 * n]])

check_key(key) == key \in CurveKeys

-----------------------------------------------------------------------------
(* The parts of info that a call leaves alone are those of before. *)
Fresh == [address |-> << >>, is_subaddress |-> FALSE, has_payment_id |-> FALSE, payment_id |-> << >>]
Used == [address |-> << >>, is_subaddress |-> TRUE, has_payment_id |-> TRUE, payment_id |-> [n \in 1 .. PaymentIdSize |-> 9]]

AddressInit ==
  /\ dpc = "nothing" /\ written = << >> /\ text = << >> /\ garbled = FALSE /\ result = << >>
  /\ info \in {Fresh, Used}

TextOf(w) ==
  CASE w.kind = "integrated" -> get_account_integrated_address_as_str(w.nettype, w.adr, w.payment_id)
    [] w.kind = "old" -> OldText(w.adr)
    [] OTHER -> get_account_address_as_str(w.nettype, w.kind = "subaddress", w.adr)

WriteText(w) ==
  /\ dpc = "nothing"
  /\ written' = w /\ text' = TextOf(w) /\ garbled' = FALSE
  /\ dpc' = "written"
  /\ UNCHANGED <<info, result>>

(* How a text gets to the one who reads it: as it is, or with one mistake. *)
Garbled(other) ==
  /\ dpc = "written" /\ ~garbled
  /\ text' = other /\ garbled' = (other # text)
  /\ UNCHANGED <<dpc, written, info, result>>
CharacterChanged(n, c) == n \in DOMAIN text /\ Garbled([text EXCEPT ![n] = c])
CharacterLost(n) == n \in DOMAIN text /\ Garbled(RemoveAt(text, n))
CharacterAdded(n, c) == n \in DOMAIN text /\ Garbled(InsertAt(text, n, c))
Swapped(n) == n + 1 \in DOMAIN text /\ Garbled([text EXCEPT ![n] = text[n + 1], ![n + 1] = text[n]])
(* A block that stands for more than its bytes can hold.                   *)
Overfull(b) ==
  LET Block(blocks, more) ==
        ~more.over /\ Garbled(FlattenSeq([blocks EXCEPT ![b] = Text58(more.digits)]))
      More(blocks) ==
        /\ b \in DOMAIN blocks
        /\ Block(blocks, Rebased(<<1>> \o decode_block(blocks[b]).data, 256, alphabet_size, Len(blocks[b])))
  IN  written.kind # "old" /\ ~garbled /\ More(Blocks(text, full_encoded_block_size))

(* get_account_address_from_str *)
Returns(net, good, as) ==
  /\ dpc' = "read"
  /\ result' = [nettype |-> net, good |-> good]
  /\ info' = as
  /\ UNCHANGED <<written, text, garbled>>

Base58 == Len(text) # 2 * public_address_outer_blob

Refused(net, d) == d.tag \notin Range(get_config(net)) /\ Returns(net, FALSE, info)

ReadAddress(net, d, parsed) ==
  /\ d.tag \in {get_config(net).address, get_config(net).subaddress}
  /\ Returns(net, parsed.good /\ check_key(parsed.value[1]) /\ check_key(parsed.value[2]),
             [info EXCEPT !.is_subaddress = (d.tag = get_config(net).subaddress), !.has_payment_id = FALSE,
                          !.address = IF parsed.good THEN parsed.value ELSE <<"part of it">>])

ReadIntegrated(net, d, parsed) ==
  LET flags == [info EXCEPT !.is_subaddress = FALSE, !.has_payment_id = TRUE]
  IN  /\ d.tag = get_config(net).integrated
      /\ IF parsed.good
         THEN Returns(net, check_key(parsed.value[1][1]) /\ check_key(parsed.value[1][2]),
                      [flags EXCEPT !.address = parsed.value[1], !.payment_id = parsed.value[2]])
         ELSE Returns(net, FALSE, flags)

ReadOld(net) ==
  LET Key(bytes, first) == SubSeq(bytes, first, first + BlobSize - 1)
      Outer(bytes) ==
        IF bytes # << >> /\ Head(bytes) = 0 /\ Last(bytes) = get_account_address_checksum(bytes)
        THEN Returns(net, TRUE, [info EXCEPT !.address = <<Key(bytes, 2), Key(bytes, 2 + BlobSize)>>,
                                             !.is_subaddress = FALSE, !.has_payment_id = FALSE])
        ELSE Returns(net, FALSE, info)
  IN  Outer(parse_hexstr_to_binbuff(text).data)

get_account_address_from_str(net) ==
  LET Read(d) ==
        \/ Refused(net, d)
        \/ ReadAddress(net, d, parse_binary(account_public_address, d.data))
        \/ ReadIntegrated(net, d, parse_binary(integrated_address, d.data))
  IN  dpc = "written" /\ IF Base58 THEN Read(decode_addr(text)) ELSE ReadOld(net)

AddressNext ==
  \/ \E w \in ToWrite : WriteText(w)
  \/ \E n \in DOMAIN text :
       \/ \E c \in OddCharacters : CharacterChanged(n, c) \/ CharacterAdded(n, c)
       \/ CharacterLost(n) \/ Swapped(n) \/ Overfull(n)
  \/ \E net \in nettype : get_account_address_from_str(net)

-----------------------------------------------------------------------------
(* AddressIsRead: a text that is read is the very text of the address that *)
(* is read, its kind and network - in the old format, the only digits of   *)
(* it but for their case, and a mistake in one character is noticed.  What *)
(* is not altered is read as what it was written from, if its keys can be  *)
(* used or are not looked at, and a text of another network is refused.    *)
Kind == IF info.has_payment_id THEN "integrated" ELSE IF info.is_subaddress THEN "subaddress" ELSE "address"
SameNetwork == get_config(result.nettype) = get_config(written.nettype)

AddressIsRead ==
  dpc = "read" =>
    LET asRead == [nettype |-> result.nettype, kind |-> Kind, adr |-> info.address, payment_id |-> info.payment_id]
        old == written.kind = "old"
    IN
    /\ result.good /\ Base58 => text = TextOf(asRead) /\ \A key \in Range(info.address) : check_key(key)
    /\ result.good /\ ~Base58 => parse_hexstr_to_binbuff(text).data = OldBytes(written.adr) /\ Kind = "address"
    /\ ~garbled =>
         /\ result.good <=> (old \/ (SameNetwork /\ \A key \in Range(written.adr) : check_key(key)))
         /\ result.good =>
              /\ info.address = written.adr
              /\ Kind = IF old THEN "address" ELSE written.kind
              /\ Kind = "integrated" => info.payment_id = written.payment_id
=============================================================================
