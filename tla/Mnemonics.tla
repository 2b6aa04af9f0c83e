----------------------------- MODULE Mnemonics -----------------------------
(***************************************************************************)
(* mnemonics/electrum-words.cpp and language_base.h: keys written as words *)
(* of a language, read back in whatever language all the words are of.     *)
(*                                                                         *)
(* A number of 32 bits is its three digits to the base 1626, lowest first; *)
(* what CRC32 makes of a text is anything, and the same whenever the text  *)
(* is the same.                                                            *)
(***************************************************************************)
EXTENDS Integers, Sequences, FiniteSets, SequencesExt

CONSTANTS
  None,
  Languages,   \* their words, in the order in which find_seed_language tries them
  Keys,        \* [language, groups]: what is written; a group is a number of 32 bits
  CheckSums    \* values of CRC32, as far as seeds of this length tell them apart

VARIABLES
  wpc,
  key,         \* what was written, in which language, how it was typed
  typed,       \* the words that are read
  asked,       \* [len, duplicate]
  trying,      \* the language that is tried next, as a place in the order of find_seed_language
  matched_indices, fallback,
  crc,         \* CRC32, as far as it is known
  answer       \* what is read, and in which language

wordVars == <<wpc, key, typed, asked, trying, matched_indices, fallback, crc, answer>>

-----------------------------------------------------------------------------
NWORDS == 1626

Language == DOMAIN Languages
Old == 13

(* get_language_list, in which new seeds are written. *)
get_language_list == Language \ {Old}

Letters(l, word) == Len(word) \div Languages[l].width
utf8prefix(l, word) ==
  SubSeq(word, 1, IF Letters(l, word) < Languages[l].prefix THEN Len(word)
                  ELSE Languages[l].prefix * Languages[l].width)

(* populate_maps refuses a list: too short words are counted in bytes, of  *)
(* which a letter with an accent has two and others outside ASCII more.    *)
Bytes(l, word) ==
  CASE Languages[l].script = "latin" ->
         Len(word) + Cardinality({i \in 1 .. Len(word) : SubSeq(word, i, i) \in {"0", "1", "2", "3", "4", "5", "6", "7", "8", "9"}})
    [] Languages[l].script = "cyrillic" -> 2 * Len(word)
    [] OTHER -> 3 * Letters(l, word)

populate_maps_succeeds(l) ==
  /\ Len(Languages[l].words) = NWORDS
  /\ "short" \in Languages[l].allow \/ \A n \in 1 .. NWORDS : Bytes(l, Languages[l].words[n]) >= Languages[l].prefix
  /\ "duplicate" \in Languages[l].allow \/ Cardinality({utf8prefix(l, Languages[l].words[n]) : n \in 1 .. NWORDS}) = NWORDS

(* The index of a word is one less than its place; of words with the same  *)
(* prefix the last one is found.                                           *)
Word(l, index) == [script |-> Languages[l].script, letters |-> Languages[l].words[index + 1]]
Shortened(l, word) == [word EXCEPT !.letters = utf8prefix(l, @)]

(* word_map and trimmed_word_map: places by the first character. *)
TrimmedWords == [l \in Language |-> [n \in 1 .. NWORDS |-> utf8prefix(l, Languages[l].words[n])]]
ByFirst(words) ==
  LET first == [n \in 1 .. NWORDS |-> SubSeq(words[n], 1, 1)]
  IN  [c \in {first[n] : n \in 1 .. NWORDS} |-> {n \in 1 .. NWORDS : first[n] = c}]
Buckets == [l \in Language |-> ByFirst(Languages[l].words)]

Among(l, word, words) ==
  LET c == SubSeq(word.letters, 1, 1)
  IN  IF word.script # Languages[l].script \/ c \notin DOMAIN Buckets[l] THEN {}
      ELSE {n \in Buckets[l][c] : words[n] = word.letters}
Places(l, word) == Among(l, word, Languages[l].words)
TrimmedPlaces(l, word) == Among(l, word, TrimmedWords[l])
LastOf(places) == IF places = {} THEN None ELSE (CHOOSE n \in places : \A m \in places : m <= n) - 1

-----------------------------------------------------------------------------
(* 2 ^ 32 and, when it is less than that to the third digit, what is left. *)
Two32 == <<490, 807, 1624>>
Below(w, v) ==
  \/ w[3] < v[3]
  \/ w[3] = v[3] /\ w[2] < v[2]
  \/ w[3] = v[3] /\ w[2] = v[2] /\ w[1] < v[1]
Uint32(w) ==
  IF Below(w, Two32) THEN w
  ELSE LET over == (w[1] - Two32[1]) + NWORDS * ((w[2] - Two32[2]) + NWORDS * (w[3] - Two32[3]))
       IN  <<over % NWORDS, (over \div NWORDS) % NWORDS, over \div (NWORDS * NWORDS)>>

(* The three words of a group, and the group of three words. *)
Indices(w) == <<w[1], (w[2] + w[1]) % NWORDS, (w[3] + w[2] + w[1]) % NWORDS>>
Group(i) == Uint32(<<i[1], (NWORDS - i[1] + i[2]) % NWORDS, (NWORDS - i[2] + i[3]) % NWORDS>>)
Understood(i) == Group(i)[1] = i[1]

-----------------------------------------------------------------------------
(* What CRC32 is computed of: the prefixes, one after the other. *)
Trimmed(l, words) == FoldLeft(LAMBDA text, word : text \o utf8prefix(l, word.letters), "", words)

(* create_checksum_index knows the number of a text, or takes any. *)
Index(text, words, sums) == IF text \in DOMAIN crc THEN {crc[text]} ELSE sums
create_checksum_index(l, words, sum) ==
  LET text == Trimmed(l, words)
  IN  /\ sum \in Index(text, words, CheckSums)
      /\ crc' = [t \in DOMAIN crc \union {text} |-> IF t = text THEN sum ELSE crc[t]]

WordsOf(l, groups) ==
  FlattenSeq([g \in DOMAIN groups |-> [n \in 1 .. 3 |-> Word(l, Indices(groups[g])[n])]])

checksum_test(l, seed, sum) ==
  LET words == Front(seed)
  IN  Shortened(l, words[(sum % Len(words)) + 1]) = Shortened(l, Last(seed))

-----------------------------------------------------------------------------
WordsInit ==
  /\ wpc = "nothing" /\ key = None /\ typed = << >> /\ asked = None
  /\ trying = 1 /\ matched_indices = << >> /\ fallback = None
  /\ crc = [t \in {} |-> 0]
  /\ answer = None

Reading == <<asked, trying, matched_indices, fallback, answer>>

(* bytes_to_words: nothing for a language that is not listed. *)
bytes_to_words(k) ==
  /\ wpc = "nothing" /\ k.language \in get_language_list
  /\ \E sum \in CheckSums :
       LET words == WordsOf(k.language, k.groups)
       IN  /\ create_checksum_index(k.language, words, sum)
           /\ typed' = Append(words, words[(sum % Len(words)) + 1])
  /\ key' = [language |-> k.language, groups |-> k.groups, typed |-> "as written"]
  /\ wpc' = "typed"
  /\ UNCHANGED Reading

(* Programs of old wrote without a checksum, in a language of their own.   *)
OldSeed(k) ==
  /\ wpc = "nothing" /\ k.language = Old
  /\ typed' = WordsOf(k.language, k.groups)
  /\ key' = [language |-> k.language, groups |-> k.groups, typed |-> "whole"]
  /\ wpc' = "typed"
  /\ UNCHANGED <<crc, Reading>>

(* How words get from the paper to the program. *)
Typed(how, words) ==
  /\ wpc = "typed" /\ key.typed = "as written"
  /\ typed' = words
  /\ key' = [key EXCEPT !.typed = how]
  /\ UNCHANGED <<wpc, crc, Reading>>
Abbreviated == Typed("prefixes", [n \in DOMAIN typed |-> Shortened(key.language, typed[n])])
WithoutChecksum == Typed("whole", Front(typed))
Misspelt(n) == n \in DOMAIN typed /\ Typed("misspelt", [typed EXCEPT ![n].letters = "q" \o @])
OtherChecksum(n) ==
  /\ n \in DOMAIN Front(typed)
  /\ Shortened(key.language, typed[n]) # Shortened(key.language, Last(typed))
  /\ Typed("other checksum", [typed EXCEPT ![Len(typed)] = typed[n]])
FirstOfThem(n) == n \in 2 .. Len(typed) - 2 /\ Typed("part", SubSeq(typed, 1, n))

(* words_to_bytes. *)
Fails(why) == wpc' = "read" /\ answer' = [error |-> why]
NumberOfWords(len) == (len * 8 * 3) \div 32
HasChecksum(len) == len = 0 \/ Len(typed) = NumberOfWords(len) + 1
RightLength(len) ==
  len # 0 => Len(typed) \in {NumberOfWords(len) \div 2, NumberOfWords(len), NumberOfWords(len) + 1}

words_to_bytes(len, duplicate) ==
  /\ wpc = "typed"
  /\ asked' = [len |-> len, duplicate |-> duplicate]
  /\ \/ /\ len % 4 # 0 /\ Fails("length")
     \/ /\ len % 4 = 0 /\ ~RightLength(len) /\ Fails("number of words")
     \/ /\ len % 4 = 0 /\ RightLength(len)
        /\ wpc' = "finding" /\ UNCHANGED answer
  /\ trying' = 1 /\ matched_indices' = << >> /\ fallback' = None
  /\ UNCHANGED <<key, typed, crc>>

(* One turn of find_seed_language. *)
Matches(l) ==
  [n \in DOMAIN typed |->
     LastOf(IF HasChecksum(asked.len) THEN TrimmedPlaces(l, Shortened(l, typed[n])) ELSE Places(l, typed[n]))]
IsFullMatch(matches) == \A n \in DOMAIN matches : matches[n] # None

Tried == trying' = trying + 1 /\ UNCHANGED <<key, typed, asked>>

NotThisOne ==
  /\ wpc = "finding" /\ trying \in Language
  /\ ~IsFullMatch(Matches(trying))
  /\ Tried /\ UNCHANGED <<wpc, fallback, matched_indices, crc, answer>>

FullMatch ==
  /\ wpc = "finding" /\ trying \in Language /\ ~HasChecksum(asked.len)
  /\ LET matches == Matches(trying)
     IN  IsFullMatch(matches) /\ matched_indices' = matches
  /\ wpc' = "found"
  /\ UNCHANGED <<key, typed, asked, trying, fallback, crc, answer>>

MatchIn_Unchecked(l, sum) ==
  LET matches == Matches(l)
  IN  /\ IsFullMatch(matches)
      /\ create_checksum_index(l, Front(typed), sum)
      /\ matched_indices' = matches /\ wpc' = "found"
      /\ UNCHANGED <<key, typed, asked, trying, fallback>>
MatchIn(l, sum) ==
  LET matches == Matches(l)
  IN  /\ IsFullMatch(matches)
      /\ create_checksum_index(l, Front(typed), sum)
      /\ IF checksum_test(l, typed, sum)
         THEN /\ matched_indices' = matches /\ wpc' = "found"
              /\ UNCHANGED <<key, typed, asked, trying, fallback>>
         ELSE /\ fallback' = l
              /\ Tried /\ UNCHANGED <<wpc, matched_indices>>

CheckedMatch ==
  /\ wpc = "finding" /\ trying \in Language /\ HasChecksum(asked.len)
  /\ \E sum \in CheckSums : MatchIn(trying, sum)
  /\ UNCHANGED answer

(* The fallback's checksum is tested once more, and is as wrong as before. *)
NoMatch ==
  /\ wpc = "finding" /\ trying \notin Language
  /\ Fails(IF fallback = None THEN "language" ELSE "checksum")
  /\ UNCHANGED <<key, typed, asked, trying, matched_indices, fallback, crc>>

(* Words past the last group of three are not looked at. *)
Decode ==
  /\ wpc = "found"
  /\ LET words == IF HasChecksum(asked.len) THEN Len(typed) - 1 ELSE Len(typed)
         indices == [g \in 1 .. words \div 3 |-> SubSeq(matched_indices, 3 * g - 2, 3 * g)]
         groups == [g \in DOMAIN indices |-> Group(indices[g])]
         twice == asked.len > 0 /\ asked.duplicate /\ words = ((asked.len * 3) \div 32) \div 2
     IN  answer' = IF \E g \in DOMAIN indices : ~Understood(indices[g]) THEN [error |-> "mumble mumble"]
                   ELSE [error |-> None, language |-> trying, groups |-> IF twice THEN groups \o groups ELSE groups]
  /\ wpc' = "read"
  /\ UNCHANGED <<key, typed, asked, trying, matched_indices, fallback, crc>>

Lengths == {0, 3, 4, 8}
WordsNext ==
  \/ \E k \in Keys : bytes_to_words(k) \/ OldSeed(k)
  \/ Abbreviated \/ WithoutChecksum
  \/ \E n \in 1 .. 6 : Misspelt(n) \/ OtherChecksum(n) \/ FirstOfThem(n)
  \/ \E len \in Lengths, duplicate \in BOOLEAN : words_to_bytes(len, duplicate)
  \/ NotThisOne \/ FullMatch \/ CheckedMatch \/ NoMatch \/ Decode

-----------------------------------------------------------------------------
(* KeyIsRead: every language's list is accepted; every group of three      *)
(* words stands for one number at most, and every number has its group.    *)
(* What is read is read in the first language that all the words are of    *)
(* and, if there is a checksum, agrees with it.  A key that is typed as it *)
(* was written, abbreviated or without its checksum is what is read, but   *)
(* for words that fit an earlier language too; it is never read in its own *)
(* language when a word or the checksum is another.                        *)
Fits(l) ==
  /\ IsFullMatch(Matches(l))
  /\ HasChecksum(asked.len) => checksum_test(l, typed, crc[Trimmed(l, Front(typed))])

Digits == {0, 1, 489, 490, 491, 806, 807, 808, 1623, 1624, 1625}
OneGroupEach ==
  \A a, b, c \in Digits :
    LET i == <<a, b, c>> IN
    /\ Understood(i) => Below(Group(i), Two32) /\ Indices(Group(i)) = i
    /\ Below(i, Two32) => Group(Indices(i)) = i /\ Understood(Indices(i))

AsIntended ==
  /\ asked.len = 4 * Len(key.groups)
  /\ key.typed \in {"as written", "prefixes", "whole"}

KeyIsRead ==
  /\ wpc = "nothing" => OneGroupEach /\ \A l \in Language : populate_maps_succeeds(l)
  /\ wpc = "read" =>
       /\ answer.error = None =>
            Fits(answer.language) /\ \A l \in 1 .. answer.language - 1 : ~Fits(l)
       /\ AsIntended => Fits(key.language)
       /\ AsIntended /\ (\A l \in 1 .. key.language - 1 : ~Fits(l)) =>
            answer = [error |-> None, language |-> key.language, groups |-> key.groups]
       /\ key.typed \in {"misspelt", "other checksum"} /\ answer.error = None => answer.language # key.language
=============================================================================
