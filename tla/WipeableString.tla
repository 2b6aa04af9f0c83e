--------------------------- MODULE WipeableString ---------------------------
(***************************************************************************)
(* Strings for secrets: epee/src/wipeable_string.cpp over a std::vector    *)
(* of characters, whose memory is modelled up to its capacity, with what   *)
(* is left in the part that is not in use.                                 *)
(*                                                                         *)
(* One string of some caller; those it is copied or moved from are others  *)
(* of the same text.  A character is its code; memory that is new or was   *)
(* wiped is 0.                                                             *)
(***************************************************************************)
EXTENDS Integers, SequencesExt

CONSTANTS
  Texts,       \* what strings are made of, and what is appended
  MaxLength,   \* of a string
  MaxReserve   \* that is asked for

ASSUME TextsAssumption ==
  Texts \subseteq Seq(Int) /\ MaxLength \in Nat /\ MaxReserve \in Nat

VARIABLES
  string,      \* [mem, size]: the vector; << >> if there is no string
  meant,       \* what a std::string in its place would be
  freed,       \* the characters left in memory that was given back
  abandoned,   \* those that were assigned over, or that memory ran out with
  extracted    \* what split and parse_hexstr answered last

wipeableVars == <<string, meant, freed, abandoned, extracted>>

-----------------------------------------------------------------------------
Zeros(n) == [i \in 1 .. n |-> 0]
buffer(v) == SubSeq(v.mem, 1, v.size)
memwipe(mem, from, to) == [i \in DOMAIN mem |-> IF i \in from .. to THEN 0 ELSE mem[i]]
memcpy(mem, at, text) == SubSeq(mem, 1, at) \o text \o SubSeq(mem, at + Len(text) + 1, Len(mem))
Left(mem) == ToSet(mem) \ {0}
Empty == [mem |-> << >>, size |-> 0]

(* What grow makes of a string, and what it leaves in memory it gives      *)
(* back: a vector that has room is resized in place; otherwise its         *)
(* contents are put aside, and it is wiped before the vector moves.        *)
Reserved(sz, reserved) == IF reserved < sz THEN sz ELSE reserved
Moves(v, sz, reserved) == Reserved(sz, reserved) > Len(v.mem)
InPlace_TailKept(v, sz) == [mem |-> memwipe(v.mem, v.size + 1, sz), size |-> sz]
InPlace(v, sz) ==
  [mem |-> memwipe(memwipe(v.mem, sz + 1, v.size), v.size + 1, sz), size |-> sz]
grow(v, sz, reserved) ==
  IF ~Moves(v, sz, reserved) THEN [string |-> InPlace(v, sz), freed |-> {}]
  ELSE [string |-> [mem |-> buffer(v) \o Zeros(Reserved(sz, reserved) - v.size), size |-> sz],
        freed |-> Left(memwipe(v.mem, 1, v.size)) \union Left(memwipe(buffer(v), 1, v.size))]
append(v, text) ==
  LET grown == grow(v, v.size + Len(text), 0)
  IN  [grown EXCEPT !.string.mem = memcpy(@, v.size, text)]

(* wipe, and what remains when the vector goes. *)
wipe(v) == [v EXCEPT !.mem = memwipe(@, 1, v.size)]
Destroyed(v) == Left(wipe(v).mem)

-----------------------------------------------------------------------------
Exists == string # << >>
Becomes(v, text) == string' = v /\ meant' = text /\ extracted' = << >>
Gives(g, text) == Becomes(g.string, text) /\ freed' = freed \union g.freed /\ UNCHANGED abandoned

(* A string that is made of a std::string that is moved wipes that one; a  *)
(* copy of another has no room to spare; one that is moved has its memory. *)
Spare(text, room) == [mem |-> text \o Zeros(room), size |-> Len(text)]
Make(text, moved) ==
  /\ ~Exists
  /\ Gives([string |-> append(Empty, text).string,
            freed |-> IF moved THEN Left(memwipe(text, 1, Len(text))) ELSE {}], text)
MakeOfOther(text, room) == ~Exists /\ Gives([string |-> Spare(text, room), freed |-> {}], text)
MoveAway == Exists /\ Gives([string |-> Empty, freed |-> {}], << >>)
Destroy == Exists /\ Gives([string |-> << >>, freed |-> Destroyed(string)], << >>)
Wipe == Exists /\ Gives([string |-> wipe(string), freed |-> {}], Zeros(Len(meant)))

(* push_back appends one character. *)
AppendText(text) ==
  /\ Exists /\ string.size + Len(text) <= MaxLength
  /\ Gives(append(string, text), meant \o text)
pop_back == Exists /\ string.size > 0 /\ Gives(grow(string, string.size - 1, 0), Front(meant))
Resize(sz) ==
  /\ Exists
  /\ Gives(grow(string, sz, 0), [i \in 1 .. sz |-> IF i \in DOMAIN meant THEN meant[i] ELSE 0])
Reserve(sz) == Exists /\ Gives(grow(string, string.size, sz), meant)

Abandons(v, text, left) ==
  /\ Becomes(v, text)
  /\ freed' = freed \union left
  /\ abandoned' = abandoned \union Left(buffer(string))

(* No memory to move to: the string has been wiped already, and what was   *)
(* put aside goes as it is.                                                *)
NoMemory(sz) ==
  /\ Exists /\ Moves(string, sz, 0)
  /\ Abandons(wipe(string), Zeros(Len(meant)), Left(buffer(string)))

(* Assignments are those of the vector: it keeps its memory if there is    *)
(* room, or gives it back, and none of it is wiped.                        *)
CopyAssign(text) ==
  /\ Exists
  /\ IF Len(text) <= Len(string.mem)
     THEN Abandons([mem |-> memcpy(string.mem, 0, text), size |-> Len(text)], text, {})
     ELSE Abandons(Spare(text, 0), text, Left(string.mem))
MoveAssign(text, room) == Exists /\ Abandons(Spare(text, room), text, Left(string.mem))

-----------------------------------------------------------------------------
Space == {9, 10, 11, 12, 13, 32}

(* Words are pushed one character after the other; the strings and what    *)
(* their growth leaves behind are the caller's.                            *)
Pushed(words, c) ==
  IF c \in Space THEN [words EXCEPT !.space = TRUE]
  ELSE LET fields == IF words.space THEN Append(words.fields, Empty) ELSE words.fields
           pushed == append(fields[Len(fields)], <<c>>)
       IN  [fields |-> [fields EXCEPT ![Len(fields)] = pushed.string],
            freed |-> words.freed \union pushed.freed, space |-> FALSE]
split(text) ==
  LET words[n \in 0 .. Len(text)] ==
        IF n = 0 THEN [fields |-> << >>, freed |-> {}, space |-> TRUE]
        ELSE Pushed(words[n - 1], text[n])
  IN  words[Len(text)]
Split ==
  /\ Exists
  /\ LET words == split(buffer(string))
     IN  /\ extracted' = <<"fields", [n \in DOMAIN words.fields |-> buffer(words.fields[n])]>>
         /\ freed' = freed \union words.freed \union UNION {Destroyed(words.fields[n]) : n \in DOMAIN words.fields}
  /\ UNCHANGED <<string, meant, abandoned>>

(* The digits that strchr finds: the zero at the end of "hex" is one.      *)
atolower(c) == IF c \in 65 .. 90 THEN c + 32 ELSE c
hex == <<48, 49, 50, 51, 52, 53, 54, 55, 56, 57, 97, 98, 99, 100, 101, 102, 0>>
Digit_AsTyped(c) == {n - 1 : n \in {m \in DOMAIN hex : hex[m] = c}}
Digit(c) == {n - 1 : n \in {m \in DOMAIN hex : hex[m] = atolower(c)}}
Combined(high, low) == ((high % 16) * 16 + low) - (IF low = 16 /\ high % 2 = 1 THEN 16 ELSE 0)
TwoDigits(res, c0, c1) ==
  IF ~res.good \/ Digit(c0) = {} \/ Digit(c1) = {} THEN [res EXCEPT !.good = FALSE]
  ELSE LET byte == CHOOSE b \in {Combined(h, l) : h \in Digit(c0), l \in Digit(c1)} : TRUE
           pushed == append(res.string, <<byte>>)
       IN  [good |-> TRUE, string |-> pushed.string, freed |-> res.freed \union pushed.freed]
parse_hexstr(text) ==
  LET half == Len(text) \div 2
      res[n \in 0 .. half] ==
        IF n = 0 THEN [good |-> Len(text) % 2 = 0, string |-> grow(Empty, 0, half).string, freed |-> {}]
        ELSE TwoDigits(res[n - 1], text[2 * n - 1], text[2 * n])
  IN  res[half]
ParseHex ==
  /\ Exists
  /\ LET res == parse_hexstr(buffer(string))
     IN  /\ extracted' = <<"hex", res.good, buffer(res.string)>>
         /\ freed' = freed \union res.freed \union Destroyed(res.string)
  /\ UNCHANGED <<string, meant, abandoned>>

-----------------------------------------------------------------------------
WipeableInit == string = << >> /\ meant = << >> /\ freed = {} /\ abandoned = {} /\ extracted = << >>

WipeableNext ==
  \/ \E text \in Texts :
       \/ \E moved \in BOOLEAN : Make(text, moved)
       \/ AppendText(text) \/ CopyAssign(text)
       \/ \E room \in 0 .. 1 : MakeOfOther(text, room) \/ MoveAssign(text, room)
  \/ MoveAway \/ Destroy \/ Wipe \/ pop_back \/ Split \/ ParseHex
  \/ \E sz \in 0 .. MaxLength : Resize(sz) \/ NoMemory(sz)
  \/ \E sz \in 0 .. MaxReserve : Reserve(sz)

WipeableSpec == WipeableInit /\ [][WipeableNext]_wipeableVars

-----------------------------------------------------------------------------
(* SecretsAreWiped: what a string held is found nowhere once it is not in  *)
(* the string any more, neither in memory that was given back nor in the   *)
(* part of the vector that is not in use, except what it was assigned      *)
(* over, or what was put aside when memory ran out: those two nobody wipes *)
(* (grow, wipe, the destructor, the operators =).                          *)
SecretsAreWiped ==
  freed \union (IF Exists THEN Left(SubSeq(string.mem, string.size + 1, Len(string.mem))) ELSE {}) \subseteq abandoned

(* ReadsAsString: through all of this the string holds what a std::string  *)
(* would, its words are the longest pieces without a space, and it is hex  *)
(* if all its characters are digits and they are even in number - or zeros,*)
(* which are taken for a digit.                                            *)
ReadsAsString ==
  LET In(i) == i \in DOMAIN meant /\ meant[i] \notin Space
      first == SetToSortSeq({i \in DOMAIN meant : In(i) /\ ~In(i - 1)}, <)
      last == SetToSortSeq({i \in DOMAIN meant : In(i) /\ ~In(i + 1)}, <)
      Value(c) == CASE c \in 48 .. 57 -> c - 48 [] c \in 65 .. 70 -> c - 55 [] c \in 97 .. 102 -> c - 87 [] OTHER -> 256
      pairs == [n \in 1 .. Len(meant) \div 2 |-> 16 * Value(meant[2 * n - 1]) + Value(meant[2 * n])]
      IsHex == Len(meant) % 2 = 0 /\ ToSet(pairs) \subseteq 0 .. 255
  IN  /\ Exists => buffer(string) = meant
      /\ extracted # << >> /\ extracted[1] = "fields" =>
           extracted[2] = [n \in DOMAIN first |-> SubSeq(meant, first[n], last[n])]
      /\ extracted # << >> /\ extracted[1] = "hex" /\ 0 \notin ToSet(meant) =>
           extracted[2] = IsHex /\ (IsHex => extracted[3] = pairs)
=============================================================================
