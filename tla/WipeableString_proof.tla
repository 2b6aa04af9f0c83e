------------------------- MODULE WipeableString_proof -------------------------
(***************************************************************************)
(* Theorem: what a string of secrets held is wiped wherever it is not in   *)
(* the string any more, for texts of any length.                           *)
(***************************************************************************)
EXTENDS WipeableString, SequenceTheorems, FiniteSetTheorems, WellFoundedInduction, TLAPS

-----------------------------------------------------------------------------
(* A vector with its memory; Tidy: past its size there is nothing but      *)
(* zeros and what is in S.                                                 *)
Vector == {v \in [mem : Seq(Int), size : Nat] : v.size <= Len(v.mem)}
Tidy(v, S) == \A i \in v.size + 1 .. Len(v.mem) : v.mem[i] \in S \union {0}

(* Wiped: wiping keeps the rest of the memory.                             *)
LEMMA Wiped ==
  ASSUME NEW mem \in Seq(Int), NEW from, NEW to
  PROVE  /\ memwipe(mem, from, to) \in Seq(Int)
         /\ Len(memwipe(mem, from, to)) = Len(mem)
         /\ \A i \in 1 .. Len(mem) :
              memwipe(mem, from, to)[i] = IF i \in from .. to THEN 0 ELSE mem[i]
<1>1. memwipe(mem, from, to) = [i \in 1 .. Len(mem) |-> IF i \in from .. to THEN 0 ELSE mem[i]]
  BY DEF memwipe
<1>2. Len(mem) \in Nat /\ \A i \in 1 .. Len(mem) : mem[i] \in Int
  OBVIOUS
<1>3. [i \in 1 .. Len(mem) |-> IF i \in from .. to THEN 0 ELSE mem[i]] \in Seq(Int)
  BY <1>2, IsASeq
<1> QED BY <1>1, <1>2, <1>3

(* Buffered: what is in use.                                               *)
LEMMA Buffered ==
  ASSUME NEW v \in Vector
  PROVE  /\ buffer(v) \in Seq(Int) /\ Len(buffer(v)) = v.size
         /\ \A i \in 1 .. v.size : buffer(v)[i] = v.mem[i]
<1>1. v.mem \in Seq(Int) /\ v.size \in Nat /\ v.size <= Len(v.mem) /\ Len(v.mem) \in Nat
  BY DEF Vector
<1>2. \A i \in 1 .. v.size : v.mem[i] \in Int
  BY <1>1
<1>3. /\ SubSeq(v.mem, 1, v.size) \in Seq(Int)
      /\ Len(SubSeq(v.mem, 1, v.size)) = IF 1 <= v.size THEN v.size - 1 + 1 ELSE 0
      /\ \A i \in 1 .. v.size - 1 + 1 : SubSeq(v.mem, 1, v.size)[i] = v.mem[1 + i - 1]
  BY <1>1, <1>2, SubSeqProperties
<1> QED BY <1>1, <1>3 DEF buffer

(* Copied: text copied into memory that has room for it.                   *)
LEMMA Copied ==
  ASSUME NEW mem \in Seq(Int), NEW at \in Nat, NEW text \in Seq(Int),
         at + Len(text) <= Len(mem)
  PROVE  /\ memcpy(mem, at, text) \in Seq(Int)
         /\ Len(memcpy(mem, at, text)) = Len(mem)
         /\ \A i \in at + Len(text) + 1 .. Len(mem) : memcpy(mem, at, text)[i] = mem[i]
<1> DEFINE k == at + Len(text)
           front == SubSeq(mem, 1, at)
           back == SubSeq(mem, k + 1, Len(mem))
<1>1. Len(mem) \in Nat /\ Len(text) \in Nat /\ k \in Nat /\ k <= Len(mem) /\ at <= Len(mem)
      /\ \A i \in 1 .. Len(mem) : mem[i] \in Int
  OBVIOUS
<1> HIDE DEF k
<1>2. front \in Seq(Int) /\ Len(front) = at
  <2>1. /\ SubSeq(mem, 1, at) \in Seq(Int)
        /\ Len(SubSeq(mem, 1, at)) = IF 1 <= at THEN at - 1 + 1 ELSE 0
    BY <1>1, SubSeqProperties
  <2> QED BY <1>1, <2>1
<1>3. /\ back \in Seq(Int) /\ Len(back) = Len(mem) - k
      /\ \A i \in 1 .. Len(mem) - k : back[i] = mem[k + i]
  <2>1. /\ SubSeq(mem, k + 1, Len(mem)) \in Seq(Int)
        /\ Len(SubSeq(mem, k + 1, Len(mem))) = IF k + 1 <= Len(mem) THEN Len(mem) - (k + 1) + 1 ELSE 0
        /\ \A i \in 1 .. Len(mem) - (k + 1) + 1 : SubSeq(mem, k + 1, Len(mem))[i] = mem[k + 1 + i - 1]
    BY <1>1, SubSeqProperties
  <2> QED BY <1>1, <2>1
<1>4. memcpy(mem, at, text) = front \o text \o back
  BY DEF memcpy, k
<1> HIDE DEF front, back
<1>5. front \o text \in Seq(Int) /\ Len(front \o text) = k
  <2>1. front \o text \in Seq(Int) /\ Len(front \o text) = Len(front) + Len(text)
    BY <1>2, ConcatProperties
  <2> QED BY <1>2, <2>1 DEF k
<1> DEFINE first == front \o text
<1> HIDE DEF first
<1>6. /\ first \o back \in Seq(Int) /\ Len(first \o back) = Len(mem)
      /\ \A i \in k + 1 .. Len(mem) : (first \o back)[i] = back[i - k]
  <2>1. first \in Seq(Int) /\ Len(first) = k
    BY <1>5 DEF first
  <2>2. /\ first \o back \in Seq(Int) /\ Len(first \o back) = k + Len(back)
        /\ \A i \in 1 .. k + Len(back) :
             (first \o back)[i] = IF i <= k THEN first[i] ELSE back[i - k]
    <3>1. /\ first \o back \in Seq(Int) /\ Len(first \o back) = Len(first) + Len(back)
          /\ \A i \in 1 .. Len(first) + Len(back) :
               (first \o back)[i] = IF i <= Len(first) THEN first[i] ELSE back[i - Len(first)]
      <4>1. first \in Seq(Int) /\ back \in Seq(Int)
        BY <1>3, <2>1
      <4> QED BY <4>1, ConcatProperties
    <3> QED BY <2>1, <3>1
  <2>3. k + Len(back) = Len(mem)
    BY <1>1, <1>3
  <2>4. ASSUME NEW i \in k + 1 .. Len(mem) PROVE (first \o back)[i] = back[i - k]
    <3>1. i \in 1 .. Len(mem) /\ ~(i <= k)
      BY <1>1
    <3> QED BY <2>2, <2>3, <3>1
  <2> QED BY <2>2, <2>3, <2>4
<1>7. ASSUME NEW i \in k + 1 .. Len(mem) PROVE (first \o back)[i] = mem[i]
  <2>1. i - k \in 1 .. Len(mem) - k /\ k + (i - k) = i
    BY <1>1
  <2> QED BY <1>3, <1>6, <2>1
<1> QED BY <1>4, <1>6, <1>7 DEF k, first

(* Grown: growing keeps a vector tidy, and leaves nothing but what was     *)
(* there past its size.                                                    *)
LEMMA Grown ==
  ASSUME NEW v \in Vector, NEW S, Tidy(v, S), NEW sz \in Nat, NEW reserved \in Nat,
         Moves(v, sz, reserved) => v.size <= sz
  PROVE  LET g == grow(v, sz, reserved)
         IN  g.string \in Vector /\ g.string.size = sz /\ Tidy(g.string, S) /\ g.freed \subseteq S
<1>1. v.mem \in Seq(Int) /\ v.size \in Nat /\ v.size <= Len(v.mem) /\ Len(v.mem) \in Nat
  BY DEF Vector
<1> DEFINE R == Reserved(sz, reserved)
<1>2. R \in Nat /\ sz <= R
  BY DEF Reserved
<1> HIDE DEF R
<1>3. CASE ~Moves(v, sz, reserved)
  <2> DEFINE once == memwipe(v.mem, sz + 1, v.size)
             twice == memwipe(once, v.size + 1, sz)
  <2>1. sz <= Len(v.mem)
    BY <1>1, <1>2, <1>3 DEF Moves, R
  <2>2. /\ once \in Seq(Int) /\ Len(once) = Len(v.mem)
        /\ \A i \in 1 .. Len(v.mem) : once[i] = IF i \in sz + 1 .. v.size THEN 0 ELSE v.mem[i]
    BY <1>1, Wiped, SMTT(30)
  <2> HIDE DEF once
  <2>3. /\ twice \in Seq(Int) /\ Len(twice) = Len(v.mem)
        /\ \A i \in 1 .. Len(v.mem) : twice[i] = IF i \in v.size + 1 .. sz THEN 0 ELSE once[i]
    BY <2>2, Wiped, SMTT(30)
  <2> HIDE DEF twice
  <2>4. \A i \in sz + 1 .. Len(v.mem) : twice[i] \in S \union {0}
    BY <1>1, <2>2, <2>3 DEF Tidy
  <2>5. grow(v, sz, reserved) = [string |-> [mem |-> twice, size |-> sz], freed |-> {}]
    BY <1>3 DEF grow, InPlace, twice, once
  <2>6. [mem |-> twice, size |-> sz] \in Vector
    BY <2>1, <2>3 DEF Vector
  <2>7. Tidy([mem |-> twice, size |-> sz], S)
    BY <2>3, <2>4 DEF Tidy
  <2> QED BY <2>5, <2>6, <2>7
<1>4. CASE Moves(v, sz, reserved)
  <2> DEFINE zeros == Zeros(R - v.size)
             mem == buffer(v) \o zeros
             left == memwipe(v.mem, 1, v.size)
             aside == memwipe(buffer(v), 1, v.size)
  <2>1. R > Len(v.mem) /\ v.size <= sz /\ R - v.size \in Nat
    BY <1>1, <1>2, <1>4 DEF Moves, R
  <2>2. /\ zeros \in Seq(Int) /\ Len(zeros) = R - v.size
        /\ \A i \in 1 .. R - v.size : zeros[i] = 0
    <3> DEFINE m == R - v.size
    <3>1. m \in Nat
      BY <2>1
    <3> HIDE DEF m
    <3>2. Zeros(m) \in Seq(Int) /\ Len(Zeros(m)) = m /\ \A i \in 1 .. m : Zeros(m)[i] = 0
      BY <3>1, IsASeq DEF Zeros
    <3> QED BY <3>2 DEF m
  <2>3. buffer(v) \in Seq(Int) /\ Len(buffer(v)) = v.size
    BY Buffered
  <2> HIDE DEF zeros
  <2>4. /\ mem \in Seq(Int) /\ Len(mem) = R
        /\ \A i \in v.size + 1 .. R : mem[i] = zeros[i - v.size]
    <3>1. /\ mem \in Seq(Int) /\ Len(mem) = Len(buffer(v)) + Len(zeros)
          /\ \A i \in 1 .. Len(buffer(v)) + Len(zeros) :
               mem[i] = IF i <= Len(buffer(v)) THEN buffer(v)[i] ELSE zeros[i - Len(buffer(v))]
      BY <2>2, <2>3, ConcatProperties
    <3> HIDE DEF mem
    <3>2. Len(buffer(v)) + Len(zeros) = R
      BY <1>1, <1>2, <2>2, <2>3
    <3>3. /\ Len(mem) = R
          /\ \A i \in 1 .. R : mem[i] = IF i <= v.size THEN buffer(v)[i] ELSE zeros[i - v.size]
      BY <2>3, <3>1, <3>2
    <3>4. ASSUME NEW i \in v.size + 1 .. R PROVE i \in 1 .. R /\ ~(i <= v.size)
      BY <1>1, <1>2
    <3> QED BY <3>1, <3>3, <3>4
  <2> HIDE DEF mem
  <2>5. ASSUME NEW i \in sz + 1 .. R PROVE mem[i] = 0
    <3>1. i \in v.size + 1 .. R /\ i - v.size \in 1 .. R - v.size
      BY <1>1, <1>2, <2>1
    <3> QED BY <2>2, <2>4, <3>1
  <2>6. Left(left) \subseteq S
    <3>1. /\ left \in Seq(Int) /\ Len(left) = Len(v.mem)
          /\ \A i \in 1 .. Len(v.mem) : left[i] = IF i \in 1 .. v.size THEN 0 ELSE v.mem[i]
      <4> DEFINE text == v.mem
                 first == 1
                 last == v.size
      <4>1. text \in Seq(Int)
        BY <1>1
      <4> HIDE DEF text, first, last
      <4>2. /\ memwipe(text, first, last) \in Seq(Int) /\ Len(memwipe(text, first, last)) = Len(text)
            /\ \A i \in 1 .. Len(text) :
                 memwipe(text, first, last)[i] = IF i \in first .. last THEN 0 ELSE text[i]
        BY <4>1, Wiped
      <4> QED BY <4>2 DEF text, first, last
    <3> HIDE DEF left
    <3>2. \A i \in 1 .. Len(v.mem) : left[i] \in S \union {0}
      BY <1>1, <3>1 DEF Tidy
    <3> QED BY <3>1, <3>2 DEF Left, ToSet
  <2>7. Left(aside) = {}
    <3>1. /\ aside \in Seq(Int) /\ Len(aside) = v.size
          /\ \A i \in 1 .. v.size : aside[i] = IF i \in 1 .. v.size THEN 0 ELSE buffer(v)[i]
      BY <2>3, Wiped
    <3> HIDE DEF aside
    <3>2. \A i \in 1 .. Len(aside) : aside[i] = 0
      BY <3>1
    <3>3. DOMAIN aside = 1 .. Len(aside)
      BY <3>1
    <3> QED BY <3>2, <3>3 DEF Left, ToSet
  <2>8. grow(v, sz, reserved) = [string |-> [mem |-> mem, size |-> sz], freed |-> Left(left) \union Left(aside)]
    BY <1>4 DEF grow, R, mem, zeros
  <2>9. [mem |-> mem, size |-> sz] \in Vector
    BY <1>2, <2>4 DEF Vector
  <2>10. Tidy([mem |-> mem, size |-> sz], S)
    BY <2>4, <2>5 DEF Tidy
  <2> HIDE DEF left, aside
  <2> QED BY <2>6, <2>7, <2>8, <2>9, <2>10
<1> QED BY <1>3, <1>4

(* Appended: so does appending.                                            *)
LEMMA Appended ==
  ASSUME NEW v \in Vector, NEW S, Tidy(v, S), NEW text \in Seq(Int)
  PROVE  LET a == append(v, text)
         IN  /\ a.string \in Vector /\ a.string.size = v.size + Len(text)
             /\ Tidy(a.string, S) /\ a.freed \subseteq S
<1> DEFINE sz == v.size + Len(text)
           g == grow(v, sz, 0)
           mem == memcpy(g.string.mem, v.size, text)
<1>1. v.size \in Nat /\ Len(text) \in Nat /\ sz \in Nat /\ v.size <= sz
  BY DEF Vector
<1>2. g.string \in Vector /\ g.string.size = sz /\ Tidy(g.string, S) /\ g.freed \subseteq S
  <2> HIDE DEF sz
  <2> QED BY <1>1, Grown
<1>3. DOMAIN g = {"string", "freed"} /\ DOMAIN g.string = {"mem", "size"}
  BY DEF grow, InPlace
<1>4. append(v, text) = [g EXCEPT !.string.mem = mem]
  BY DEF append
<1> HIDE DEF g
<1>5. g.string.mem \in Seq(Int) /\ v.size + Len(text) <= Len(g.string.mem)
  BY <1>2 DEF Vector
<1>6. /\ mem \in Seq(Int) /\ Len(mem) = Len(g.string.mem)
      /\ \A i \in sz + 1 .. Len(mem) : mem[i] = g.string.mem[i]
  <2> DEFINE old == g.string.mem
  <2>1. old \in Seq(Int) /\ v.size + Len(text) <= Len(old)
    BY <1>5
  <2> HIDE DEF old
  <2>2. /\ memcpy(old, v.size, text) \in Seq(Int) /\ Len(memcpy(old, v.size, text)) = Len(old)
        /\ \A i \in v.size + Len(text) + 1 .. Len(old) : memcpy(old, v.size, text)[i] = old[i]
    BY <1>1, <2>1, Copied
  <2> QED BY <2>2 DEF old
<1> DEFINE a == [g EXCEPT !.string.mem = mem]
<1> HIDE DEF mem
<1>7. a.string = [g.string EXCEPT !.mem = mem] /\ a.freed = g.freed
  BY <1>3
<1>8. a.string.mem = mem /\ a.string.size = sz /\ a.string = [mem |-> mem, size |-> sz]
  BY <1>2, <1>3, <1>7
<1> HIDE DEF a, sz
<1>9. a.string \in Vector /\ Tidy(a.string, S)
  BY <1>1, <1>2, <1>5, <1>6, <1>8 DEF Vector, Tidy, sz
<1> QED BY <1>2, <1>4, <1>7, <1>8, <1>9 DEF a, sz

(* Nothing: a string that has nothing yet, and one made with its text.     *)
LEMMA Nothing == Empty \in Vector /\ \A S : Tidy(Empty, S)
<1>1. << >> \in Seq(Int) /\ Len(<< >>) = 0
  BY EmptySeq
<1> QED BY <1>1 DEF Empty, Vector, Tidy

LEMMA Spared ==
  ASSUME NEW text \in Seq(Int), NEW room \in Nat, NEW S
  PROVE  Spare(text, room) \in Vector /\ Tidy(Spare(text, room), S)
<1> DEFINE zeros == Zeros(room)
           mem == text \o zeros
<1>1. zeros \in Seq(Int) /\ Len(zeros) = room /\ \A i \in 1 .. room : zeros[i] = 0
  BY IsASeq DEF Zeros
<1> HIDE DEF zeros
<1>2. /\ mem \in Seq(Int) /\ Len(mem) = Len(text) + Len(zeros)
      /\ \A i \in 1 .. Len(text) + Len(zeros) :
           mem[i] = IF i <= Len(text) THEN text[i] ELSE zeros[i - Len(text)]
  BY <1>1, ConcatProperties
<1>3. Spare(text, room) = [mem |-> mem, size |-> Len(text)] /\ Len(text) \in Nat
  BY DEF Spare, zeros
<1> HIDE DEF mem
<1>4. ASSUME NEW i \in Len(text) + 1 .. Len(mem) PROVE mem[i] = 0
  <2>1. /\ i \in 1 .. Len(text) + Len(zeros) /\ ~(i <= Len(text))
        /\ i - Len(text) \in 1 .. room
    BY <1>1, <1>2, <1>3
  <2> QED BY <1>1, <1>2, <2>1
<1>5. [mem |-> mem, size |-> Len(text)] \in Vector
  BY <1>1, <1>2, <1>3 DEF Vector
<1>6. Tidy([mem |-> mem, size |-> Len(text)], S)
  BY <1>4 DEF Tidy
<1> QED BY <1>3, <1>5, <1>6

(* WipedWhole: wiping a string, and what its memory then holds.            *)
LEMMA WipedWhole ==
  ASSUME NEW v \in Vector, NEW S, Tidy(v, S)
  PROVE  wipe(v) \in Vector /\ Tidy(wipe(v), S) /\ Destroyed(v) \subseteq S
<1> DEFINE mem == memwipe(v.mem, 1, v.size)
<1>1. v.mem \in Seq(Int) /\ v.size \in Nat /\ v.size <= Len(v.mem)
      /\ v = [mem |-> v.mem, size |-> v.size]
  BY DEF Vector
<1>2. /\ mem \in Seq(Int) /\ Len(mem) = Len(v.mem)
      /\ \A i \in 1 .. Len(v.mem) : mem[i] = IF i \in 1 .. v.size THEN 0 ELSE v.mem[i]
  BY <1>1, Wiped
<1>3. wipe(v) = [mem |-> mem, size |-> v.size]
  BY <1>1 DEF wipe
<1> HIDE DEF mem
<1>4. \A i \in 1 .. Len(mem) : mem[i] \in S \union {0}
  BY <1>1, <1>2 DEF Tidy
<1>5. Left(mem) \subseteq S
  BY <1>2, <1>4 DEF Left, ToSet
<1>6. [mem |-> mem, size |-> v.size] \in Vector
  BY <1>1, <1>2 DEF Vector
<1>7. Tidy([mem |-> mem, size |-> v.size], S)
  BY <1>1, <1>4 DEF Tidy
<1> QED BY <1>3, <1>5, <1>6, <1>7 DEF Destroyed

-----------------------------------------------------------------------------
(* Upwards: a set that holds 0, and with a number the next one, holds all  *)
(* numbers.                                                                *)
LEMMA Upwards ==
  ASSUME NEW P, 0 \in P, \A n \in Nat : n \in P => n + 1 \in P
  PROVE  Nat \subseteq P
<1> SUFFICES ASSUME NEW n \in Nat, n \notin P PROVE FALSE
  OBVIOUS
<1> DEFINE TT == {1 .. x : x \in (1 .. n) \ P}
<1>1. IsWellFoundedOn(StrictSubsetOrdering(1 .. n), FiniteSubsetsOf(1 .. n))
  BY FS_StrictSubsetOrderingWellFounded
<1>2. TT \subseteq FiniteSubsetsOf(1 .. n) /\ TT # {}
  <2>1. ASSUME NEW x \in (1 .. n) \ P PROVE 1 .. x \in FiniteSubsetsOf(1 .. n)
    BY FS_Interval DEF FiniteSubsetsOf
  <2>2. n \in (1 .. n) \ P
    OBVIOUS
  <2> QED BY <2>1, <2>2
<1>3. PICK z \in TT : \A w \in TT : <<w, z>> \notin StrictSubsetOrdering(1 .. n)
  <2> HIDE DEF TT
  <2> QED BY <1>1, <1>2, WFMin
<1>4. PICK x \in (1 .. n) \ P : z = 1 .. x
  OBVIOUS
<1>5. x - 1 \in Nat /\ x - 1 \notin P /\ x - 1 \in (1 .. n) \ P
  <2>1. x - 1 \in Nat /\ x - 1 + 1 = x
    BY <1>4
  <2>2. x - 1 \notin P
    BY <1>4, <2>1
  <2> QED BY <1>4, <2>1, <2>2
<1>6. 1 .. x - 1 \in TT
  BY <1>5
<1>7. <<1 .. x - 1, 1 .. x>> \in StrictSubsetOrdering(1 .. n)
  <2>1. 1 .. x - 1 \subseteq 1 .. x /\ x \in 1 .. x /\ x \notin 1 .. x - 1
    BY <1>4
  <2>2. 1 .. x - 1 \subseteq 1 .. n /\ 1 .. x \subseteq 1 .. n
    BY <1>4
  <2> QED BY <2>1, <2>2 DEF StrictSubsetOrdering
<1> QED BY <1>3, <1>4, <1>6, <1>7

(* Run: what a loop goes through.                                          *)
(* LoopRuns: a loop whose steps stay in a set has a run, that is, the      *)
(* function that defines it exists.                                        *)
Run(f, T, first, m, step) ==
  f \in [0 .. m -> T] /\ f[0] = first /\ \A n \in 1 .. m : f[n] = step[n][f[n - 1]]

LEMMA LoopRuns ==
  ASSUME NEW T, NEW first \in T, NEW m \in Nat, NEW step \in [1 .. m -> [T -> T]]
  PROVE  \E f : Run(f, T, first, m, step)
<1> DEFINE Runs(k) == \E f \in [0 .. k -> T] :
                        f[0] = first /\ \A n \in 1 .. k : f[n] = step[n][f[n - 1]]
           P == {k \in Nat : k <= m => Runs(k)}
<1>1. 0 \in P
  <2> DEFINE f == [n \in 0 .. 0 |-> first]
  <2>1. f \in [0 .. 0 -> T] /\ f[0] = first /\ \A n \in 1 .. 0 : f[n] = step[n][f[n - 1]]
    OBVIOUS
  <2> QED BY <2>1
<1>2. ASSUME NEW k \in Nat, k \in P PROVE k + 1 \in P
  <2> SUFFICES ASSUME k + 1 <= m PROVE Runs(k + 1)
    OBVIOUS
  <2>1. PICK f \in [0 .. k -> T] : f[0] = first /\ \A n \in 1 .. k : f[n] = step[n][f[n - 1]]
    BY <1>2
  <2> DEFINE g == [n \in 0 .. k + 1 |-> IF n = k + 1 THEN step[k + 1][f[k]] ELSE f[n]]
  <2>2. g \in [0 .. k + 1 -> T]
    BY <2>1
  <2>3. g[0] = first
    BY <2>1
  <2>4. ASSUME NEW n \in 1 .. k + 1 PROVE g[n] = step[n][g[n - 1]]
    <3>1. CASE n = k + 1
      BY <3>1
    <3>2. CASE n \in 1 .. k
      <4>1. n - 1 \in 0 .. k /\ n \in 0 .. k /\ n # k + 1 /\ n - 1 # k + 1
        BY <3>2
      <4> QED BY <2>1, <3>2, <4>1
    <3> QED BY <3>1, <3>2
  <2> HIDE DEF g
  <2> QED BY <2>2, <2>3, <2>4
<1>3. Nat \subseteq P
  <2> HIDE DEF P
  <2> QED BY <1>1, <1>2, Upwards
<1>4. Runs(m)
  BY <1>3
<1> QED BY <1>4 DEF Run

(* LoopStays: if it begins in a set and no step leaves it, it ends there.  *)
LEMMA LoopStays ==
  ASSUME NEW T, NEW m \in Nat, NEW f, f[0] \in T,
         \A n \in 1 .. m : f[n - 1] \in T => f[n] \in T
  PROVE  f[m] \in T
<1> DEFINE P == {k \in Nat : k <= m => f[k] \in T}
<1>1. 0 \in P
  OBVIOUS
<1>2. ASSUME NEW k \in Nat, k \in P PROVE k + 1 \in P
  <2>1. k + 1 <= m => k + 1 \in 1 .. m /\ k + 1 - 1 = k
    OBVIOUS
  <2> QED BY <1>2, <2>1
<1>3. Nat \subseteq P
  <2> HIDE DEF P
  <2> QED BY <1>1, <1>2, Upwards
<1> QED BY <1>3

-----------------------------------------------------------------------------
(* Strings that nothing is left in, and the loops that push characters to  *)
(* such strings: nothing is left in what they outgrow.                     *)
Clean == {v \in Vector : Tidy(v, {})}
WordsSoFar ==
  {w \in [fields : Seq(Clean), freed : {{}}, space : BOOLEAN] : w.space \/ w.fields # << >>}
HexSoFar == [good : BOOLEAN, string : Clean, freed : {{}}]

LEMMA AppendedClean ==
  ASSUME NEW v \in Clean, NEW text \in Seq(Int)
  PROVE  append(v, text).string \in Clean /\ append(v, text).freed = {}
<1>1. v \in Vector /\ Tidy(v, {})
  BY DEF Clean
<1>2. /\ append(v, text).string \in Vector /\ Tidy(append(v, text).string, {})
      /\ append(v, text).freed \subseteq {}
  BY <1>1, Appended
<1> QED BY <1>2 DEF Clean

LEMMA PushedClean ==
  ASSUME NEW w \in WordsSoFar, NEW c \in Int
  PROVE  Pushed(w, c) \in WordsSoFar
<1>1. /\ w = [fields |-> w.fields, freed |-> w.freed, space |-> w.space]
      /\ w.fields \in Seq(Clean) /\ w.freed = {} /\ w.space \in BOOLEAN
      /\ w.space \/ w.fields # << >>
  BY DEF WordsSoFar
<1>2. CASE c \in Space
  <2>1. Pushed(w, c) = [fields |-> w.fields, freed |-> {}, space |-> TRUE]
    BY <1>1, <1>2 DEF Pushed
  <2> QED BY <1>1, <2>1 DEF WordsSoFar
<1>3. CASE c \notin Space
  <2> DEFINE fields == IF w.space THEN Append(w.fields, Empty) ELSE w.fields
             pushed == append(fields[Len(fields)], <<c>>)
             after == [fields EXCEPT ![Len(fields)] = pushed.string]
  <2>1. Empty \in Clean
    BY Nothing DEF Clean
  <2>2. fields \in Seq(Clean) /\ Len(fields) \in 1 .. Len(fields)
    <3> HIDE DEF Clean
    <3>1. CASE w.space
      <4>1. Append(w.fields, Empty) \in Seq(Clean)
            /\ Len(Append(w.fields, Empty)) = Len(w.fields) + 1 /\ Len(w.fields) \in Nat
        BY <1>1, <2>1
      <4> QED BY <3>1, <4>1
    <3>2. CASE ~w.space
      <4>1. Len(w.fields) \in Nat \ {0}
        BY <1>1, <3>2, EmptySeq
      <4> QED BY <1>1, <3>2, <4>1
    <3> QED BY <3>1, <3>2
  <2> HIDE DEF fields
  <2>3. fields[Len(fields)] \in Clean
    BY <2>2, ElementOfSeq
  <2>4. <<c>> \in Seq(Int)
    OBVIOUS
  <2>5. pushed.string \in Clean /\ pushed.freed = {}
    BY <2>3, <2>4, AppendedClean
  <2> HIDE DEF pushed
  <2>6. after \in Seq(Clean) /\ Len(after) = Len(fields)
    BY <2>2, <2>5, ExceptSeq
  <2>7. after # << >>
    BY <2>2, <2>6, EmptySeq
  <2>8. Pushed(w, c) = [fields |-> after, freed |-> w.freed \union pushed.freed, space |-> FALSE]
    BY <1>3 DEF Pushed, fields, pushed
  <2> HIDE DEF after
  <2>9. Pushed(w, c) = [fields |-> after, freed |-> {}, space |-> FALSE]
    BY <1>1, <2>5, <2>8
  <2> QED BY <2>6, <2>7, <2>9 DEF WordsSoFar
<1> QED BY <1>2, <1>3

LEMMA TwoDigitsClean ==
  ASSUME NEW res \in HexSoFar, NEW c0, NEW c1
  PROVE  TwoDigits(res, c0, c1) \in HexSoFar
<1>1. /\ res = [good |-> res.good, string |-> res.string, freed |-> {}]
      /\ res.string \in Clean /\ res.good \in BOOLEAN
  BY DEF HexSoFar
<1> DEFINE bytes == {Combined(h, l) : h \in Digit(c0), l \in Digit(c1)}
           byte == CHOOSE b \in bytes : TRUE
           pushed == append(res.string, <<byte>>)
<1>2. TwoDigits(res, c0, c1) =
        IF ~res.good \/ Digit(c0) = {} \/ Digit(c1) = {} THEN [res EXCEPT !.good = FALSE]
        ELSE [good |-> TRUE, string |-> pushed.string, freed |-> res.freed \union pushed.freed]
  BY DEF TwoDigits
<1>3. CASE ~res.good \/ Digit(c0) = {} \/ Digit(c1) = {}
  <2> HIDE DEF pushed
  <2>1. TwoDigits(res, c0, c1) = [res EXCEPT !.good = FALSE]
    BY <1>2, <1>3
  <2>2. [res EXCEPT !.good = FALSE] \in HexSoFar
    BY DEF HexSoFar
  <2> QED BY <2>1, <2>2
<1>4. CASE ~(~res.good \/ Digit(c0) = {} \/ Digit(c1) = {})
  <2>1. Digit(c0) \subseteq Int /\ Digit(c1) \subseteq Int
    <3>1. DOMAIN hex = 1 .. 17
      BY DEF hex
    <3> QED BY <3>1 DEF Digit
  <2>2. \A h, l \in Int : Combined(h, l) \in Int
    BY DEF Combined
  <2>3. bytes \subseteq Int
    BY <2>1, <2>2
  <2>4. bytes # {}
    <3>1. PICK h \in Digit(c0), l \in Digit(c1) : TRUE
      BY <1>4
    <3>2. Combined(h, l) \in bytes
      BY <3>1
    <3> QED BY <3>2
  <2>5. byte \in Int
    <3> HIDE DEF bytes
    <3> QED BY <2>3, <2>4
  <2> HIDE DEF byte
  <2>6. <<byte>> \in Seq(Int)
    BY <2>5
  <2>7. pushed.string \in Clean /\ pushed.freed = {}
    BY <1>1, <2>6, AppendedClean
  <2> HIDE DEF pushed
  <2>8. TwoDigits(res, c0, c1) = [good |-> TRUE, string |-> pushed.string, freed |-> res.freed \union pushed.freed]
    BY <1>2, <1>4
  <2>9. res.freed \union pushed.freed = {}
    BY <1>1, <2>7
  <2> QED BY <2>7, <2>8, <2>9 DEF HexSoFar
<1> QED BY <1>3, <1>4

(* SplitClean, HexClean: what the two loops return.                        *)
LEMMA SplitClean ==
  ASSUME NEW text \in Seq(Int)
  PROVE  split(text) \in WordsSoFar
<1> DEFINE m == Len(text)
           first == [fields |-> << >>, freed |-> {}, space |-> TRUE]
           Is(f) == f = [n \in 0 .. m |-> IF n = 0 THEN first ELSE Pushed(f[n - 1], text[n])]
           step == [n \in 1 .. m |-> [w \in WordsSoFar |-> Pushed(w, text[n])]]
           h == CHOOSE f : Is(f)
<1>1. m \in Nat /\ \A n \in 1 .. m : text[n] \in Int
  OBVIOUS
<1>2. first \in WordsSoFar
  BY EmptySeq DEF WordsSoFar
<1> HIDE DEF first, m
<1>3. step \in [1 .. m -> [WordsSoFar -> WordsSoFar]]
  BY <1>1, PushedClean
<1> HIDE DEF step
<1>4. PICK g : g \in [0 .. m -> WordsSoFar] /\ g[0] = first /\ \A n \in 1 .. m : g[n] = step[n][g[n - 1]]
  <2>1. m \in Nat
    BY <1>1
  <2>2. \E f : Run(f, WordsSoFar, first, m, step)
    BY <1>2, <1>3, <2>1, LoopRuns
  <2> QED BY <2>2 DEF Run
<1>5. Is(g)
  <2>1. ASSUME NEW n \in 0 .. m PROVE g[n] = IF n = 0 THEN first ELSE Pushed(g[n - 1], text[n])
    <3>1. CASE n = 0
      BY <1>4, <3>1
    <3>2. CASE n # 0
      <4>1. n \in 1 .. m /\ n - 1 \in 0 .. m
        BY <1>1, <3>2
      <4>2. g[n] = step[n][g[n - 1]] /\ g[n - 1] \in WordsSoFar
        BY <1>4, <4>1
      <4> QED BY <3>2, <4>1, <4>2 DEF step
    <3> QED BY <3>1, <3>2
  <2> QED BY <1>4, <2>1
<1>6. Is(h)
  <2> HIDE DEF Is
  <2> QED BY <1>5
<1>7. split(text) = h[m]
  BY DEF split, first, m
<1> HIDE DEF h
<1>8. h[0] = first /\ \A n \in 1 .. m : h[n] = Pushed(h[n - 1], text[n])
  <2>1. ASSUME NEW n \in 0 .. m PROVE h[n] = IF n = 0 THEN first ELSE Pushed(h[n - 1], text[n])
    BY <1>6
  <2>2. 0 \in 0 .. m /\ \A n \in 1 .. m : n \in 0 .. m /\ n # 0
    BY <1>1
  <2> QED BY <2>1, <2>2
<1>9. h[m] \in WordsSoFar
  <2> HIDE DEF Is
  <2>1. h[0] \in WordsSoFar
    BY <1>2, <1>8
  <2>2. \A n \in 1 .. m : h[n - 1] \in WordsSoFar => h[n] \in WordsSoFar
    BY <1>1, <1>8, PushedClean
  <2> QED BY <1>1, <2>1, <2>2, LoopStays
<1> QED BY <1>7, <1>9

LEMMA HexClean ==
  ASSUME NEW text \in Seq(Int)
  PROVE  parse_hexstr(text) \in HexSoFar
<1> DEFINE m == Len(text) \div 2
           first == [good |-> Len(text) % 2 = 0, string |-> grow(Empty, 0, m).string, freed |-> {}]
           Is(f) == f = [n \in 0 .. m |-> IF n = 0 THEN first
                                          ELSE TwoDigits(f[n - 1], text[2 * n - 1], text[2 * n])]
           step == [n \in 1 .. m |-> [r \in HexSoFar |-> TwoDigits(r, text[2 * n - 1], text[2 * n])]]
           h == CHOOSE f : Is(f)
<1>1. m \in Nat
  OBVIOUS
<1>2. first \in HexSoFar
  <2> HIDE DEF m
  <2>1. Empty \in Vector /\ Tidy(Empty, {}) /\ Empty.size = 0
    BY Nothing DEF Empty
  <2>2. grow(Empty, 0, m).string \in Vector /\ Tidy(grow(Empty, 0, m).string, {})
    BY <1>1, <2>1, Grown
  <2>3. grow(Empty, 0, m).string \in Clean
    BY <2>2 DEF Clean
  <2> QED BY <2>3 DEF HexSoFar
<1> HIDE DEF first, m
<1>3. step \in [1 .. m -> [HexSoFar -> HexSoFar]]
  BY TwoDigitsClean
<1> HIDE DEF step
<1>4. PICK g : g \in [0 .. m -> HexSoFar] /\ g[0] = first /\ \A n \in 1 .. m : g[n] = step[n][g[n - 1]]
  <2>1. m \in Nat
    BY <1>1
  <2>2. \E f : Run(f, HexSoFar, first, m, step)
    BY <1>2, <1>3, <2>1, LoopRuns
  <2> QED BY <2>2 DEF Run
<1>5. Is(g)
  <2>1. ASSUME NEW n \in 0 .. m
        PROVE  g[n] = IF n = 0 THEN first ELSE TwoDigits(g[n - 1], text[2 * n - 1], text[2 * n])
    <3>1. CASE n = 0
      BY <1>4, <3>1
    <3>2. CASE n # 0
      <4>1. n \in 1 .. m /\ n - 1 \in 0 .. m
        BY <1>1, <3>2
      <4>2. g[n] = step[n][g[n - 1]] /\ g[n - 1] \in HexSoFar
        BY <1>4, <4>1
      <4> QED BY <3>2, <4>1, <4>2 DEF step
    <3> QED BY <3>1, <3>2
  <2> QED BY <1>4, <2>1
<1>6. Is(h)
  <2> HIDE DEF Is
  <2> QED BY <1>5
<1>7. parse_hexstr(text) = h[m]
  BY DEF parse_hexstr, first, m
<1> HIDE DEF h
<1>8. h[0] = first /\ \A n \in 1 .. m : h[n] = TwoDigits(h[n - 1], text[2 * n - 1], text[2 * n])
  <2>1. ASSUME NEW n \in 0 .. m
        PROVE  h[n] = IF n = 0 THEN first ELSE TwoDigits(h[n - 1], text[2 * n - 1], text[2 * n])
    BY <1>6
  <2>2. 0 \in 0 .. m /\ \A n \in 1 .. m : n \in 0 .. m /\ n # 0
    BY <1>1
  <2> QED BY <2>1, <2>2
<1>9. h[m] \in HexSoFar
  <2> HIDE DEF Is
  <2>1. h[0] \in HexSoFar
    BY <1>2, <1>8
  <2>2. \A n \in 1 .. m : h[n - 1] \in HexSoFar => h[n] \in HexSoFar
    BY <1>8, TwoDigitsClean
  <2> QED BY <1>1, <2>1, <2>2, LoopStays
<1> QED BY <1>7, <1>9

-----------------------------------------------------------------------------
(* WipeInv: past its size a string has only zeros and what was abandoned,  *)
(* and nothing else was given back.                                        *)
WipeInv ==
  /\ Exists => string \in Vector /\ Tidy(string, abandoned)
  /\ freed \subseteq abandoned

(* Given, Abandoned: the two ways a string changes keep this.              *)
LEMMA Given ==
  ASSUME WipeInv, NEW g, NEW text, Gives(g, text),
         g.string # << >> => g.string \in Vector /\ Tidy(g.string, abandoned),
         g.freed \subseteq abandoned
  PROVE  WipeInv'
BY DEF WipeInv, Gives, Becomes, Exists, Tidy, Vector

LEMMA Remains ==
  ASSUME NEW v \in Vector, NEW S, Tidy(v, S)
  PROVE  /\ Left(v.mem) \subseteq S \union Left(buffer(v))
         /\ \A i \in 1 .. Len(v.mem) : v.mem[i] \in S \union Left(buffer(v)) \union {0}
<1>1. v.mem \in Seq(Int) /\ v.size \in Nat /\ v.size <= Len(v.mem) /\ Len(v.mem) \in Nat
  BY DEF Vector
<1>2. /\ buffer(v) \in Seq(Int) /\ Len(buffer(v)) = v.size
      /\ \A i \in 1 .. v.size : buffer(v)[i] = v.mem[i]
  BY Buffered
<1>3. ASSUME NEW i \in 1 .. Len(v.mem)
      PROVE  v.mem[i] \in S \union Left(buffer(v)) \union {0}
  <2>1. CASE i \in 1 .. v.size
    <3>1. buffer(v)[i] \in ToSet(buffer(v))
      BY <1>2, <2>1 DEF ToSet
    <3> QED BY <1>2, <2>1, <3>1 DEF Left
  <2>2. CASE i \notin 1 .. v.size
    <3>1. i \in v.size + 1 .. Len(v.mem)
      BY <1>1, <2>2
    <3> QED BY <3>1 DEF Tidy
  <2> QED BY <2>1, <2>2
<1>4. Left(v.mem) \subseteq S \union Left(buffer(v))
  <2> HIDE DEF buffer
  <2>1. ToSet(v.mem) = {v.mem[i] : i \in 1 .. Len(v.mem)}
    BY <1>1 DEF ToSet
  <2> QED BY <1>3, <2>1 DEF Left
<1> QED BY <1>3, <1>4

LEMMA Abandoned ==
  ASSUME WipeInv, NEW v \in Vector, NEW text, NEW left, Abandons(v, text, left),
         Tidy(v, abandoned \union Left(buffer(string))),
         left \subseteq abandoned \union Left(buffer(string))
  PROVE  WipeInv'
<1>1. string' = v /\ freed' = freed \union left /\ abandoned' = abandoned \union Left(buffer(string))
  BY DEF Abandons, Becomes
<1>2. Tidy(v, abandoned')
  BY <1>1
<1>3. freed \subseteq abandoned
  BY DEF WipeInv
<1>4. freed' \subseteq abandoned'
  BY <1>1, <1>3
<1>5. string' \in Vector /\ Tidy(string, abandoned)'
  BY <1>1, <1>2 DEF Tidy
<1> QED BY <1>4, <1>5 DEF WipeInv, Vector

(* The steps of a string, one lemma each where it takes more than a line.  *)
LEMMA MakeKeeps ==
  ASSUME WipeInv, NEW text \in Seq(Int), NEW moved \in BOOLEAN, Make(text, moved)
  PROVE  WipeInv'
<1> DEFINE given == [string |-> append(Empty, text).string,
                     freed |-> IF moved THEN Left(memwipe(text, 1, Len(text))) ELSE {}]
<1>1. Gives(given, text)
  BY DEF Make
<1>2. append(Empty, text).string \in Vector /\ Tidy(append(Empty, text).string, abandoned)
  BY Nothing, Appended
<1>3. Left(memwipe(text, 1, Len(text))) = {}
  <2> DEFINE wiped == memwipe(text, 1, Len(text))
  <2>1. /\ wiped \in Seq(Int) /\ Len(wiped) = Len(text)
        /\ \A i \in 1 .. Len(text) : wiped[i] = IF i \in 1 .. Len(text) THEN 0 ELSE text[i]
    BY Wiped
  <2> HIDE DEF wiped
  <2>2. Left(wiped) = {}
    BY <2>1 DEF Left, ToSet
  <2> QED BY <2>2 DEF wiped
<1>4. given.string = append(Empty, text).string /\ given.freed = {}
  BY <1>3
<1> HIDE DEF given
<1> QED BY <1>1, <1>2, <1>4, Given

LEMMA MakeOfOtherKeeps ==
  ASSUME WipeInv, NEW text \in Seq(Int), NEW room \in Nat, MakeOfOther(text, room)
  PROVE  WipeInv'
<1> DEFINE given == [string |-> Spare(text, room), freed |-> {}]
<1>1. Gives(given, text)
  BY DEF MakeOfOther
<1>2. given.string \in Vector /\ Tidy(given.string, abandoned) /\ given.freed = {}
  BY Spared
<1> HIDE DEF given
<1> QED BY <1>1, <1>2, Given

LEMMA MoveAwayKeeps == WipeInv /\ MoveAway => WipeInv'
<1> SUFFICES ASSUME WipeInv, MoveAway PROVE WipeInv'
  OBVIOUS
<1> DEFINE given == [string |-> Empty, freed |-> {}]
<1>1. Gives(given, << >>)
  BY DEF MoveAway
<1>2. given.string \in Vector /\ Tidy(given.string, abandoned) /\ given.freed = {}
  BY Nothing
<1> HIDE DEF given
<1> QED BY <1>1, <1>2, Given

LEMMA DestroyKeeps == WipeInv /\ Destroy => WipeInv'
<1> SUFFICES ASSUME WipeInv, Destroy PROVE WipeInv'
  OBVIOUS
<1> DEFINE given == [string |-> << >>, freed |-> Destroyed(string)]
<1>1. Gives(given, << >>)
  BY DEF Destroy
<1>2. Destroyed(string) \subseteq abandoned
  BY WipedWhole DEF Destroy, WipeInv
<1>3. given.string = << >> /\ given.freed \subseteq abandoned
  BY <1>2
<1> HIDE DEF given
<1> QED BY <1>1, <1>3, Given

LEMMA WipeKeeps == WipeInv /\ Wipe => WipeInv'
<1> SUFFICES ASSUME WipeInv, Wipe PROVE WipeInv'
  OBVIOUS
<1> DEFINE given == [string |-> wipe(string), freed |-> {}]
<1>1. Gives(given, Zeros(Len(meant)))
  BY DEF Wipe
<1>2. wipe(string) \in Vector /\ Tidy(wipe(string), abandoned)
  BY WipedWhole DEF Wipe, WipeInv
<1>3. given.string = wipe(string) /\ given.freed = {}
  OBVIOUS
<1> HIDE DEF given
<1> QED BY <1>1, <1>2, <1>3, Given

LEMMA AppendKeeps ==
  ASSUME WipeInv, NEW text \in Seq(Int), AppendText(text)
  PROVE  WipeInv'
<1>1. string \in Vector /\ Tidy(string, abandoned)
  BY DEF AppendText, WipeInv
<1> DEFINE given == append(string, text)
<1>2. given.string \in Vector /\ Tidy(given.string, abandoned) /\ given.freed \subseteq abandoned
  BY <1>1, Appended
<1>3. Gives(given, meant \o text)
  BY DEF AppendText
<1> HIDE DEF given
<1> QED BY <1>2, <1>3, Given

(* GrowKeeps: those that are calls of grow.                                *)
LEMMA GrowKeeps ==
  ASSUME WipeInv, Exists, NEW sz \in Nat, NEW reserved \in Nat, NEW text,
         Moves(string, sz, reserved) => string.size <= sz,
         Gives(grow(string, sz, reserved), text)
  PROVE  WipeInv'
<1>1. string \in Vector /\ Tidy(string, abandoned)
  BY DEF WipeInv
<1> DEFINE given == grow(string, sz, reserved)
<1>2. given.string \in Vector /\ Tidy(given.string, abandoned) /\ given.freed \subseteq abandoned
  BY <1>1, Grown
<1> HIDE DEF given
<1>3. Gives(given, text)
  BY DEF given
<1> QED BY <1>2, <1>3, Given

LEMMA NoMemoryKeeps ==
  ASSUME WipeInv, NEW sz, NoMemory(sz)
  PROVE  WipeInv'
<1>1. string \in Vector /\ Tidy(string, abandoned)
  BY DEF NoMemory, WipeInv
<1> DEFINE S == abandoned \union Left(buffer(string))
<1>2. Tidy(string, S)
  BY <1>1 DEF Tidy
<1>3. wipe(string) \in Vector /\ Tidy(wipe(string), S)
  <2> HIDE DEF S
  <2> QED BY <1>1, <1>2, WipedWhole
<1>4. Abandons(wipe(string), Zeros(Len(meant)), Left(buffer(string)))
  BY DEF NoMemory
<1> QED BY <1>3, <1>4, Abandoned

LEMMA MoveAssignKeeps ==
  ASSUME WipeInv, NEW text \in Seq(Int), NEW room \in Nat, Exists,
         Abandons(Spare(text, room), text, Left(string.mem))
  PROVE  WipeInv'
<1>1. string \in Vector /\ Tidy(string, abandoned)
  BY DEF WipeInv
<1>2. Left(string.mem) \subseteq abandoned \union Left(buffer(string))
  BY <1>1, Remains
<1>3. Spare(text, room) \in Vector /\ Tidy(Spare(text, room), abandoned \union Left(buffer(string)))
  BY Spared
<1> QED BY <1>2, <1>3, Abandoned

LEMMA CopyAssignKeeps ==
  ASSUME WipeInv, NEW text \in Seq(Int), CopyAssign(text)
  PROVE  WipeInv'
<1>1. Exists /\ string \in Vector /\ Tidy(string, abandoned)
  BY DEF CopyAssign, WipeInv
<1>2. CASE Len(text) <= Len(string.mem)
  <2> DEFINE mem == memcpy(string.mem, 0, text)
             v == [mem |-> mem, size |-> Len(text)]
             S == abandoned \union Left(buffer(string))
  <2>1. Abandons(v, text, {})
    BY <1>2 DEF CopyAssign
  <2>2. string.mem \in Seq(Int) /\ Len(text) \in Nat
    BY <1>1 DEF Vector
  <2>3. /\ mem \in Seq(Int) /\ Len(mem) = Len(string.mem)
        /\ \A i \in Len(text) + 1 .. Len(string.mem) : mem[i] = string.mem[i]
    <3> DEFINE old == string.mem
    <3>1. old \in Seq(Int) /\ 0 + Len(text) <= Len(old) /\ 0 \in Nat
      BY <1>2, <2>2
    <3> HIDE DEF old
    <3>2. /\ memcpy(old, 0, text) \in Seq(Int) /\ Len(memcpy(old, 0, text)) = Len(old)
          /\ \A i \in 0 + Len(text) + 1 .. Len(old) : memcpy(old, 0, text)[i] = old[i]
      BY <3>1, Copied
    <3>3. 0 + Len(text) + 1 = Len(text) + 1
      BY <2>2
    <3> QED BY <3>2, <3>3 DEF old
  <2>4. \A i \in 1 .. Len(string.mem) : string.mem[i] \in S \union {0}
    BY <1>1, Remains
  <2> HIDE DEF mem, S
  <2>5. \A i \in Len(text) + 1 .. Len(mem) : mem[i] \in S \union {0}
    BY <2>2, <2>3, <2>4
  <2>6. v \in Vector /\ Tidy(v, S)
    BY <1>2, <2>2, <2>3, <2>5 DEF Vector, Tidy
  <2> HIDE DEF v
  <2> QED BY <2>1, <2>6, Abandoned DEF S
<1>3. CASE ~(Len(text) <= Len(string.mem))
  <2>1. Abandons(Spare(text, 0), text, Left(string.mem))
    BY <1>3 DEF CopyAssign
  <2> QED BY <1>1, <2>1, MoveAssignKeeps
<1> QED BY <1>2, <1>3

(* ExtractsKeep: split and parse_hexstr leave nothing behind.              *)
LEMMA CleanLeaves ==
  ASSUME NEW v \in Clean
  PROVE  Destroyed(v) = {}
<1>1. v \in Vector /\ Tidy(v, {})
  BY DEF Clean
<1> QED BY <1>1, WipedWhole

LEMMA ExtractsKeep ==
  ASSUME WipeInv, Split \/ ParseHex
  PROVE  WipeInv'
<1>1. Exists /\ string \in Vector /\ freed \subseteq abandoned
  BY DEF Split, ParseHex, WipeInv
<1>2. buffer(string) \in Seq(Int)
  BY <1>1, Buffered
<1>3. freed' \subseteq abandoned
  <2>1. CASE Split
    <3> DEFINE words == split(buffer(string))
    <3>1. words \in WordsSoFar
      BY <1>2, SplitClean
    <3>2. freed' = freed \union words.freed \union UNION {Destroyed(words.fields[n]) : n \in DOMAIN words.fields}
      BY <2>1 DEF Split
    <3> HIDE DEF words
    <3>3. words.fields \in Seq(Clean) /\ words.freed = {}
      BY <3>1 DEF WordsSoFar
    <3>4. ASSUME NEW n \in DOMAIN words.fields PROVE Destroyed(words.fields[n]) = {}
      <4>1. words.fields[n] \in Clean
        <5> HIDE DEF Clean
        <5> QED BY <3>3
      <4> QED BY <4>1, CleanLeaves
    <3>5. UNION {Destroyed(words.fields[n]) : n \in DOMAIN words.fields} = {}
      BY <3>4
    <3> QED BY <1>1, <3>2, <3>3, <3>5
  <2>2. CASE ParseHex
    <3> DEFINE res == parse_hexstr(buffer(string))
    <3>1. res \in HexSoFar
      BY <1>2, HexClean
    <3>2. freed' = freed \union res.freed \union Destroyed(res.string)
      BY <2>2 DEF ParseHex
    <3> HIDE DEF res
    <3>3. res.string \in Clean /\ res.freed = {}
      BY <3>1 DEF HexSoFar
    <3>4. Destroyed(res.string) = {}
      BY <3>3, CleanLeaves
    <3> QED BY <1>1, <3>2, <3>3, <3>4
  <2> QED BY <2>1, <2>2
<1>4. string' = string /\ abandoned' = abandoned
  BY DEF Split, ParseHex
<1>5. Tidy(string, abandoned)
  BY <1>1 DEF WipeInv
<1> QED BY <1>1, <1>3, <1>4, <1>5 DEF WipeInv, Tidy, Vector

-----------------------------------------------------------------------------
LEMMA WipeInvHolds == WipeableSpec => []WipeInv
<1>1. WipeableInit => WipeInv
  BY DEF WipeableInit, WipeInv, Exists
<1>2. WipeInv /\ [WipeableNext]_wipeableVars => WipeInv'
  <2> SUFFICES ASSUME WipeInv, [WipeableNext]_wipeableVars PROVE WipeInv'
    OBVIOUS
  <2> USE TextsAssumption
  <2>1. ASSUME NEW text \in Texts, NEW moved \in BOOLEAN, Make(text, moved) PROVE WipeInv'
    BY <2>1, MakeKeeps
  <2>2. ASSUME NEW text \in Texts, AppendText(text) PROVE WipeInv'
    BY <2>2, AppendKeeps
  <2>3. ASSUME NEW text \in Texts, CopyAssign(text) PROVE WipeInv'
    BY <2>3, CopyAssignKeeps
  <2>4. ASSUME NEW text \in Texts, NEW room \in 0 .. 1, MakeOfOther(text, room) PROVE WipeInv'
    <3>1. text \in Seq(Int) /\ room \in Nat
      OBVIOUS
    <3> QED BY <2>4, <3>1, MakeOfOtherKeeps
  <2>5. ASSUME NEW text \in Texts, NEW room \in 0 .. 1, MoveAssign(text, room) PROVE WipeInv'
    <3>1. text \in Seq(Int) /\ room \in Nat
      OBVIOUS
    <3>2. Exists /\ Abandons(Spare(text, room), text, Left(string.mem))
      BY <2>5 DEF MoveAssign
    <3> QED BY <3>1, <3>2, MoveAssignKeeps
  <2>6. CASE pop_back
    <3>1. /\ Exists /\ string.size > 0 /\ Gives(grow(string, string.size - 1, 0), Front(meant))
          /\ string \in Vector
      BY <2>6 DEF pop_back, WipeInv
    <3>2. /\ string.size - 1 \in Nat
          /\ Moves(string, string.size - 1, 0) => string.size <= string.size - 1
      BY <3>1 DEF Vector, Moves, Reserved
    <3> QED BY <3>1, <3>2, GrowKeeps
  <2>7. ASSUME NEW sz \in 0 .. MaxLength, Resize(sz) PROVE WipeInv'
    <3> DEFINE text == [i \in 1 .. sz |-> IF i \in DOMAIN meant THEN meant[i] ELSE 0]
    <3>1. Exists /\ Gives(grow(string, sz, 0), text) /\ string \in Vector
      BY <2>7 DEF Resize, WipeInv
    <3> HIDE DEF text
    <3>2. sz \in Nat /\ (Moves(string, sz, 0) => string.size <= sz)
      BY <3>1 DEF Vector, Moves, Reserved
    <3> QED BY <3>1, <3>2, GrowKeeps
  <2>8. ASSUME NEW sz \in 0 .. MaxReserve, Reserve(sz) PROVE WipeInv'
    <3>1. Exists /\ Gives(grow(string, string.size, sz), meant) /\ string \in Vector
      BY <2>8 DEF Reserve, WipeInv
    <3>2. sz \in Nat /\ string.size \in Nat /\ string.size <= string.size
      BY <3>1 DEF Vector
    <3> QED BY <3>1, <3>2, GrowKeeps
  <2>9. ASSUME NEW sz \in 0 .. MaxLength, NoMemory(sz) PROVE WipeInv'
    BY <2>9, NoMemoryKeeps
  <2>10. CASE UNCHANGED wipeableVars
    BY <2>10 DEF wipeableVars, WipeInv, Exists, Tidy, Vector
  <2> QED
    BY <2>1, <2>2, <2>3, <2>4, <2>5, <2>6, <2>7, <2>8, <2>9, <2>10,
       MoveAwayKeeps, DestroyKeeps, WipeKeeps, ExtractsKeep DEF WipeableNext
<1> QED BY <1>1, <1>2, PTL DEF WipeableSpec

(* StringsAreWiped: whatever is done to a string, and however long the     *)
(* texts, nothing it held is found in memory that was given back or past   *)
(* its size, but what was assigned over or put aside when memory ran out   *)
(* (wipeable_string.cpp: grow, append, wipe, split, parse_hexstr).         *)
THEOREM StringsAreWiped == WipeableSpec => []SecretsAreWiped
<1>1. WipeInv => SecretsAreWiped
  <2> SUFFICES ASSUME WipeInv PROVE SecretsAreWiped
    OBVIOUS
  <2>1. freed \subseteq abandoned
    BY DEF WipeInv
  <2>2. ASSUME Exists
        PROVE  Left(SubSeq(string.mem, string.size + 1, Len(string.mem))) \subseteq abandoned
    <3> DEFINE mem == string.mem
               n == Len(mem)
               k == string.size
               rest == SubSeq(mem, k + 1, n)
    <3>1. /\ mem \in Seq(Int) /\ k \in Nat /\ n \in Nat /\ k <= n
          /\ \A i \in k + 1 .. n : mem[i] \in abandoned \union {0}
      BY <2>2 DEF WipeInv, Vector, Tidy
    <3> HIDE DEF mem, k
    <3>2. /\ rest \in Seq(Int) /\ Len(rest) = n - k
          /\ \A i \in 1 .. n - k : rest[i] = mem[k + i]
      <4>1. n \in Nat /\ \A i \in 1 .. n : mem[i] \in Int
        BY <3>1
      <4>2. /\ rest \in Seq(Int)
            /\ Len(rest) = IF k + 1 <= n THEN n - (k + 1) + 1 ELSE 0
            /\ \A i \in 1 .. n - (k + 1) + 1 : rest[i] = mem[k + 1 + i - 1]
        BY <3>1, <4>1, SubSeqProperties
      <4> HIDE DEF n, rest
      <4> QED BY <3>1, <4>2
    <3> HIDE DEF n, rest
    <3>3. \A i \in 1 .. Len(rest) : rest[i] \in abandoned \union {0}
      <4>1. ASSUME NEW i \in 1 .. n - k PROVE k + i \in k + 1 .. n
        BY <3>1
      <4> QED BY <3>1, <3>2, <4>1
    <3>4. Left(rest) \subseteq abandoned
      BY <3>2, <3>3 DEF Left, ToSet
    <3> QED BY <3>4 DEF rest, n, k, mem
  <2> QED BY <2>1, <2>2 DEF SecretsAreWiped
<1> QED BY <1>1, WipeInvHolds, PTL
=============================================================================
