-------------------------- MODULE TxConstruct_proof --------------------------
(***************************************************************************)
(* Theorems about the extra of a transaction, field by field and for any   *)
(* length, and about its construction, for every set of wallets,           *)
(* subaddresses and requests and every word size.                          *)
(***************************************************************************)
EXTENDS TxConstructProps, SequenceTheorems, FiniteSetTheorems, WellFoundedInduction, TLAPS

-----------------------------------------------------------------------------
(* LeastIndex: a nonempty set of indices has a least element.              *)
LEMMA LeastIndex ==
  ASSUME NEW n \in Nat, NEW T, T \subseteq 1 .. n, T # {}
  PROVE  \E x \in T : \A y \in T : x <= y
<1> DEFINE S == 1 .. n
           TT == {1 .. x : x \in T}
<1>1. IsWellFoundedOn(StrictSubsetOrdering(S), FiniteSubsetsOf(S))
  BY FS_StrictSubsetOrderingWellFounded
<1>2. TT \subseteq FiniteSubsetsOf(S) /\ TT # {}
  <2>1. ASSUME NEW x \in T PROVE 1 .. x \in FiniteSubsetsOf(S)
    BY FS_Interval DEF FiniteSubsetsOf
  <2> QED BY <2>1
<1>3. PICK z \in TT : \A w \in TT : <<w, z>> \notin StrictSubsetOrdering(S)
  <2> HIDE DEF TT
  <2> QED BY <1>1, <1>2, WFMin
<1>4. PICK x \in T : z = 1 .. x
  OBVIOUS
<1>5. ASSUME NEW y \in T PROVE x <= y
  <2>1. <<1 .. y, 1 .. x>> \notin StrictSubsetOrdering(S)
    BY <1>3, <1>4
  <2>2. SUFFICES ASSUME y < x PROVE FALSE
    BY <1>4
  <2>3. 1 .. y \subseteq 1 .. x /\ x \in 1 .. x /\ x \notin 1 .. y
    BY <2>2
  <2> QED BY <2>1, <2>3 DEF StrictSubsetOrdering
<1> QED BY <1>5

(* Upwards: a set that holds 0, and with a number the next one, holds all  *)
(* numbers.                                                                *)
LEMMA Upwards ==
  ASSUME NEW P, 0 \in P, \A n \in Nat : n \in P => n + 1 \in P
  PROVE  Nat \subseteq P
<1> SUFFICES ASSUME NEW n \in Nat, n \notin P PROVE FALSE
  OBVIOUS
<1> DEFINE T == {i \in 1 .. n : i \notin P}
<1>1. T \subseteq 1 .. n /\ n \in T
  OBVIOUS
<1>2. PICK x \in T : \A y \in T : x <= y
  <2> HIDE DEF T
  <2> QED BY <1>1, LeastIndex
<1>3. x - 1 \in Nat /\ x - 1 \notin T /\ x - 1 + 1 = x /\ x - 1 <= n
  BY <1>2
<1>4. x - 1 \in P
  BY <1>3
<1> QED BY <1>3, <1>4

(* WithoutLast: a sequence that is not empty is another one with an        *)
(* element appended.                                                       *)
LEMMA WithoutLast ==
  ASSUME NEW S, NEW s \in Seq(S), s # << >>
  PROVE  \E r \in Seq(S), x \in S : s = Append(r, x) /\ Len(s) = Len(r) + 1
<1> DEFINE n == Len(s) - 1
           r == SubSeq(s, 1, n)
<1>1. Len(s) \in Nat \ {0} /\ n \in Nat /\ \A i \in 1 .. Len(s) : s[i] \in S
  BY EmptySeq
<1>2. r \in Seq(S) /\ Len(r) = n /\ \A i \in 1 .. n : r[i] = s[i]
  <2>1. 1 \in Int /\ n \in Int /\ n - 1 + 1 = n /\ \A i \in 1 .. n : s[i] \in S /\ 1 + i - 1 = i
    BY <1>1
  <2> HIDE DEF n
  <2>2. /\ SubSeq(s, 1, n) \in Seq(S)
        /\ Len(SubSeq(s, 1, n)) = IF 1 <= n THEN n - 1 + 1 ELSE 0
        /\ \A i \in 1 .. n - 1 + 1 : SubSeq(s, 1, n)[i] = s[1 + i - 1]
    BY <2>1, SubSeqProperties
  <2>3. Len(SubSeq(s, 1, n)) = n
    <3> DEFINE len == Len(SubSeq(s, 1, n))
    <3>1. len = IF 1 <= n THEN n - 1 + 1 ELSE 0
      BY <2>2
    <3>2. n \in Nat
      BY <1>1 DEF n
    <3> HIDE DEF len
    <3>3. len = n
      BY <2>1, <3>1, <3>2
    <3> QED BY <3>3 DEF len
  <2>4. \A i \in 1 .. n : SubSeq(s, 1, n)[i] = s[i]
    BY <2>1, <2>2
  <2> QED BY <2>2, <2>3, <2>4
<1>3. Append(r, s[Len(s)]) \in Seq(S) /\ Len(Append(r, s[Len(s)])) = Len(s)
      /\ \A i \in 1 .. Len(s) : Append(r, s[Len(s)])[i] = s[i]
  <2> HIDE DEF r
  <2> QED BY <1>1, <1>2
<1>4. s = Append(r, s[Len(s)])
  <2> HIDE DEF r
  <2> QED BY <1>3, SeqEqual
<1>5. s[Len(s)] \in S /\ Len(s) = Len(r) + 1
  BY <1>1, <1>2
<1> QED BY <1>2, <1>4, <1>5

(* BySequences: a set that holds the empty sequence, and with a sequence   *)
(* the longer ones, holds all sequences.                                   *)
LEMMA BySequences ==
  ASSUME NEW S, NEW P, << >> \in P,
         \A s \in Seq(S), x \in S : s \in P => Append(s, x) \in P
  PROVE  Seq(S) \subseteq P
<1> DEFINE Q == {n \in Nat : \A s \in Seq(S) : Len(s) = n => s \in P}
<1>1. 0 \in Q
  BY EmptySeq
<1>2. ASSUME NEW n \in Nat, n \in Q PROVE n + 1 \in Q
  <2>1. ASSUME NEW s \in Seq(S), Len(s) = n + 1 PROVE s \in P
    <3>1. s # << >>
      BY <2>1, EmptySeq
    <3>2. PICK r \in Seq(S), x \in S : s = Append(r, x) /\ Len(s) = Len(r) + 1
      BY <3>1, WithoutLast
    <3>3. Len(r) = n
      BY <2>1, <3>2
    <3> QED BY <1>2, <3>2, <3>3
  <2> QED BY <2>1
<1>3. Nat \subseteq Q
  <2> HIDE DEF Q
  <2> QED BY <1>1, <1>2, Upwards
<1> QED BY <1>3

-----------------------------------------------------------------------------
(* Picking fields by their types.  f is what has been picked, step by step.*)
Picks(s, types, m, f) ==
  f = [n \in 0 .. m |->
         IF n = 0 THEN << >>
         ELSE IF s[n].type \in types THEN Append(f[n - 1], s[n]) ELSE f[n - 1]]

(* PicksExist: there is such a function, so the definition defines one.    *)
LEMMA PicksExist ==
  ASSUME NEW s, NEW types, NEW m \in Nat
  PROVE  \E f : Picks(s, types, m, f)
<1> DEFINE P == {k \in Nat : \E f : Picks(s, types, k, f)}
<1>1. 0 \in P
  <2> DEFINE f == [n \in 0 .. 0 |-> << >>]
  <2>1. Picks(s, types, 0, f)
    BY DEF Picks
  <2> QED BY <2>1
<1>2. ASSUME NEW k \in Nat, k \in P PROVE k + 1 \in P
  <2>1. PICK f : Picks(s, types, k, f)
    BY <1>2
  <2> DEFINE last == IF s[k + 1].type \in types THEN Append(f[k], s[k + 1]) ELSE f[k]
             g == [n \in 0 .. k + 1 |-> IF n = k + 1 THEN last ELSE f[n]]
  <2>2. ASSUME NEW n \in 0 .. k + 1
        PROVE  g[n] = IF n = 0 THEN << >>
                      ELSE IF s[n].type \in types THEN Append(g[n - 1], s[n]) ELSE g[n - 1]
    <3>1. CASE n = 0
      <4>1. g[n] = f[0] /\ f[0] = << >>
        BY <2>1, <3>1 DEF Picks
      <4> QED BY <3>1, <4>1
    <3>2. CASE n \in 1 .. k
      <4>1. n - 1 \in 0 .. k /\ n \in 0 .. k /\ n # k + 1 /\ n - 1 # k + 1 /\ n # 0
            /\ n - 1 \in 0 .. k + 1
        BY <3>2
      <4>2. g[n] = f[n] /\ g[n - 1] = f[n - 1]
        BY <4>1
      <4>3. f[n] = IF s[n].type \in types THEN Append(f[n - 1], s[n]) ELSE f[n - 1]
        BY <2>1, <4>1 DEF Picks
      <4> HIDE DEF g
      <4> QED BY <4>1, <4>2, <4>3
    <3>3. CASE n = k + 1
      <4>1. g[n] = last /\ g[n - 1] = f[k] /\ n # 0
        BY <3>3
      <4> HIDE DEF g
      <4> QED BY <3>3, <4>1
    <3> QED BY <3>1, <3>2, <3>3
  <2>3. Picks(s, types, k + 1, g)
    <3> DEFINE h == [n \in 0 .. k + 1 |->
                      IF n = 0 THEN << >>
                      ELSE IF s[n].type \in types THEN Append(g[n - 1], s[n]) ELSE g[n - 1]]
    <3>1. DOMAIN g = 0 .. k + 1 /\ g = [n \in 0 .. k + 1 |-> g[n]]
      OBVIOUS
    <3> HIDE DEF g
    <3>2. g = h
      BY <2>2, <3>1
    <3> QED BY <3>2 DEF Picks
  <2> QED BY <2>3
<1>3. Nat \subseteq P
  <2> HIDE DEF P
  <2> QED BY <1>1, <1>2, Upwards
<1> QED BY <1>3

(* PicksAgree: what is picked of the fields both have is the same.         *)
LEMMA PicksAgree ==
  ASSUME NEW s, NEW r, NEW types, NEW m \in Nat, NEW k \in Nat, m <= k,
         NEW f, NEW g, Picks(s, types, m, f), Picks(r, types, k, g),
         \A n \in 1 .. m : s[n] = r[n]
  PROVE  f[m] = g[m]
<1> DEFINE P == {n \in Nat : n <= m => f[n] = g[n]}
<1>1. 0 \in P
  BY DEF Picks
<1>2. ASSUME NEW n \in Nat, n \in P PROVE n + 1 \in P
  <2> SUFFICES ASSUME n + 1 <= m PROVE f[n + 1] = g[n + 1]
    OBVIOUS
  <2>1. n + 1 \in 0 .. m /\ n + 1 \in 0 .. k /\ n + 1 # 0 /\ n + 1 - 1 = n /\ n + 1 \in 1 .. m
        /\ f[n] = g[n]
    BY <1>2
  <2>2. f[n + 1] = IF s[n + 1].type \in types THEN Append(f[n], s[n + 1]) ELSE f[n]
    <3>1. ASSUME NEW i \in 0 .. m
          PROVE  f[i] = IF i = 0 THEN << >>
                        ELSE IF s[i].type \in types THEN Append(f[i - 1], s[i]) ELSE f[i - 1]
      BY DEF Picks
    <3> QED BY <2>1, <3>1
  <2>3. g[n + 1] = IF r[n + 1].type \in types THEN Append(g[n], r[n + 1]) ELSE g[n]
    <3>1. ASSUME NEW i \in 0 .. k
          PROVE  g[i] = IF i = 0 THEN << >>
                        ELSE IF r[i].type \in types THEN Append(g[i - 1], r[i]) ELSE g[i - 1]
      BY DEF Picks
    <3> QED BY <2>1, <3>1
  <2> QED BY <2>1, <2>2, <2>3
<1>3. Nat \subseteq P
  <2> HIDE DEF P
  <2> QED BY <1>1, <1>2, Upwards
<1> QED BY <1>3

(* PickedIs: what OfTypes answers is what was picked last.                 *)
LEMMA PickedIs ==
  ASSUME NEW S, NEW s \in Seq(S), NEW types
  PROVE  \E f : Picks(s, types, Len(s), f) /\ OfTypes(s, types) = f[Len(s)]
<1> DEFINE f == CHOOSE g : Picks(s, types, Len(s), g)
<1>1. Picks(s, types, Len(s), f)
  <2>1. Len(s) \in Nat
    OBVIOUS
  <2> QED BY <2>1, PicksExist
<1>2. OfTypes(s, types) = f[Len(s)]
  BY DEF OfTypes, Picks
<1> QED BY <1>1, <1>2

(* PickedEmpty: of nothing nothing is picked.                              *)
LEMMA PickedEmpty == \A types : OfTypes(<< >>, types) = << >>
<1> SUFFICES ASSUME NEW types PROVE OfTypes(<< >>, types) = << >>
  OBVIOUS
<1>1. PICK f : Picks(<< >>, types, Len(<< >>), f) /\ OfTypes(<< >>, types) = f[Len(<< >>)]
  <2>1. << >> \in Seq({})
    OBVIOUS
  <2> QED BY <2>1, PickedIs
<1> QED BY <1>1 DEF Picks

(* PickedAppend: a field at the end is picked if it is of the types.       *)
LEMMA PickedAppend ==
  ASSUME NEW S, NEW s \in Seq(S), NEW x \in S, NEW types
  PROVE  OfTypes(Append(s, x), types) =
           IF x.type \in types THEN Append(OfTypes(s, types), x) ELSE OfTypes(s, types)
<1> DEFINE r == Append(s, x)
           n == Len(s)
<1>1. n \in Nat /\ r \in Seq(S) /\ Len(r) = n + 1 /\ r[n + 1] = x /\ \A i \in 1 .. n : s[i] = r[i]
  OBVIOUS
<1>2. PICK f : Picks(s, types, n, f) /\ OfTypes(s, types) = f[n]
  BY PickedIs
<1>3. PICK g : Picks(r, types, n + 1, g) /\ OfTypes(r, types) = g[n + 1]
  <2> HIDE DEF r
  <2> QED BY <1>1, PickedIs
<1> HIDE DEF r, n
<1>4. f[n] = g[n]
  BY <1>1, <1>2, <1>3, PicksAgree
<1>5. g[n + 1] = IF r[n + 1].type \in types THEN Append(g[n], r[n + 1]) ELSE g[n]
  <2>1. n + 1 \in 0 .. n + 1 /\ n + 1 # 0 /\ n + 1 - 1 = n /\ n + 1 \in Nat
    BY <1>1
  <2>2. ASSUME NEW i \in 0 .. n + 1
        PROVE  g[i] = IF i = 0 THEN << >>
                      ELSE IF r[i].type \in types THEN Append(g[i - 1], r[i]) ELSE g[i - 1]
    BY <1>3 DEF Picks
  <2> QED BY <1>1, <2>1, <2>2
<1> QED BY <1>1, <1>2, <1>3, <1>4, <1>5 DEF r

(* PickedType: what is picked are fields of the types.                     *)
LEMMA PickedType ==
  ASSUME NEW S, NEW types
  PROVE  \A s \in Seq(S) : OfTypes(s, types) \in Seq({x \in S : x.type \in types})
<1> DEFINE Of == {x \in S : x.type \in types}
           P == {s \in Seq(S) : OfTypes(s, types) \in Seq(Of)}
<1>1. << >> \in P
  <2>1. << >> \in Seq(S)
    OBVIOUS
  <2>2. << >> \in Seq(Of)
    <3> HIDE DEF Of
    <3> QED OBVIOUS
  <2> QED BY <2>1, <2>2, PickedEmpty
<1>2. ASSUME NEW s \in Seq(S), NEW x \in S, s \in P PROVE Append(s, x) \in P
  <2>1. OfTypes(Append(s, x), types) =
          IF x.type \in types THEN Append(OfTypes(s, types), x) ELSE OfTypes(s, types)
    BY PickedAppend
  <2>2. OfTypes(s, types) \in Seq(Of) /\ (x.type \in types => x \in Of)
    BY <1>2
  <2> HIDE DEF Of
  <2>3. OfTypes(Append(s, x), types) \in Seq(Of)
    BY <2>1, <2>2
  <2> QED BY <2>3
<1>3. Seq(S) \subseteq P
  <2> HIDE DEF P
  <2> QED BY <1>1, <1>2, BySequences
<1> QED BY <1>3

(* PickedOf: what is picked of s is in s, and has one of the types.        *)
LEMMA PickedOf ==
  ASSUME NEW S, NEW s \in Seq(S), NEW types
  PROVE  /\ OfTypes(s, types) \in Seq(S)
         /\ \A i \in DOMAIN OfTypes(s, types) :
              /\ OfTypes(s, types)[i].type \in types
              /\ \E j \in DOMAIN s : OfTypes(s, types)[i] = s[j]
<1> DEFINE R == {s[j] : j \in DOMAIN s}
           Of == {x \in R : x.type \in types}
<1>1. s \in Seq(R)
  OBVIOUS
<1>2. OfTypes(s, types) \in Seq(Of)
  <2> HIDE DEF R
  <2> QED BY <1>1, PickedType
<1>3. Of \subseteq S
  OBVIOUS
<1>4. OfTypes(s, types) \in Seq(S)
  <2> HIDE DEF Of
  <2> QED BY <1>2, <1>3, SeqMonotonic
<1>5. \A i \in DOMAIN OfTypes(s, types) : OfTypes(s, types)[i] \in Of
  <2> HIDE DEF Of
  <2> QED BY <1>2
<1> QED BY <1>4, <1>5

(* PickedHas: a field of the types is picked.                              *)
LEMMA PickedHas ==
  ASSUME NEW S, NEW types
  PROVE  \A s \in Seq(S) : \A j \in DOMAIN s :
           s[j].type \in types =>
             \E i \in DOMAIN OfTypes(s, types) : OfTypes(s, types)[i] = s[j]
<1> DEFINE Has(s) == \A j \in DOMAIN s :
             s[j].type \in types =>
               \E i \in DOMAIN OfTypes(s, types) : OfTypes(s, types)[i] = s[j]
           P == {s \in Seq(S) : Has(s)}
<1>1. << >> \in P
  OBVIOUS
<1>2. ASSUME NEW s \in Seq(S), NEW x \in S, s \in P PROVE Append(s, x) \in P
  <2> DEFINE r == Append(s, x)
             p == OfTypes(s, types)
             q == OfTypes(r, types)
  <2>1. q = IF x.type \in types THEN Append(p, x) ELSE p
    BY PickedAppend
  <2>2. p \in Seq(S)
    BY PickedOf
  <2>3. r \in Seq(S) /\ DOMAIN r = (DOMAIN s) \cup {Len(s) + 1} /\ r[Len(s) + 1] = x
        /\ \A j \in DOMAIN s : r[j] = s[j]
    OBVIOUS
  <2>4. Has(s)
    BY <1>2
  <2> HIDE DEF r, p, q
  <2>5. \A i \in DOMAIN p : i \in DOMAIN q /\ q[i] = p[i]
    BY <2>1, <2>2
  <2>6. x.type \in types => Len(p) + 1 \in DOMAIN q /\ q[Len(p) + 1] = x
    BY <2>1, <2>2
  <2>7. ASSUME NEW j \in DOMAIN r, r[j].type \in types PROVE \E i \in DOMAIN q : q[i] = r[j]
    <3>1. CASE j \in DOMAIN s
      <4>1. \E i \in DOMAIN p : p[i] = s[j]
        BY <2>3, <2>4, <2>7, <3>1 DEF p
      <4> QED BY <2>3, <2>5, <3>1, <4>1
    <3>2. CASE j = Len(s) + 1
      BY <2>3, <2>6, <2>7, <3>2
    <3> QED BY <2>3, <3>1, <3>2
  <2> QED BY <2>3, <2>7 DEF q, r
<1>3. Seq(S) \subseteq P
  <2> HIDE DEF P
  <2> QED BY <1>1, <1>2, BySequences
<1> QED BY <1>3

(* PickedConcat: of two extras put together, the fields of both.           *)
LEMMA PickedConcat ==
  ASSUME NEW S, NEW s \in Seq(S), NEW types
  PROVE  \A r \in Seq(S) : OfTypes(s \o r, types) = OfTypes(s, types) \o OfTypes(r, types)
<1> DEFINE P == {r \in Seq(S) : OfTypes(s \o r, types) = OfTypes(s, types) \o OfTypes(r, types)}
<1>0. OfTypes(s, types) \in Seq(S)
  BY PickedOf
<1>1. << >> \in P
  <2>1. s \o << >> = s /\ OfTypes(s, types) \o << >> = OfTypes(s, types) /\ << >> \in Seq(S)
    BY <1>0, ConcatEmptySeq
  <2> QED BY <2>1, PickedEmpty
<1>2. ASSUME NEW r \in Seq(S), NEW x \in S, r \in P PROVE Append(r, x) \in P
  <2> DEFINE a == OfTypes(s, types)
             b == OfTypes(r, types)
  <2>1. s \o Append(r, x) = Append(s \o r, x) /\ s \o r \in Seq(S) /\ Append(r, x) \in Seq(S)
    <3>1. s \o r \in Seq(S) /\ Append(r, x) \in Seq(S)
      OBVIOUS
    <3>2. s \o Append(r, x) \in Seq(S) /\ Append(s \o r, x) \in Seq(S)
          /\ Len(s \o Append(r, x)) = Len(Append(s \o r, x))
      BY <3>1
    <3>3. \A i \in 1 .. Len(s \o Append(r, x)) : (s \o Append(r, x))[i] = Append(s \o r, x)[i]
      BY <3>1, <3>2
    <3> QED BY <3>1, <3>2, <3>3, SeqEqual
  <2>2. OfTypes(Append(s \o r, x), types) =
          IF x.type \in types THEN Append(OfTypes(s \o r, types), x) ELSE OfTypes(s \o r, types)
    <3> DEFINE t == s \o r
    <3>1. t \in Seq(S)
      BY <2>1
    <3> HIDE DEF t
    <3>2. OfTypes(Append(t, x), types) = IF x.type \in types THEN Append(OfTypes(t, types), x) ELSE OfTypes(t, types)
      BY <3>1, PickedAppend
    <3> QED BY <3>2 DEF t
  <2>3. OfTypes(Append(r, x), types) = IF x.type \in types THEN Append(b, x) ELSE b
    BY PickedAppend
  <2>4. OfTypes(s \o r, types) = a \o b
    BY <1>2
  <2>5. b \in Seq(S)
    BY PickedOf
  <2> HIDE DEF a, b
  <2>6. Append(a \o b, x) = a \o Append(b, x)
    <3>1. a \in Seq(S)
      BY <1>0 DEF a
    <3>2. a \o Append(b, x) \in Seq(S) /\ Append(a \o b, x) \in Seq(S)
          /\ Len(a \o Append(b, x)) = Len(Append(a \o b, x))
      BY <3>1, <2>5
    <3>3. \A i \in 1 .. Len(a \o Append(b, x)) : (a \o Append(b, x))[i] = Append(a \o b, x)[i]
      BY <3>1, <2>5, <3>2
    <3> QED BY <3>2, <3>3, SeqEqual
  <2>7. OfTypes(s \o Append(r, x), types) = a \o OfTypes(Append(r, x), types)
    BY <2>1, <2>2, <2>3, <2>4, <2>6
  <2> QED BY <2>1, <2>7 DEF a
<1>3. Seq(S) \subseteq P
  <2> HIDE DEF P
  <2> QED BY <1>1, <1>2, BySequences
<1> QED BY <1>3

(* PickedAll: where all fields are of the types, or none, all are picked,  *)
(* or none.                                                                *)
LEMMA PickedAll ==
  ASSUME NEW S, NEW types
  PROVE  \A s \in Seq(S) :
           /\ (\A i \in DOMAIN s : s[i].type \in types) => OfTypes(s, types) = s
           /\ (\A i \in DOMAIN s : s[i].type \notin types) => OfTypes(s, types) = << >>
<1> DEFINE All(s) == (\A i \in DOMAIN s : s[i].type \in types) => OfTypes(s, types) = s
           None(s) == (\A i \in DOMAIN s : s[i].type \notin types) => OfTypes(s, types) = << >>
           P == {s \in Seq(S) : All(s) /\ None(s)}
<1>1. << >> \in P
  <2>1. << >> \in Seq(S)
    OBVIOUS
  <2> QED BY <2>1, PickedEmpty
<1>2. ASSUME NEW s \in Seq(S), NEW x \in S, s \in P PROVE Append(s, x) \in P
  <2> DEFINE r == Append(s, x)
  <2>1. OfTypes(r, types) = IF x.type \in types THEN Append(OfTypes(s, types), x) ELSE OfTypes(s, types)
    BY PickedAppend
  <2>2. r \in Seq(S) /\ DOMAIN r = (DOMAIN s) \cup {Len(s) + 1} /\ r[Len(s) + 1] = x
        /\ \A j \in DOMAIN s : r[j] = s[j]
    OBVIOUS
  <2>3. All(s) /\ None(s)
    BY <1>2
  <2>4. r = Append(s, x)
    OBVIOUS
  <2> HIDE DEF r
  <2>5. All(r)
    BY <2>1, <2>2, <2>3, <2>4
  <2>6. None(r)
    BY <2>1, <2>2, <2>3
  <2> QED BY <2>2, <2>5, <2>6 DEF r
<1>3. Seq(S) \subseteq P
  <2> HIDE DEF P
  <2> QED BY <1>1, <1>2, BySequences
<1> QED BY <1>3

(* PickedTwice: picking from what was picked.                              *)
LEMMA PickedTwice ==
  ASSUME NEW S, NEW types, NEW others
  PROVE  \A s \in Seq(S) : OfTypes(OfTypes(s, types), others) = OfTypes(s, types \cap others)
<1> DEFINE P == {s \in Seq(S) : OfTypes(OfTypes(s, types), others) = OfTypes(s, types \cap others)}
<1>1. << >> \in P
  <2>1. << >> \in Seq(S)
    OBVIOUS
  <2> QED BY <2>1, PickedEmpty
<1>2. ASSUME NEW s \in Seq(S), NEW x \in S, s \in P PROVE Append(s, x) \in P
  <2>1. OfTypes(Append(s, x), types) = IF x.type \in types THEN Append(OfTypes(s, types), x) ELSE OfTypes(s, types)
    BY PickedAppend
  <2>2. OfTypes(Append(s, x), types \cap others) =
          IF x.type \in types \cap others THEN Append(OfTypes(s, types \cap others), x)
          ELSE OfTypes(s, types \cap others)
    BY PickedAppend
  <2>3. OfTypes(s, types) \in Seq(S)
    BY PickedOf
  <2>4. OfTypes(Append(OfTypes(s, types), x), others) =
          IF x.type \in others THEN Append(OfTypes(OfTypes(s, types), others), x)
          ELSE OfTypes(OfTypes(s, types), others)
    BY <2>3, PickedAppend
  <2>5. Append(s, x) \in Seq(S)
    OBVIOUS
  <2> DEFINE a == OfTypes(s, types)
             both == OfTypes(s, types \cap others)
  <2>6. OfTypes(a, others) = both
    BY <1>2
  <2> HIDE DEF a, both
  <2>7. CASE x.type \in types
    <3>1. OfTypes(OfTypes(Append(s, x), types), others) = OfTypes(Append(a, x), others)
      BY <2>1, <2>7 DEF a
    <3>2. OfTypes(Append(a, x), others) = IF x.type \in others THEN Append(both, x) ELSE both
      BY <2>4, <2>6 DEF a
    <3>3. OfTypes(Append(s, x), types \cap others) = IF x.type \in others THEN Append(both, x) ELSE both
      BY <2>2, <2>7 DEF both
    <3> QED BY <2>5, <3>1, <3>2, <3>3
  <2>8. CASE x.type \notin types
    <3>1. OfTypes(OfTypes(Append(s, x), types), others) = OfTypes(a, others)
      BY <2>1, <2>8 DEF a
    <3>2. OfTypes(Append(s, x), types \cap others) = both
      BY <2>2, <2>8 DEF both
    <3> QED BY <2>5, <2>6, <3>1, <3>2
  <2> QED BY <2>7, <2>8
<1>3. Seq(S) \subseteq P
  <2> HIDE DEF P
  <2> QED BY <1>1, <1>2, BySequences
<1> QED BY <1>3

-----------------------------------------------------------------------------
(* Parsing, which succeeds when every field decodes. *)
Whole(s) == \A i \in DOMAIN s : Deserialises(s, i)

(* ParsesWhole: what parse_tx_extra answers, and what it leaves when it    *)
(* succeeds.                                                               *)
LEMMA ParsesWhole ==
  ASSUME NEW S, NEW s \in Seq(S)
  PROVE  /\ parse_tx_extra(s) <=> Whole(s)
         /\ parse_tx_extra(s) => tx_extra_fields(s) = s /\ SubSeq(s, Processed(s) + 1, Len(s)) = << >>
<1> DEFINE Stops(n) == /\ \A i \in 1 .. n : Deserialises(s, i)
                       /\ n < Len(s) => ~Deserialises(s, n + 1)
<1>1. Len(s) \in Nat /\ DOMAIN s = 1 .. Len(s)
  OBVIOUS
<1>2. \E n \in 0 .. Len(s) : Stops(n)
  <2>1. CASE Whole(s)
    <3>1. Stops(Len(s))
      BY <1>1, <2>1 DEF Whole
    <3> QED BY <1>1, <3>1
  <2>2. CASE ~Whole(s)
    <3> DEFINE T == {i \in 1 .. Len(s) : ~Deserialises(s, i)}
    <3>1. T \subseteq 1 .. Len(s) /\ T # {}
      BY <1>1, <2>2 DEF Whole
    <3>2. PICK x \in T : \A y \in T : x <= y
      <4> HIDE DEF T
      <4> QED BY <1>1, <3>1, LeastIndex
    <3>3. x - 1 \in 0 .. Len(s) /\ x - 1 + 1 = x /\ x \in 1 .. Len(s)
      BY <1>1, <3>2
    <3>4. ASSUME NEW i \in 1 .. x - 1 PROVE Deserialises(s, i)
      <4>1. i \in 1 .. Len(s) /\ ~(x <= i)
        BY <1>1, <3>3
      <4> QED BY <3>2, <4>1
    <3>5. Stops(x - 1)
      BY <3>2, <3>3, <3>4
    <3> QED BY <3>3, <3>5
  <2> QED BY <2>1, <2>2
<1>3. Processed(s) \in 0 .. Len(s) /\ Stops(Processed(s))
  BY <1>2 DEF Processed
<1>4. parse_tx_extra(s) <=> Whole(s)
  <2>1. ASSUME parse_tx_extra(s) PROVE Whole(s)
    BY <1>1, <1>3, <2>1 DEF parse_tx_extra, Whole
  <2>2. ASSUME Whole(s) PROVE parse_tx_extra(s)
    <3>1. ~(Processed(s) < Len(s))
      <4> DEFINE n == Processed(s)
      <4>1. n \in 0 .. Len(s) /\ (n < Len(s) => ~Deserialises(s, n + 1))
        BY <1>3
      <4> HIDE DEF n
      <4>2. n < Len(s) => n + 1 \in 1 .. Len(s)
        BY <1>1, <4>1
      <4>3. ~(n < Len(s))
        BY <1>1, <2>2, <4>1, <4>2 DEF Whole
      <4> QED BY <4>3 DEF n
    <3> QED BY <1>1, <1>3, <3>1 DEF parse_tx_extra
  <2> QED BY <2>1, <2>2
<1>5. parse_tx_extra(s) => tx_extra_fields(s) = s
  BY SubSeqFull DEF parse_tx_extra, tx_extra_fields
<1>6. parse_tx_extra(s) => SubSeq(s, Processed(s) + 1, Len(s)) = << >>
  <2>1. Len(s) + 1 \in Int /\ Len(s) \in Int /\ Len(s) < Len(s) + 1
    BY <1>1
  <2> QED BY <2>1, SubSeqEmpty DEF parse_tx_extra
<1> QED BY <1>4, <1>5, <1>6

(* ParsesFront: before a field that was appended everything decodes, and   *)
(* is no padding.                                                          *)
LEMMA ParsesFront ==
  ASSUME NEW S, NEW s \in Seq(S), NEW x \in S
  PROVE  parse_tx_extra(Append(s, x)) <=>
           /\ parse_tx_extra(s)
           /\ \A i \in DOMAIN s : s[i].type # "padding"
           /\ x.type # "junk"
<1> DEFINE r == Append(s, x)
<1>1. r \in Seq(S) /\ Len(r) = Len(s) + 1 /\ r[Len(s) + 1] = x /\ \A i \in 1 .. Len(s) : r[i] = s[i]
  OBVIOUS
<1>2. Len(s) \in Nat /\ DOMAIN s = 1 .. Len(s) /\ DOMAIN r = 1 .. Len(s) + 1
  OBVIOUS
<1> HIDE DEF r
<1>3. ASSUME Whole(r)
      PROVE  Whole(s) /\ (\A i \in DOMAIN s : s[i].type # "padding") /\ x.type # "junk"
  <2>1. ASSUME NEW i \in 1 .. Len(s) PROVE s[i].type # "junk" /\ s[i].type # "padding"
    <3>1. i \in DOMAIN r /\ i # Len(r) /\ r[i] = s[i]
      BY <1>1, <1>2
    <3> QED BY <1>3, <3>1 DEF Whole, Deserialises
  <2>2. x.type # "junk"
    BY <1>1, <1>2, <1>3 DEF Whole, Deserialises
  <2> QED BY <1>2, <2>1, <2>2 DEF Whole, Deserialises
<1>4. ASSUME Whole(s), \A i \in DOMAIN s : s[i].type # "padding", x.type # "junk"
      PROVE  Whole(r)
  <2>1. ASSUME NEW i \in 1 .. Len(s) + 1 PROVE Deserialises(r, i)
    <3>1. CASE i \in 1 .. Len(s)
      BY <1>1, <1>2, <1>4, <3>1 DEF Whole, Deserialises
    <3>2. CASE i = Len(s) + 1
      BY <1>1, <1>4, <3>2 DEF Deserialises
    <3> QED BY <1>2, <3>1, <3>2
  <2> QED BY <1>2, <2>1 DEF Whole
<1>5. parse_tx_extra(r) <=> Whole(r)
  BY <1>1, ParsesWhole
<1>6. parse_tx_extra(s) <=> Whole(s)
  BY ParsesWhole
<1> QED BY <1>3, <1>4, <1>5, <1>6 DEF r

(* FieldPicked: the same of one field of one extra.                        *)
LEMMA FieldPicked ==
  ASSUME NEW S, NEW s \in Seq(S), NEW types, NEW j \in DOMAIN s, s[j].type \in types
  PROVE  \E i \in DOMAIN OfTypes(s, types) : OfTypes(s, types)[i] = s[j]
BY PickedHas

(* NoPadding: a field appends to an extra that decodes and has no padding. *)
LEMMA NoPadding ==
  ASSUME NEW S, NEW s \in Seq(S), parse_tx_extra(s), OfType(s, "padding") = << >>,
         NEW x \in S, x.type # "junk"
  PROVE  parse_tx_extra(Append(s, x))
<1>1. ASSUME NEW T, NEW j \in DOMAIN s, s[j].type \in T
      PROVE  \E i \in DOMAIN OfTypes(s, T) : OfTypes(s, T)[i] = s[j]
  BY <1>1, FieldPicked
<1>2. OfTypes(s, {"padding"}) = << >> /\ DOMAIN << >> = {}
  BY DEF OfType
<1>3. ASSUME NEW j \in DOMAIN s, s[j].type = "padding" PROVE FALSE
  <2>1. s[j].type \in {"padding"}
    BY <1>3
  <2> QED BY <1>1, <1>2, <2>1
<1> QED BY <1>3, ParsesFront

(* ParsesPicked: what was picked of an extra that decodes does so as well. *)
LEMMA ParsesPicked ==
  ASSUME NEW S, NEW s \in Seq(S), NEW types, parse_tx_extra(s)
  PROVE  parse_tx_extra(OfTypes(s, types))
<1>1. CASE s = << >>
  BY <1>1, PickedEmpty
<1>2. CASE s # << >>
  <2>1. PICK r \in Seq(S), x \in S : s = Append(r, x)
    BY <1>2, WithoutLast
  <2>2. parse_tx_extra(r) /\ (\A i \in DOMAIN r : r[i].type # "padding") /\ x.type # "junk"
    BY <2>1, ParsesFront
  <2>3. \A i \in DOMAIN r : r[i].type # "junk"
    BY <2>2, ParsesWhole DEF Whole, Deserialises
  <2> DEFINE p == OfTypes(r, types)
  <2>4. p \in Seq(S) /\ \A i \in DOMAIN p : p[i].type # "padding" /\ p[i].type # "junk"
    <3>1. p \in Seq(S) /\ \A i \in DOMAIN p : \E j \in DOMAIN r : p[i] = r[j]
      BY PickedOf
    <3> QED BY <2>2, <2>3, <3>1
  <2> HIDE DEF p
  <2>5. parse_tx_extra(p)
    BY <2>4, ParsesWhole DEF Whole, Deserialises
  <2>6. parse_tx_extra(Append(p, x))
    BY <2>2, <2>4, <2>5, ParsesFront
  <2>7. OfTypes(s, types) = IF x.type \in types THEN Append(p, x) ELSE p
    BY <2>1, PickedAppend DEF p
  <2> QED BY <2>5, <2>6, <2>7
<1> QED BY <1>1, <1>2

(* PaddingIsLast: an extra that decodes has at most one padding.           *)
LEMMA PaddingIsLast ==
  ASSUME NEW S, NEW s \in Seq(S), parse_tx_extra(s)
  PROVE  OfType(s, "padding") \in Seq(S) /\ Len(OfType(s, "padding")) <= 1
<1> DEFINE none == << >>
<1>0. none \in Seq(S) /\ Len(none) = 0
  BY EmptySeq
<1> HIDE DEF none
<1>1. CASE s = << >>
  <2>1. OfType(s, "padding") = none
    BY <1>1, PickedEmpty DEF OfType, none
  <2> DEFINE p == OfType(s, "padding")
  <2>2. p = none
    BY <2>1
  <2> HIDE DEF p
  <2>3. p \in Seq(S) /\ Len(p) <= 1
    BY <1>0, <2>2
  <2> QED BY <2>3 DEF p
<1>2. CASE s # << >>
  <2>1. PICK r \in Seq(S), x \in S : s = Append(r, x)
    BY <1>2, WithoutLast
  <2>2. \A i \in DOMAIN r : r[i].type \notin {"padding"}
    BY <2>1, ParsesFront
  <2>3. OfType(r, "padding") = none
    BY <2>2, PickedAll DEF OfType, none
  <2>4. OfType(s, "padding") = IF x.type = "padding" THEN Append(none, x) ELSE none
    BY <2>1, <2>3, PickedAppend DEF OfType
  <2>5. Append(none, x) \in Seq(S) /\ Len(Append(none, x)) <= 1
    BY <1>0
  <2>6. OfType(s, "padding") \in {none, Append(none, x)}
    BY <2>4
  <2> DEFINE p == OfType(s, "padding")
             one == Append(none, x)
  <2>7. p = none \/ p = one
    BY <2>6
  <2>8. one \in Seq(S) /\ Len(one) <= 1
    BY <2>5
  <2> HIDE DEF p, one
  <2>9. CASE p = none
    <3>1. p \in Seq(S) /\ Len(p) <= 1
      BY <1>0, <2>9
    <3> QED BY <3>1 DEF p
  <2>10. CASE p = one
    <3>1. p \in Seq(S) /\ Len(p) <= 1
      BY <2>8, <2>10
    <3> QED BY <3>1 DEF p
  <2> QED BY <2>7, <2>9, <2>10
<1> QED BY <1>1, <1>2

-----------------------------------------------------------------------------
(* RemoveKeeps: a removal keeps the fields of every other type, and an     *)
(* extra that decodes still does.                                          *)
LEMMA RemoveKeeps ==
  ASSUME NEW S, NEW s \in Seq(S), NEW type, NEW other \in FieldTypes, other # type
  PROVE  /\ remove_field_from_tx_extra(s, type) \in Seq(S)
         /\ OfType(remove_field_from_tx_extra(s, type), other) = OfType(s, other)
         /\ parse_tx_extra(remove_field_from_tx_extra(s, type)) <=> parse_tx_extra(s)
<1> DEFINE rest == OfTypes(s, FieldTypes \ {type})
<1>1. rest \in Seq(S)
  BY PickedOf
<1>2. OfTypes(rest, {other}) = OfTypes(s, {other})
  <2>1. (FieldTypes \ {type}) \cap {other} = {other}
    OBVIOUS
  <2>2. OfTypes(OfTypes(s, FieldTypes \ {type}), {other}) = OfTypes(s, (FieldTypes \ {type}) \cap {other})
    BY PickedTwice
  <2> QED BY <2>1, <2>2
<1>3. parse_tx_extra(s) => parse_tx_extra(rest)
  BY ParsesPicked
<1>4. remove_field_from_tx_extra(s, type) = IF parse_tx_extra(s) THEN rest ELSE s
  BY DEF remove_field_from_tx_extra
<1> HIDE DEF rest
<1>5. CASE parse_tx_extra(s)
  BY <1>1, <1>2, <1>3, <1>4, <1>5 DEF OfType
<1>6. CASE ~parse_tx_extra(s)
  BY <1>4, <1>6
<1> QED BY <1>5, <1>6

(* RemoveDrops: of an extra that decodes a removal leaves no field of the  *)
(* type.                                                                   *)
LEMMA RemoveDrops ==
  ASSUME NEW S, NEW s \in Seq(S), NEW type, parse_tx_extra(s)
  PROVE  OfType(remove_field_from_tx_extra(s, type), type) = << >>
<1>1. (FieldTypes \ {type}) \cap {type} = {}
  OBVIOUS
<1>2. OfTypes(OfTypes(s, FieldTypes \ {type}), {type}) = OfTypes(s, (FieldTypes \ {type}) \cap {type})
  BY PickedTwice
<1>3. OfTypes(s, {}) = << >>
  BY PickedAll
<1>4. remove_field_from_tx_extra(s, type) = OfTypes(s, FieldTypes \ {type})
  BY DEF remove_field_from_tx_extra
<1> QED BY <1>1, <1>2, <1>3, <1>4 DEF OfType

(* AppendKeeps: a field that is appended is the last of its type, and      *)
(* nothing to the other types.                                             *)
LEMMA AppendKeeps ==
  ASSUME NEW S, NEW s \in Seq(S), NEW x \in S, NEW type
  PROVE  OfType(Append(s, x), type) =
           IF x.type = type THEN Append(OfType(s, type), x) ELSE OfType(s, type)
BY PickedAppend DEF OfType

-----------------------------------------------------------------------------
(* The sort.  What it picks of an extra, one type after the other. *)
Grouped(p)            == p[1] \o p[2] \o p[3] \o p[4] \o p[5] \o p[6]
Groups(p, S)          == \A k \in 1 .. 6 : p[k] \in Seq(S)
Picked(q, p, types)   == \A k \in 1 .. 6 : q[k] = OfTypes(p[k], types)

(* SortedIs: what sort_tx_extra makes of an extra that decodes.            *)
LEMMA SortedIs ==
  ASSUME NEW S, NEW s \in Seq(S), parse_tx_extra(s)
  PROVE  sort_tx_extra(s) = Grouped([k \in 1 .. 6 |-> OfType(s, FieldOrder[k])])
<1> DEFINE p == [k \in 1 .. 6 |-> OfType(s, FieldOrder[k])]
<1>1. tx_extra_fields(s) = s /\ SubSeq(s, Processed(s) + 1, Len(s)) = << >>
  BY ParsesWhole
<1>2. \A k \in 1 .. 6 : p[k] \in Seq(S) /\ p[k] = OfType(s, FieldOrder[k])
  BY PickedOf DEF OfType
<1>3. sort_tx_extra(s) = p[1] \o p[2] \o p[3] \o p[4] \o p[5] \o p[6] \o << >>
  <2> DEFINE Pick(k) == OfType(tx_extra_fields(s), FieldOrder[k])
             rest == SubSeq(s, Processed(s) + 1, Len(s))
  <2>1. sort_tx_extra(s) = Pick(1) \o Pick(2) \o Pick(3) \o Pick(4) \o Pick(5) \o Pick(6) \o rest
    BY DEF sort_tx_extra
  <2>2. \A k \in 1 .. 6 : Pick(k) = p[k]
    BY <1>1
  <2>3. rest = << >>
    BY <1>1
  <2> HIDE DEF Pick, p, rest
  <2>4. Pick(1) = p[1] /\ Pick(2) = p[2] /\ Pick(3) = p[3] /\ Pick(4) = p[4] /\ Pick(5) = p[5]
        /\ Pick(6) = p[6]
    BY <2>2
  <2> QED BY <2>1, <2>3, <2>4
<1> HIDE DEF p
<1>4. p[1] \o p[2] \o p[3] \o p[4] \o p[5] \o p[6] \in Seq(S)
  <2>1. p[1] \o p[2] \o p[3] \in Seq(S)
    BY <1>2
  <2> QED BY <1>2, <2>1
<1>5. sort_tx_extra(s) = Grouped(p)
  BY <1>3, <1>4, ConcatEmptySeq DEF Grouped
<1> QED BY <1>5 DEF p

(* PickedGrouped: what is picked of groups is picked group by group.       *)
LEMMA PickedGrouped ==
  ASSUME NEW S, NEW p, Groups(p, S), NEW types, NEW q, Picked(q, p, types)
  PROVE  Grouped(p) \in Seq(S) /\ OfTypes(Grouped(p), types) = Grouped(q)
<1> DEFINE q2 == p[1] \o p[2]
           q3 == q2 \o p[3]
           q4 == q3 \o p[4]
           q5 == q4 \o p[5]
           q6 == q5 \o p[6]
           Of(s) == OfTypes(s, types)
<1>1. p[1] \in Seq(S) /\ p[2] \in Seq(S) /\ p[3] \in Seq(S) /\ p[4] \in Seq(S)
      /\ p[5] \in Seq(S) /\ p[6] \in Seq(S)
  BY DEF Groups
<1>2. \A a, b \in Seq(S) : a \o b \in Seq(S) /\ Of(a \o b) = Of(a) \o Of(b)
  <2> SUFFICES ASSUME NEW a \in Seq(S), NEW b \in Seq(S)
               PROVE  a \o b \in Seq(S) /\ Of(a \o b) = Of(a) \o Of(b)
    OBVIOUS
  <2>1. a \o b \in Seq(S)
    OBVIOUS
  <2> QED BY <2>1, PickedConcat
<1> HIDE DEF Of
<1>3. q2 \in Seq(S) /\ Of(q2) = Of(p[1]) \o Of(p[2])
  BY <1>1, <1>2
<1> HIDE DEF q2
<1>4. q3 \in Seq(S) /\ Of(q3) = Of(q2) \o Of(p[3])
  BY <1>1, <1>2, <1>3
<1> HIDE DEF q3
<1>5. q4 \in Seq(S) /\ Of(q4) = Of(q3) \o Of(p[4])
  BY <1>1, <1>2, <1>4
<1> HIDE DEF q4
<1>6. q5 \in Seq(S) /\ Of(q5) = Of(q4) \o Of(p[5])
  BY <1>1, <1>2, <1>5
<1> HIDE DEF q5
<1>7. q6 \in Seq(S) /\ Of(q6) = Of(q5) \o Of(p[6])
  BY <1>1, <1>2, <1>6
<1> HIDE DEF q6
<1>8. Grouped(p) = q6
  BY DEF q2, q3, q4, q5, q6, Grouped
<1>9. /\ q[1] = Of(p[1]) /\ q[2] = Of(p[2]) /\ q[3] = Of(p[3])
      /\ q[4] = Of(p[4]) /\ q[5] = Of(p[5]) /\ q[6] = Of(p[6])
  BY DEF Of, Picked
<1>10. Grouped(q) = Of(q6)
  BY <1>3, <1>4, <1>5, <1>6, <1>7, <1>9 DEF Grouped
<1>11. OfTypes(Grouped(p), types) = Grouped(q)
  BY <1>8, <1>10 DEF Of
<1> QED BY <1>7, <1>8, <1>11

(* SortKeeps: the sort keeps the fields of every type, in the order they   *)
(* had.                                                                    *)
THEOREM SortKeeps ==
  ASSUME NEW S, NEW s \in Seq(S), parse_tx_extra(s), NEW type \in FieldTypes
  PROVE  sort_tx_extra(s) \in Seq(S) /\ OfType(sort_tx_extra(s), type) = OfType(s, type)
<1> DEFINE p == [k \in 1 .. 6 |-> OfType(s, FieldOrder[k])]
           q == [k \in 1 .. 6 |-> OfTypes(p[k], {type})]
<1>1. sort_tx_extra(s) = Grouped(p)
  BY SortedIs
<1>2. \A k \in 1 .. 6 : p[k] \in Seq(S)
  BY PickedOf DEF OfType
<1>3. Grouped(p) \in Seq(S) /\ OfTypes(Grouped(p), {type}) = Grouped(q)
  <2>1. Picked(q, p, {type})
    BY DEF Picked
  <2>2. Groups(p, S)
    BY <1>2 DEF Groups
  <2> HIDE DEF p, q
  <2> QED BY <2>1, <2>2, PickedGrouped
<1>4. ASSUME NEW k \in 1 .. 6
      PROVE  q[k] = IF FieldOrder[k] = type THEN OfType(s, type) ELSE << >>
  <2>1. q[k] = OfTypes(s, {FieldOrder[k]} \cap {type})
    <3>1. q[k] = OfTypes(OfTypes(s, {FieldOrder[k]}), {type})
      BY DEF OfType
    <3>2. \A T1, T2 : OfTypes(OfTypes(s, T1), T2) = OfTypes(s, T1 \cap T2)
      BY PickedTwice
    <3> HIDE DEF q
    <3> QED BY <3>1, <3>2, Zenon
  <2>2. CASE FieldOrder[k] = type
    <3>1. {FieldOrder[k]} \cap {type} = {type}
      BY <2>2
    <3> HIDE DEF q
    <3> QED BY <2>1, <2>2, <3>1 DEF OfType
  <2>3. CASE FieldOrder[k] # type
    <3>1. {FieldOrder[k]} \cap {type} = {}
      BY <2>3
    <3>2. OfTypes(s, {}) = << >>
      BY PickedAll
    <3> HIDE DEF q
    <3> QED BY <2>1, <2>3, <3>1, <3>2
  <2> QED BY <2>2, <2>3
<1>5. OfType(s, type) \in Seq(S)
  BY PickedOf DEF OfType
<1>6. \A a \in Seq(S) : a \o << >> = a /\ << >> \o a = a
  BY ConcatEmptySeq
<1>7. << >> \in Seq(S)
  OBVIOUS
<1> DEFINE a == OfType(s, type)
<1> HIDE DEF p, q, a
<1>8. Grouped(q) = a
  <2>1. FieldOrder[1] = "pub_key" /\ FieldOrder[2] = "additional_pub_keys" /\ FieldOrder[3] = "nonce"
        /\ FieldOrder[4] = "merge_mining_tag" /\ FieldOrder[5] = "minergate" /\ FieldOrder[6] = "padding"
    BY DEF FieldOrder
  <2>2. type \in {FieldOrder[1], FieldOrder[2], FieldOrder[3], FieldOrder[4], FieldOrder[5], FieldOrder[6]}
    <3>1. DOMAIN FieldOrder = 1 .. 6
      BY DEF FieldOrder
    <3> QED BY <3>1 DEF FieldTypes
  <2>3. \A k \in 1 .. 6 : q[k] = IF FieldOrder[k] = type THEN a ELSE << >>
    BY <1>4 DEF a
  <2>4. /\ q[1] = IF type = "pub_key" THEN a ELSE << >>
        /\ q[2] = IF type = "additional_pub_keys" THEN a ELSE << >>
        /\ q[3] = IF type = "nonce" THEN a ELSE << >>
        /\ q[4] = IF type = "merge_mining_tag" THEN a ELSE << >>
        /\ q[5] = IF type = "minergate" THEN a ELSE << >>
        /\ q[6] = IF type = "padding" THEN a ELSE << >>
    BY <2>1, <2>3
  <2>5. a \in Seq(S)
    BY <1>5 DEF a
  <2>6. << >> \o << >> = << >> /\ a \o << >> = a /\ << >> \o a = a
    BY <1>6, <1>7, <2>5
  <2>7. type \in {"pub_key", "additional_pub_keys", "nonce", "merge_mining_tag", "minergate", "padding"}
    BY <2>1, <2>2
  <2>8. CASE type = "pub_key"
    BY <2>4, <2>6, <2>8 DEF Grouped
  <2>9. CASE type = "additional_pub_keys"
    BY <2>4, <2>6, <2>9 DEF Grouped
  <2>10. CASE type = "nonce"
    BY <2>4, <2>6, <2>10 DEF Grouped
  <2>11. CASE type = "merge_mining_tag"
    BY <2>4, <2>6, <2>11 DEF Grouped
  <2>12. CASE type = "minergate"
    BY <2>4, <2>6, <2>12 DEF Grouped
  <2>13. CASE type = "padding"
    BY <2>4, <2>6, <2>13 DEF Grouped
  <2> QED BY <2>7, <2>8, <2>9, <2>10, <2>11, <2>12, <2>13
<1> QED BY <1>1, <1>3, <1>8 DEF OfType, a

(* SortParses: an extra that decodes does so after the sort, which puts    *)
(* its padding last.                                                       *)
LEMMA SortParses ==
  ASSUME NEW S, NEW s \in Seq(S), parse_tx_extra(s)
  PROVE  parse_tx_extra(sort_tx_extra(s))
<1> DEFINE R == {x \in S : x.type # "padding" /\ x.type # "junk"}
           p == [k \in 1 .. 6 |-> OfType(s, FieldOrder[k])]
           front == p[1] \o p[2] \o p[3] \o p[4] \o p[5]
<1>1. sort_tx_extra(s) = front \o p[6]
  BY SortedIs DEF Grouped
<1>2. p[1] \in Seq(R) /\ p[2] \in Seq(R) /\ p[3] \in Seq(R) /\ p[4] \in Seq(R) /\ p[5] \in Seq(R)
  <2>1. ASSUME NEW t, t # "padding", t # "junk" PROVE OfType(s, t) \in Seq(R)
    <3> DEFINE T == {x \in S : x.type \in {t}}
    <3>1. OfType(s, t) \in Seq(T) /\ T \subseteq R
      BY <2>1, PickedType DEF OfType
    <3> HIDE DEF T, R
    <3> QED BY <3>1, SeqMonotonic
  <2> HIDE DEF R
  <2>2. \A k \in 1 .. 5 : FieldOrder[k] # "padding" /\ FieldOrder[k] # "junk"
    BY DEF FieldOrder
  <2> QED BY <2>1, <2>2
<1>3. front \in Seq(R)
  <2> HIDE DEF R, p
  <2>1. p[1] \o p[2] \o p[3] \in Seq(R)
    BY <1>2
  <2> QED BY <1>2, <2>1
<1>4. R \subseteq S /\ front \in Seq(S)
  <2>1. R \subseteq S
    OBVIOUS
  <2> HIDE DEF R, front
  <2> QED BY <1>3, <2>1, SeqMonotonic
<1>5. \A i \in DOMAIN front : front[i] \in R
  <2> HIDE DEF R, front
  <2> QED BY <1>3
<1>6. parse_tx_extra(front) /\ \A i \in DOMAIN front : front[i].type # "padding"
  <2> HIDE DEF front
  <2>1. Whole(front) /\ \A i \in DOMAIN front : front[i].type # "padding"
    BY <1>5 DEF Whole, Deserialises
  <2> QED BY <1>4, <2>1, ParsesWhole
<1>7. p[6] \in Seq(S) /\ Len(p[6]) <= 1
  BY PaddingIsLast DEF FieldOrder
<1>8. \A i \in DOMAIN p[6] : p[6][i].type # "junk"
  <2>1. p[6] = OfTypes(s, {"padding"})
    <3>1. FieldOrder[6] = "padding" /\ p[6] = OfType(s, FieldOrder[6])
      BY DEF FieldOrder
    <3> HIDE DEF p
    <3> QED BY <3>1 DEF OfType
  <2>2. \A i \in DOMAIN OfTypes(s, {"padding"}) : OfTypes(s, {"padding"})[i].type \in {"padding"}
    BY PickedOf
  <2> HIDE DEF p
  <2> QED BY <2>1, <2>2
<1> HIDE DEF front, p, R
<1>9. CASE Len(p[6]) = 0
  <2>1. p[6] = << >> /\ front \o << >> = front
    BY <1>4, <1>7, <1>9, EmptySeq, ConcatEmptySeq
  <2> QED BY <1>1, <1>6, <2>1
<1>10. CASE Len(p[6]) > 0
  <2>1. p[6][1] \in S /\ p[6][1].type # "junk"
    BY <1>7, <1>8, <1>10
  <2>2. front \o p[6] = Append(front, p[6][1])
    <3> DEFINE r == Append(front, p[6][1])
               u == front \o p[6]
    <3>1. r \in Seq(S) /\ Len(r) = Len(front) + 1
      BY <1>4, <2>1
    <3>0. u \in Seq(S) /\ Len(u) = Len(front) + 1
      <4> DEFINE last == p[6]
      <4>1. last \in Seq(S) /\ Len(last) <= 1 /\ Len(last) > 0
        BY <1>7, <1>10
      <4> HIDE DEF last
      <4>2. front \o last \in Seq(S) /\ Len(front \o last) = Len(front) + 1
        BY <1>4, <4>1
      <4> QED BY <4>2 DEF last
    <3>2. \A i \in 1 .. Len(r) : r[i] = u[i]
      BY <1>4, <1>7, <1>10, <2>1
    <3> HIDE DEF r, u
    <3>3. r = u
      BY <3>0, <3>1, <3>2, SeqEqual
    <3> QED BY <3>3 DEF r, u
  <2>3. parse_tx_extra(Append(front, p[6][1]))
    BY <1>4, <1>6, <2>1, ParsesFront
  <2>4. sort_tx_extra(s) = Append(front, p[6][1])
    BY <1>1, <2>2
  <2> QED BY <2>3, <2>4, Zenon
<1>11. Len(p[6]) = 0 \/ Len(p[6]) > 0
  <2>1. Len(p[6]) \in Nat
    BY <1>7
  <2> QED BY <2>1
<1> QED BY <1>9, <1>10, <1>11

(* SortTwice: sorting again changes nothing.                               *)
THEOREM SortTwice ==
  ASSUME NEW S, NEW s \in Seq(S), parse_tx_extra(s)
  PROVE  sort_tx_extra(sort_tx_extra(s)) = sort_tx_extra(s)
<1> DEFINE r == sort_tx_extra(s)
<1>1. "pub_key" \in FieldTypes /\ \A k \in 1 .. 6 : FieldOrder[k] \in FieldTypes
  <2>1. DOMAIN FieldOrder = 1 .. 6 /\ FieldOrder[1] = "pub_key"
    BY DEF FieldOrder
  <2> QED BY <2>1 DEF FieldTypes
<1>2. r \in Seq(S) /\ parse_tx_extra(r)
  BY <1>1, SortKeeps, SortParses
<1>3. \A k \in 1 .. 6 : OfType(r, FieldOrder[k]) = OfType(s, FieldOrder[k])
  BY <1>1, SortKeeps
<1> HIDE DEF r
<1>4. sort_tx_extra(r) = Grouped([k \in 1 .. 6 |-> OfType(r, FieldOrder[k])])
  BY <1>2, SortedIs
<1>5. [k \in 1 .. 6 |-> OfType(r, FieldOrder[k])] = [k \in 1 .. 6 |-> OfType(s, FieldOrder[k])]
  BY <1>3
<1>6. r = Grouped([k \in 1 .. 6 |-> OfType(s, FieldOrder[k])])
  BY SortedIs DEF r
<1>7. sort_tx_extra(r) = r
  BY <1>4, <1>5, <1>6
<1> QED BY <1>7 DEF r

-----------------------------------------------------------------------------
(* Points are closed under multiplication, and the named ones are points.  *)
LEMMA PointTypes ==
  /\ null_pkey \in Point /\ G \in Point /\ Identity \in Point
  /\ BadPoint \in Point /\ UnwrittenKey \in OneTimeKey
  /\ null_skey \in OneTimeSecretKey
  /\ \A P \in Point, k \in Secret :
       scalarmultKey(P, k) \in Point /\ scalarmultBase(k) \in Point
  /\ \A w \in Wallet : view_secret(w) \in Secret
  /\ \A n \in Nat : <<"tx", n>> \in Secret
BY DEF null_pkey, G, Identity, BadPoint, UnwrittenKey, null_skey, Point, Base,
       OneTimeKey, OneTimeSecretKey, Share, scalarmultKey, scalarmultBase,
       view_secret, Secret

(* A sequence of one element.                                              *)
LEMMA OneElement ==
  ASSUME NEW S, NEW x \in S
  PROVE  <<x>> \in Seq(S)
OBVIOUS

(* Reordering a sequence keeps its length and the type of its elements.    *)
LEMMA PermutedType ==
  ASSUME NEW S, NEW s \in Seq(S), NEW p \in Permutation(Len(s))
  PROVE  /\ Permuted(s, p) \in Seq(S)
         /\ Len(Permuted(s, p)) = Len(s)
         /\ \A i \in 1 .. Len(s) : p[i] \in 1 .. Len(s) /\ Permuted(s, p)[i] = s[p[i]]
BY DEF Permuted, Permutation

-----------------------------------------------------------------------------
(* What a step leaves behind for the next one: inputs are made before the  *)
(* sort and outputs after it, and from SetTxPubKey on there is a secret    *)
(* for every additional key.                                               *)
Phases ==
  /\ pc \in {"open", "extra"} => tx.vin = << >> /\ in_contexts = << >>
  /\ pc \in {"open", "extra", "inputs", "sort", "pubkey"} =>
       /\ tx.vout = << >>
       /\ keys.additional = << >> /\ keys.amount = << >>
  /\ Len(in_contexts) = Len(tx.vin)
  /\ Len(tx.vin) <= Len(sources)
  /\ pc \in {"sort", "pubkey", "outputs", "money", "sign"} =>
       Len(tx.vin) = Len(sources)
  /\ Len(tx.vout) <= Len(destinations)
  /\ (pc = "outputs" /\ need_additional_txkeys(destinations, req.change)) =>
       Len(additional_tx_keys) = Len(destinations)

IInv == TypeOK /\ Phases

(* A call starts with everything typed and no input or output made.        *)
LEMMA InitIInv == Init => IInv
<1> SUFFICES ASSUME Init PROVE IInv
  OBVIOUS
<1>1. req \in Request
  BY RequestsAssumption DEF Init
<1>2. TypeOK
  BY <1>1, PointTypes, ModulusAssumption
     DEF Init, TypeOK, EmptyTx, Request, Amount
<1>3. Phases
  BY <1>1 DEF Init, Phases, EmptyTx, Request
<1> QED BY <1>2, <1>3 DEF IInv
-----------------------------------------------------------------------------
(* The three key schemes.  A single subaddress is the first use of its     *)
(* address, and the only one there is.                                     *)
LEMMA SingleIsOne ==
  ASSUME NEW dests \in Seq(DestinationEntry), NEW change,
         SingleSubaddress(dests, change)
  PROVE  \E i \in DOMAIN dests :
            /\ FirstUses(dests, change) = {i}
            /\ dests[i].is_subaddress
            /\ single_dest_subaddress(dests, change) = dests[i].addr
<1> DEFINE F == FirstUses(dests, change)
           S == SubaddressUses(dests, change)
<1>1. F \subseteq 1 .. Len(dests) /\ S \subseteq F
  BY DEF FirstUses, SubaddressUses
<1>2. IsFiniteSet(F) /\ IsFiniteSet(S) /\ IsFiniteSet(F \ S)
  BY <1>1, FS_Interval, FS_Subset, FS_Difference
<1>3. Cardinality(S) = 1 /\ Cardinality(F \ S) = 0
  BY DEF SingleSubaddress, num_subaddresses, num_stdaddresses
<1>4. PICK i : S = {i}
  <2> HIDE DEF S
  <2> QED BY <1>2, <1>3, FS_Singleton
<1>5. F \ S = {}
  <2> HIDE DEF S, F
  <2> QED BY <1>2, <1>3, FS_EmptySet
<1>6. i \in 1 .. Len(dests) /\ F = {i}
  BY <1>1, <1>4, <1>5
<1>7. (CHOOSE x \in S : \A j \in S : j <= x) = i
  <2> HIDE DEF S
  <2> QED BY <1>4, <1>6
<1>8. single_dest_subaddress(dests, change) = dests[i].addr
  BY <1>7 DEF single_dest_subaddress
<1>9. i \in DOMAIN dests
  BY <1>6
<1>10. dests[i].is_subaddress
  BY <1>4 DEF SubaddressUses
<1> QED BY <1>6, <1>8, <1>9, <1>10

(* Every address that is paid, and is not the change, has a first use.     *)
LEMMA FirstUseExists ==
  ASSUME NEW dests \in Seq(DestinationEntry), NEW change,
         NEW i \in DOMAIN dests, dests[i].addr # change
  PROVE  \E j \in FirstUses(dests, change) : dests[j].addr = dests[i].addr
<1> DEFINE T == {j \in 1 .. Len(dests) : dests[j].addr = dests[i].addr}
<1>1. T \subseteq 1 .. Len(dests) /\ i \in T /\ Len(dests) \in Nat
  OBVIOUS
<1>2. PICK j \in T : \A k \in T : j <= k
  <2> HIDE DEF T
  <2> QED BY <1>1, LeastIndex
<1>3. j \in FirstUses(dests, change)
  BY <1>2 DEF FirstUses
<1> QED BY <1>3

(* Where no additional keys are needed, a subaddress is the only payee.    *)
LEMMA NoKeysOneSubaddress ==
  ASSUME NEW dests \in Seq(DestinationEntry), NEW change,
         ~need_additional_txkeys(dests, change),
         SubaddressUses(dests, change) # {}
  PROVE  SingleSubaddress(dests, change)
<1> DEFINE F == FirstUses(dests, change)
           S == SubaddressUses(dests, change)
<1>1. F \subseteq 1 .. Len(dests) /\ S \subseteq F
  BY DEF FirstUses, SubaddressUses
<1>2. IsFiniteSet(F) /\ IsFiniteSet(S) /\ IsFiniteSet(F \ S)
  BY <1>1, FS_Interval, FS_Subset, FS_Difference
<1>3. Cardinality(S) \in Nat /\ Cardinality(F \ S) \in Nat /\ Cardinality(S) # 0
  <2> HIDE DEF F, S
  <2> QED BY <1>2, FS_CardinalityType, FS_EmptySet DEF S
<1>4. num_subaddresses(dests, change) = Cardinality(S)
  BY DEF num_subaddresses
<1>5. num_stdaddresses(dests, change) = Cardinality(F \ S)
  BY DEF num_stdaddresses
<1> HIDE DEF F, S
<1> QED BY <1>3, <1>4, <1>5 DEF need_additional_txkeys, SingleSubaddress

-----------------------------------------------------------------------------
(* The types of what a step computes.                                      *)
LEMMA RequestTypes ==
  ASSUME TypeOK
  PROVE  req \in Request
BY RequestsAssumption DEF TypeOK

(* A destination that is looked at has an address of two points.           *)
LEMMA DestinationTypes ==
  ASSUME TypeOK, NEW i \in DOMAIN destinations
  PROVE  /\ i \in 1 .. Len(destinations)
         /\ destinations[i].addr.view \in Point
         /\ destinations[i].addr.spend \in Point
         /\ destinations[i].amount \in Amount
         /\ destinations[i].is_subaddress \in BOOLEAN
<1>1. destinations \in Seq(DestinationEntry)
  BY DEF TypeOK
<1>2. i \in 1 .. Len(destinations) /\ destinations[i] \in DestinationEntry
  BY <1>1
<1>3. destinations[i].addr \in Address
  BY <1>2 DEF DestinationEntry
<1> QED BY <1>2, <1>3 DEF DestinationEntry, Address

(* The public key of the transaction is a point, by either scheme.         *)
LEMMA TxPubKeyType ==
  ASSUME TypeOK
  PROVE  LET single == SingleSubaddress(destinations, req.change)
             D == single_dest_subaddress(destinations, req.change).spend
         IN  (IF single THEN scalarmultKey(D, tx_key) ELSE scalarmultBase(tx_key))
               \in Point
<1>1. tx_key \in Secret
  BY PointTypes DEF tx_key
<1>2. CASE SingleSubaddress(destinations, req.change)
  <2>1. PICK i \in DOMAIN destinations :
          single_dest_subaddress(destinations, req.change) = destinations[i].addr
    BY <1>2, SingleIsOne DEF TypeOK
  <2>2. destinations[i].addr.spend \in Point
    BY DestinationTypes
  <2> QED BY <1>1, <1>2, <2>1, <2>2, PointTypes
<1>3. CASE ~SingleSubaddress(destinations, req.change)
  BY <1>1, <1>3, PointTypes
<1> QED BY <1>2, <1>3

(* What generate_output_ephemeral_keys appends and leaves behind is typed. *)
LEMMA OutputKeysType ==
  ASSUME TypeOK, NEW i \in DOMAIN destinations, NEW need \in BOOLEAN,
         need => Len(additional_tx_keys) = Len(destinations),
         NEW before \in Uninitialised
  PROVE  LET made == OutputKeys(destinations[i], i, need, before)
         IN  /\ made.additional \in Seq(Point)
             /\ made.amount \in Seq(Point \X Nat)
             /\ made.key \in OneTimeKey
             /\ made.view_tag \in {NoTag} \cup (Point \X Nat)
<1> DEFINE d == destinations[i]
           is_change == d.addr = req.change
           from == IF is_change THEN txkey_pub ELSE d.addr.view
           secret == IF is_change THEN view_secret(req.sender.wallet)
                     ELSE IF d.is_subaddress /\ need THEN additional_tx_keys[i]
                     ELSE tx_key
           derivation == generate_key_derivation(from, secret)
<1>1. d.addr.view \in Point /\ d.addr.spend \in Point /\ i \in Nat
  BY DestinationTypes
<1>2. req.sender.wallet \in Wallet
  BY RequestTypes DEF Request, AccountKeys
<1>3. need => additional_tx_keys[i] \in Secret
  BY DEF TypeOK
<1>4. tx_key \in Secret
  BY PointTypes DEF tx_key
<1>5. secret \in Secret
  BY <1>2, <1>3, <1>4, PointTypes
<1>6. from \in Point
  BY <1>1 DEF TypeOK
<1>7. derivation \in Point
  <2> HIDE DEF from, secret
  <2> QED BY <1>5, <1>6, PointTypes DEF generate_key_derivation
<1>8. /\ need => scalarmultKey(d.addr.spend, additional_tx_keys[i]) \in Point
      /\ need => scalarmultBase(additional_tx_keys[i]) \in Point
  BY <1>1, <1>3, PointTypes
<1>9. derive_public_key(derivation, i, d.addr.spend) \in OneTimeKey
  <2> HIDE DEF derivation, d
  <2> QED BY <1>1, <1>7 DEF derive_public_key, OneTimeKey
<1>10. derivation_to_scalar(derivation, i) \in Point \X Nat
  <2> HIDE DEF derivation
  <2> QED BY <1>1, <1>7 DEF derivation_to_scalar
<1>11. derive_view_tag(derivation, i) \in Point \X Nat
  <2> HIDE DEF derivation
  <2> QED BY <1>1, <1>7 DEF derive_view_tag
<1>12. OutputKeys(d, i, need, before).additional =
         IF need /\ ~DerivationFails(from)
         THEN <<IF d.is_subaddress THEN scalarmultKey(d.addr.spend, additional_tx_keys[i])
                                   ELSE scalarmultBase(additional_tx_keys[i])>>
         ELSE << >>
  BY DEF OutputKeys
<1>13. OutputKeys(d, i, need, before).amount =
         IF ~DerivationFails(from) /\ req.version > 1
         THEN <<derivation_to_scalar(derivation, i)>> ELSE << >>
  BY DEF OutputKeys
<1>14. OutputKeys(d, i, need, before).key =
         IF ~DerivationFails(from) /\ check_key(d.addr.spend)
         THEN derive_public_key(derivation, i, d.addr.spend)
         ELSE before.key
  BY DEF OutputKeys
<1>15. OutputKeys(d, i, need, before).view_tag =
         IF ~req.use_view_tags THEN NoTag
         ELSE IF ~DerivationFails(from) THEN derive_view_tag(derivation, i)
         ELSE before.view_tag
  BY DEF OutputKeys
<1>19. /\ before.key \in OneTimeKey
       /\ before.view_tag \in {NoTag} \cup (Point \X Nat)
  <2> DEFINE output_type == [amount : Amount, key : OneTimeKey,
                             view_tag : {NoTag} \cup (Point \X Nat)]
  <2>1. CASE before = [key |-> UnwrittenKey, view_tag |-> derive_view_tag(BadPoint, 0)]
    BY <2>1, PointTypes DEF derive_view_tag
  <2>2. ASSUME NEW n \in DOMAIN tx.vout,
               before = [key |-> tx.vout[n].key, view_tag |-> tx.vout[n].view_tag]
        PROVE  /\ before.key \in OneTimeKey
               /\ before.view_tag \in {NoTag} \cup (Point \X Nat)
    <3>1. tx.vout \in Seq(output_type)
      BY DEF TypeOK
    <3>2. tx.vout[n] \in output_type
      <4> HIDE DEF output_type
      <4> QED BY <3>1
    <3> QED BY <2>2, <3>2
  <2> QED BY <2>1, <2>2 DEF Uninitialised
<1> HIDE DEF d, derivation, from, secret
<1>16. /\ OutputKeys(d, i, need, before).additional \in Seq(Point)
       /\ OutputKeys(d, i, need, before).amount \in Seq(Point \X Nat)
  <2> DEFINE scalar == derivation_to_scalar(derivation, i)
             subaddress_key == scalarmultKey(d.addr.spend, additional_tx_keys[i])
             standard_key == scalarmultBase(additional_tx_keys[i])
             Scalars == Point \X Nat
  <2>1. need => <<subaddress_key>> \in Seq(Point) /\ <<standard_key>> \in Seq(Point)
    BY <1>8, OneElement
  <2>2. <<scalar>> \in Seq(Scalars)
    BY <1>10, OneElement
  <2>3. << >> \in Seq(Point) /\ << >> \in Seq(Scalars)
    OBVIOUS
  <2> HIDE DEF scalar, subaddress_key, standard_key, Scalars
  <2>4. OutputKeys(d, i, need, before).additional \in
          {<<subaddress_key>>, <<standard_key>>, << >>}
    BY <1>12 DEF subaddress_key, standard_key
  <2>5. OutputKeys(d, i, need, before).additional # << >> => need
    BY <1>12
  <2>6. OutputKeys(d, i, need, before).amount \in {<<scalar>>, << >>}
    BY <1>13 DEF scalar
  <2>7. OutputKeys(d, i, need, before).additional \in Seq(Point)
    BY <2>1, <2>3, <2>4, <2>5
  <2>8. OutputKeys(d, i, need, before).amount \in Seq(Scalars)
    BY <2>2, <2>3, <2>6
  <2> QED BY <2>7, <2>8 DEF Scalars
<1>17. OutputKeys(d, i, need, before).key \in OneTimeKey
  BY <1>9, <1>14, <1>19
<1>18. OutputKeys(d, i, need, before).view_tag \in {NoTag} \cup (Point \X Nat)
  BY <1>11, <1>15, <1>19
<1> QED BY <1>16, <1>17, <1>18 DEF d
(* The key pair an input is made with is typed because it matches the key  *)
(* of the output it spends.                                                *)
LEMMA EphemeralType ==
  ASSUME NEW acc, acc.kind \in {"full", "multisig", "watch"},
         NEW out_key \in OneTimeKey, NEW P, NEW ks, NEW index,
         generate_key_image_helper(acc, out_key, P, ks, index).in_ephemeral.pub
           = out_key
  PROVE  LET made == generate_key_image_helper(acc, out_key, P, ks, index)
         IN  /\ made.in_ephemeral \in [pub : OneTimeKey, sec : OneTimeSecretKey]
             /\ made.k_image \in KeyImage
             /\ made.k_image = generate_key_image(made.in_ephemeral.pub,
                                                  made.in_ephemeral.sec)
<1> DEFINE info == receive_info(acc, out_key, P, ks, index)
           pair == in_ephemeral(acc, out_key, info.derivation, index, info.index)
           made == generate_key_image_helper(acc, out_key, P, ks, index)
<1>1. made.in_ephemeral = pair /\ made.k_image = generate_key_image(pair.pub, pair.sec)
  BY DEF generate_key_image_helper
<1>2. pair.pub = out_key
  BY <1>1
<1> HIDE DEF made, info
<1>3. pair \in [pub : OneTimeKey, sec : OneTimeSecretKey]
  <2>1. CASE acc.kind = "watch"
    BY <2>1, PointTypes DEF in_ephemeral
  <2>2. CASE acc.kind # "watch"
    <3> DEFINE sec == OneTimeSecret(info.derivation, index, acc.wallet, info.index,
                                    IF acc.kind = "multisig" THEN "part" ELSE "full")
    <3>1. pair = [pub |-> secret_key_to_public_key(sec), sec |-> sec]
      BY <2>2 DEF in_ephemeral
    <3>2. derive_public_key(sec.der, sec.idx, sec.spend) \in OneTimeKey
      BY <1>2, <3>1 DEF secret_key_to_public_key
    <3>3. sec.der \in Point /\ sec.idx \in Nat /\ sec.spend \in Point
      BY <3>2 DEF derive_public_key, OneTimeKey
    <3>4. sec \in OneTimeSecretKey
      BY <3>3 DEF OneTimeSecret, OneTimeSecretKey, Share
    <3> HIDE DEF sec
    <3> QED BY <1>2, <3>1, <3>4
  <2> QED BY <2>1, <2>2
<1> HIDE DEF pair
<1>4. pair.pub \in OneTimeKey /\ pair.sec.share \in Share
  BY <1>3 DEF OneTimeSecretKey
<1>5. generate_key_image(pair.pub, pair.sec) \in KeyImage
  BY <1>4, PointTypes DEF generate_key_image, KeyImage, Share
<1> QED BY <1>1, <1>3, <1>5 DEF made

(* Relative offsets are integers.                                          *)
LEMMA OffsetsType ==
  ASSUME NEW off \in Seq(Nat),
         NEW relative \in absolute_output_offsets_to_relative(off)
  PROVE  relative \in Seq(Int)
<1>1. PICK res \in Sorted(off) :
        relative = [i \in DOMAIN res |-> IF i = 1 THEN res[1] ELSE res[i] - res[i - 1]]
  BY DEF absolute_output_offsets_to_relative
<1>2. PICK p \in Permutation(Len(off)) : res = Permuted(off, p)
  BY DEF Sorted
<1>3. res \in Seq(Nat)
  BY <1>2, PermutedType
<1> DEFINE step(i) == IF i = 1 THEN res[1] ELSE res[i] - res[i - 1]
<1>4. ASSUME NEW i \in DOMAIN res
      PROVE  step(i) \in Int
  <2>1. i \in 1 .. Len(res)
    BY <1>3
  <2>2. CASE i = 1
    BY <1>3, <2>1, <2>2
  <2>3. CASE i # 1
    <3>1. i - 1 \in 1 .. Len(res)
      BY <1>3, <2>1, <2>3
    <3>2. res[i] \in Nat /\ res[i - 1] \in Nat
      BY <1>3, <2>1, <3>1
    <3> QED BY <2>3, <3>2
  <2> QED BY <2>2, <2>3
<1>5. relative = [i \in 1 .. Len(res) |-> step(i)] /\ Len(res) \in Nat
  BY <1>1, <1>3
<1>6. \A i \in 1 .. Len(res) : step(i) \in Int
  BY <1>3, <1>4
<1> HIDE DEF step
<1> QED BY <1>5, <1>6

(* Sums of amounts wrap around and stay amounts.                           *)
LEMMA PlusType ==
  ASSUME NEW x \in Amount, NEW y \in Amount
  PROVE  Plus(x, y) \in Amount
BY ModulusAssumption DEF Plus, Amount
-----------------------------------------------------------------------------
(* Every step keeps the types and the phases.                              *)
LEMMA NextIInv == IInv /\ [Next]_vars => IInv'
<1> SUFFICES ASSUME IInv, [Next]_vars PROVE IInv'
  OBVIOUS
<1> USE DEF IInv
<1>1. CASE OpenTx
  <2>1. Len(destinations) \in Nat /\ destinations \in Seq(DestinationEntry)
    BY DEF TypeOK
  <2>2. FreshKeys(Len(destinations)) \in Seq(Secret)
    BY <2>1, PointTypes DEF FreshKeys
  <2> QED BY <1>1, <2>2 DEF OpenTx, Goto, TypeOK, Phases
<1>2. CASE EmptySources \/ UnparsableExtra
  BY <1>2 DEF EmptySources, UnparsableExtra, ExtraUnchanged, Goto, Return,
              TypeOK, Phases
<1>3. CASE EncryptPaymentId
  BY <1>3 DEF EncryptPaymentId, ExtraUnchanged, Goto, Return, TypeOK, Phases
<1>4. CASE DummyPaymentId
  BY <1>4 DEF DummyPaymentId, ExtraUnchanged, Goto, TypeOK, Phases
<1>5. CASE AddInput
  <2> DEFINE k == Len(tx.vin) + 1
             src == sources[k]
             known == src.real_output <= Len(src.outputs)
             out_key == src.outputs[src.real_output].dest
             made == generate_key_image_helper(req.sender, out_key,
                       src.real_out_tx_key, src.real_out_additional_tx_keys,
                       src.real_output_in_tx_index)
             offsets == [n \in DOMAIN src.outputs |-> src.outputs[n].index]
             pair_type == [pub : OneTimeKey, sec : OneTimeSecretKey]
             input_type == [amount : Amount, k_image : KeyImage, key_offsets : Seq(Int)]
  <2>1. tx.vin \in Seq(input_type) /\ in_contexts \in Seq(pair_type)
    BY DEF TypeOK
  <2>2. k \in 1 .. Len(sources) /\ src \in SourceEntry
    <3>1. Len(tx.vin) < Len(sources)
      BY <1>5 DEF AddInput
    <3>2. Len(tx.vin) \in Nat
      <4> HIDE DEF input_type
      <4> QED BY <2>1
    <3>3. sources \in Seq(SourceEntry)
      BY DEF TypeOK
    <3>4. k \in 1 .. Len(sources)
      BY <3>1, <3>2, <3>3
    <3> HIDE DEF k
    <3> QED BY <3>3, <3>4
  <2>3. src.outputs \in Seq(RingMember) /\ src.amount \in Amount /\ src.real_output \in Nat \ {0}
    BY <2>2 DEF SourceEntry
  <2>4. offsets \in Seq(Nat)
    <3> HIDE DEF src
    <3>1. ASSUME NEW n \in 1 .. Len(src.outputs) PROVE src.outputs[n].index \in Nat
      <4>1. src.outputs[n] \in RingMember
        BY <2>3
      <4> QED BY <4>1 DEF RingMember
    <3> QED BY <2>3, <3>1
  <2>5. money' \in [ins : Amount, outs : Amount]
    <3>1. money' = money \/ money' = [money EXCEPT !.ins = Plus(@, src.amount)]
      BY <1>5 DEF AddInput
    <3> HIDE DEF src
    <3>2. money.ins \in Amount /\ money.outs \in Amount /\ money \in [ins : Amount, outs : Amount]
      BY DEF TypeOK
    <3>3. Plus(money.ins, src.amount) \in Amount
      BY <2>3, <3>2, PlusType
    <3> QED BY <3>1, <3>2, <3>3
  <2>6. CASE known /\ made.in_ephemeral.pub = out_key /\ Goto("inputs")
               /\ in_contexts' = Append(in_contexts, made.in_ephemeral)
               /\ \E relative \in absolute_output_offsets_to_relative(offsets) :
                    tx' = [tx EXCEPT !.vin = Append(@,
                      [amount |-> src.amount, k_image |-> made.k_image,
                       key_offsets |-> relative])]
    <3>1. PICK relative \in absolute_output_offsets_to_relative(offsets) :
            tx' = [tx EXCEPT !.vin = Append(@,
              [amount |-> src.amount, k_image |-> made.k_image,
               key_offsets |-> relative])]
      BY <2>6
    <3>2. relative \in Seq(Int)
      BY <2>4, OffsetsType
    <3>3. out_key \in OneTimeKey
      <4>1. known
        BY <2>6
      <4> HIDE DEF src
      <4>2. Len(src.outputs) \in Nat
        BY <2>3
      <4>3. src.real_output \in 1 .. Len(src.outputs)
        BY <2>3, <4>1, <4>2
      <4>4. src.outputs[src.real_output] \in RingMember
        BY <2>3, <4>3
      <4> QED BY <4>4 DEF RingMember
    <3>4. req.sender.kind \in {"full", "multisig", "watch"}
      BY RequestTypes DEF Request, AccountKeys
    <3>5. made.in_ephemeral \in pair_type /\ made.k_image \in KeyImage
      <4>1. made.in_ephemeral.pub = out_key
        BY <2>6
      <4> HIDE DEF src, out_key
      <4> QED BY <3>3, <3>4, <4>1, EphemeralType
    <3> DEFINE input == [amount |-> src.amount, k_image |-> made.k_image,
                         key_offsets |-> relative]
    <3>6. input \in input_type
      BY <2>3, <3>2, <3>5
    <3> HIDE DEF src, made, pair_type, input_type, input
    <3>7. in_contexts' \in Seq(pair_type) /\ Len(in_contexts') = k
      BY <2>1, <2>6, <3>5 DEF Phases
    <3>8. DOMAIN tx' = DOMAIN tx /\ tx'.vin = Append(tx.vin, input) /\ tx'.vout = tx.vout
      BY <3>1 DEF TypeOK, input
    <3>9. tx'.vin \in Seq(input_type) /\ Len(tx'.vin) = k
      BY <2>1, <3>6, <3>8
    <3> USE DEF pair_type, input_type
    <3>10. TypeOK'
      BY <1>5, <2>5, <2>6, <3>7, <3>8, <3>9 DEF AddInput, Goto, TypeOK
    <3>11. Phases'
      <4>1. pc = "inputs" /\ pc' = "inputs" /\ UNCHANGED <<sources, destinations, keys>>
        BY <1>5, <2>6 DEF AddInput, Goto
      <4>2. k <= Len(sources)
        BY <2>2
      <4> HIDE DEF k
      <4> QED BY <2>2, <3>7, <3>8, <3>9, <4>1, <4>2 DEF Phases
    <3> QED BY <3>10, <3>11
  <2>7. CASE Return("false") /\ UNCHANGED <<tx, in_contexts>>
    <3> HIDE DEF src
    <3> QED BY <1>5, <2>5, <2>7 DEF AddInput, Return, TypeOK, Phases
  <2> QED BY <1>5, <2>6, <2>7 DEF AddInput
<1>6. CASE ShuffleDestinations
  <2>1. destinations' \in Seq(DestinationEntry) /\ Len(destinations') = Len(destinations)
    BY <1>6, PermutedType DEF ShuffleDestinations, TypeOK
  <2> QED BY <1>6, <2>1 DEF ShuffleDestinations, Goto, TypeOK, Phases
<1>7. CASE SortInputs
  <2>1. PICK p \in Permutation(Len(sources)) :
          /\ sources' = Permuted(sources, p)
          /\ in_contexts' = Permuted(in_contexts, p)
          /\ tx' = [tx EXCEPT !.vin = Permuted(@, p)]
    BY <1>7 DEF SortInputs
  <2>2. Len(in_contexts) = Len(sources) /\ Len(tx.vin) = Len(sources)
    BY <1>7 DEF SortInputs, Phases
  <2>3. sources' \in Seq(SourceEntry) /\ Len(sources') = Len(sources)
    BY <2>1, PermutedType DEF TypeOK
  <2>4. /\ in_contexts' \in Seq([pub : OneTimeKey, sec : OneTimeSecretKey])
        /\ Len(in_contexts') = Len(sources)
    BY <2>1, <2>2, PermutedType DEF TypeOK
  <2>5. DOMAIN tx' = DOMAIN tx /\ tx'.vin = Permuted(tx.vin, p) /\ tx'.vout = tx.vout
    BY <2>1 DEF TypeOK
  <2>6. /\ tx'.vin \in Seq([amount : Amount, k_image : KeyImage, key_offsets : Seq(Int)])
        /\ Len(tx'.vin) = Len(sources)
    BY <2>2, <2>5, PermutedType DEF TypeOK
  <2> QED BY <1>7, <2>3, <2>4, <2>5, <2>6 DEF SortInputs, Goto, TypeOK, Phases
<1>8. CASE SetTxPubKey
  <2>1. txkey_pub' \in Point
    BY <1>8, TxPubKeyType DEF SetTxPubKey, TypeOK
  <2> QED BY <1>8, <2>1 DEF SetTxPubKey, Goto, Return, TypeOK, Phases
<1>9. CASE AddOutput
  <2> DEFINE i == Len(tx.vout) + 1
             d == destinations[i]
             need == need_additional_txkeys(destinations, req.change)
             output_type == [amount : Amount, key : OneTimeKey,
                             view_tag : {NoTag} \cup (Point \X Nat)]
  <2>1. tx.vout \in Seq(output_type) /\ destinations \in Seq(DestinationEntry)
    BY DEF TypeOK
  <2>2. i \in DOMAIN destinations
    <3>1. Len(tx.vout) < Len(destinations)
      BY <1>9 DEF AddOutput
    <3>2. Len(tx.vout) \in Nat /\ Len(destinations) \in Nat /\ DOMAIN destinations = 1 .. Len(destinations)
      BY <2>1
    <3> QED BY <3>1, <3>2
  <2>3. need \in BOOLEAN /\ (need => Len(additional_tx_keys) = Len(destinations))
    BY <1>9 DEF AddOutput, Phases, need_additional_txkeys
  <2>4. d.amount \in Amount
    BY <2>2, DestinationTypes
  <2>5. CASE (Return("false") \/ Return("throw")) /\ UNCHANGED <<tx, keys, money>>
    BY <1>9, <2>5 DEF AddOutput, Return, TypeOK, Phases
  <2>6. ASSUME NEW before \in Uninitialised, NEW made, NEW output,
               made = OutputKeys(d, i, need, before),
               output = [amount |-> d.amount, key |-> made.key,
                         view_tag |-> made.view_tag],
               keys' = [additional |-> keys.additional \o made.additional,
                        amount |-> keys.amount \o made.amount],
               tx' = [tx EXCEPT !.vout = Append(@, output)],
               money' = [money EXCEPT !.outs = Plus(@, d.amount)],
               Goto("outputs")
        PROVE  IInv'
    <3>1. /\ made.additional \in Seq(Point)
          /\ made.amount \in Seq(Point \X Nat)
          /\ made.key \in OneTimeKey
          /\ made.view_tag \in {NoTag} \cup (Point \X Nat)
      <4> HIDE DEF i, need
      <4> QED BY <2>2, <2>3, <2>6, OutputKeysType
    <3>2. output \in output_type
      <4> HIDE DEF d
      <4> QED BY <2>4, <2>6, <3>1
    <3> HIDE DEF d, output_type
    <3>3. keys' \in [additional : Seq(Point), amount : Seq(Point \X Nat)]
      BY <2>6, <3>1 DEF TypeOK
    <3>4. DOMAIN tx' = DOMAIN tx /\ tx'.vin = tx.vin /\ tx'.vout = Append(tx.vout, output)
      BY <2>6 DEF TypeOK
    <3>5. tx'.vout \in Seq(output_type) /\ Len(tx'.vout) = i
      BY <2>1, <3>2, <3>4
    <3>6. money' \in [ins : Amount, outs : Amount]
      BY <2>4, <2>6, PlusType DEF TypeOK
    <3>7. i <= Len(destinations)
      BY <2>1, <2>2
    <3>8. TypeOK'
      BY <1>9, <2>6, <3>3, <3>4, <3>5, <3>6 DEF AddOutput, Goto, TypeOK, output_type
    <3>9. Phases'
      BY <1>9, <2>6, <3>4, <3>5, <3>7 DEF AddOutput, Goto, Phases
    <3> QED BY <3>8, <3>9
  <2> QED BY <1>9, <2>5, <2>6 DEF AddOutput
<1>10. CASE FinishExtra
  BY <1>10 DEF FinishExtra, Goto, Return, TypeOK, Phases
<1>11. CASE CheckMoney
  BY <1>11 DEF CheckMoney, Goto, Return, TypeOK, Phases
<1>12. CASE SignV1
  BY <1>12 DEF SignV1, Return, TypeOK, Phases
<1>13. CASE SignV2
  <2> DEFINE input_type == [amount : Amount, k_image : KeyImage, key_offsets : Seq(Int)]
             output_type == [amount : Amount, key : OneTimeKey,
                             view_tag : {NoTag} \cup (Point \X Nat)]
  <2>1. 0 \in Amount
    BY ModulusAssumption DEF Amount
  <2>2. /\ Masked(tx).vin \in Seq(input_type) /\ Len(Masked(tx).vin) = Len(tx.vin)
        /\ Masked(tx).vout \in Seq(output_type) /\ Len(Masked(tx).vout) = Len(tx.vout)
        /\ DOMAIN Masked(tx) = DOMAIN tx
    <3>1. Masked(tx).vin = [i \in 1 .. Len(tx.vin) |->
             [tx.vin[i] EXCEPT !.amount = IF sources[i].rct THEN 0 ELSE @]]
      BY DEF Masked, TypeOK
    <3>2. Masked(tx).vout = [i \in 1 .. Len(tx.vout) |-> [tx.vout[i] EXCEPT !.amount = 0]]
      BY DEF Masked, TypeOK
    <3>3. \A i \in 1 .. Len(tx.vin) :
            [tx.vin[i] EXCEPT !.amount = IF sources[i].rct THEN 0 ELSE @] \in input_type
      <4> SUFFICES ASSUME NEW i \in 1 .. Len(tx.vin)
                   PROVE  [tx.vin[i] EXCEPT !.amount = IF sources[i].rct THEN 0 ELSE @]
                            \in input_type
        OBVIOUS
      <4>1. tx.vin \in Seq(input_type)
        BY DEF TypeOK
      <4>2. tx.vin[i] \in input_type
        <5> HIDE DEF input_type
        <5> QED BY <4>1
      <4> QED BY <2>1, <4>2
    <3>4. \A i \in 1 .. Len(tx.vout) : [tx.vout[i] EXCEPT !.amount = 0] \in output_type
      <4> SUFFICES ASSUME NEW i \in 1 .. Len(tx.vout)
                   PROVE  [tx.vout[i] EXCEPT !.amount = 0] \in output_type
        OBVIOUS
      <4>1. tx.vout \in Seq(output_type)
        BY DEF TypeOK
      <4>2. tx.vout[i] \in output_type
        <5> HIDE DEF output_type
        <5> QED BY <4>1
      <4> QED BY <2>1, <4>2
    <3>5. Len(tx.vin) \in Nat /\ Len(tx.vout) \in Nat
      BY DEF TypeOK
    <3> HIDE DEF input_type, output_type
    <3>6. Masked(tx).vin \in Seq(input_type) /\ Len(Masked(tx).vin) = Len(tx.vin)
      BY <3>1, <3>3, <3>5
    <3>7. Masked(tx).vout \in Seq(output_type) /\ Len(Masked(tx).vout) = Len(tx.vout)
      BY <3>2, <3>4, <3>5
    <3> QED BY <3>6, <3>7 DEF Masked
  <2>3. /\ tx'.vin = Masked(tx).vin /\ tx'.vout = Masked(tx).vout
        /\ DOMAIN tx' = DOMAIN Masked(tx)
    <3>1. DOMAIN Masked(tx) = {"extra", "vin", "vout", "signatures", "rct"}
      BY <2>2 DEF TypeOK
    <3> QED BY <1>13, <3>1 DEF SignV2
  <2> QED BY <1>13, <2>2, <2>3 DEF SignV2, Return, TypeOK, Phases
<1>14. CASE CloseTx
  BY <1>14 DEF CloseTx, TypeOK, Phases
<1>15. CASE Done \/ UNCHANGED vars
  BY <1>15 DEF Done, vars, TypeOK, Phases
<1> QED BY <1>1, <1>2, <1>3, <1>4, <1>5, <1>6, <1>7, <1>8, <1>9, <1>10, <1>11,
           <1>12, <1>13, <1>14, <1>15 DEF Next
-----------------------------------------------------------------------------
(* Every variable keeps its type, in every state of every call: sums stay  *)
(* within a word, keys are points, and the vectors that are reordered in   *)
(* place hold what they held.                                              *)
THEOREM TypeCorrect == Spec => []TypeOK
<1>1. IInv => TypeOK
  BY DEF IInv
<1> QED BY InitIInv, NextIInv, <1>1, PTL DEF Spec
-----------------------------------------------------------------------------
(* The vectors of the inputs agree index by index, through the appends and *)
(* through the permutation that sorts all three by key image.              *)
LEMMA InitAligned == Init => InputsAligned
<1> SUFFICES ASSUME Init PROVE InputsAligned
  OBVIOUS
<1>1. req \in Request
  BY RequestsAssumption DEF Init
<1> QED BY <1>1 DEF Init, InputsAligned, EmptyTx, Request

(* No step moves one of the three vectors without the others.              *)
LEMMA NextAligned == IInv /\ InputsAligned /\ [Next]_vars => InputsAligned'
<1> SUFFICES ASSUME IInv, InputsAligned, [Next]_vars PROVE InputsAligned'
  OBVIOUS
<1>1. /\ tx.vin \in Seq([amount : Amount, k_image : KeyImage, key_offsets : Seq(Int)])
      /\ in_contexts \in Seq([pub : OneTimeKey, sec : OneTimeSecretKey])
      /\ sources \in Seq(SourceEntry)
      /\ DOMAIN tx = {"extra", "vin", "vout", "signatures", "rct"}
  BY DEF IInv, TypeOK
<1>2. CASE tx'.vin = tx.vin /\ in_contexts' = in_contexts /\ sources' = sources
  BY <1>2 DEF InputsAligned
<1>3. CASE AddInput
  <2> DEFINE k == Len(tx.vin) + 1
             src == sources[k]
             out_key == src.outputs[src.real_output].dest
             made == generate_key_image_helper(req.sender, out_key,
                       src.real_out_tx_key, src.real_out_additional_tx_keys,
                       src.real_output_in_tx_index)
             offsets == [n \in DOMAIN src.outputs |-> src.outputs[n].index]
  <2>1. sources' = sources /\ Len(tx.vin) < Len(sources)
    BY <1>3 DEF AddInput
  <2>2. CASE /\ made.in_ephemeral.pub = out_key
             /\ in_contexts' = Append(in_contexts, made.in_ephemeral)
             /\ \E relative \in absolute_output_offsets_to_relative(offsets) :
                  tx' = [tx EXCEPT !.vin = Append(@,
                    [amount |-> src.amount, k_image |-> made.k_image,
                     key_offsets |-> relative])]
    <3>0. PICK relative \in absolute_output_offsets_to_relative(offsets) :
            tx' = [tx EXCEPT !.vin = Append(@,
              [amount |-> src.amount, k_image |-> made.k_image,
               key_offsets |-> relative])]
      BY <2>2
    <3> DEFINE input == [amount |-> src.amount, k_image |-> made.k_image,
                         key_offsets |-> relative]
    <3>1. tx'.vin = Append(tx.vin, input) /\ input.k_image = made.k_image
      BY <1>1, <3>0
    <3> HIDE DEF input
    <3>2. made.k_image = generate_key_image(made.in_ephemeral.pub, made.in_ephemeral.sec)
      BY DEF generate_key_image_helper
    <3>3. made.in_ephemeral.pub = src.outputs[src.real_output].dest
      BY <2>2
    <3> HIDE DEF src, made
    <3>4. Len(tx'.vin) = k /\ Len(in_contexts') = k /\ k <= Len(sources) /\ k \in Nat
      BY <1>1, <2>1, <2>2, <3>1 DEF InputsAligned
    <3>5. ASSUME NEW i \in 1 .. Len(tx.vin)
          PROVE  tx'.vin[i] = tx.vin[i] /\ in_contexts'[i] = in_contexts[i]
      BY <1>1, <2>2, <3>1 DEF InputsAligned
    <3>6. tx'.vin[k] = input /\ in_contexts'[k] = made.in_ephemeral
      BY <1>1, <2>2, <3>1 DEF InputsAligned
    <3>7. DOMAIN tx'.vin = 1 .. k
      BY <1>1, <3>1
    <3> SUFFICES ASSUME NEW i \in 1 .. k
                 PROVE  /\ in_contexts'[i].pub = sources[i].outputs[sources[i].real_output].dest
                        /\ tx'.vin[i].k_image =
                             generate_key_image(in_contexts'[i].pub, in_contexts'[i].sec)
      BY <2>1, <3>4, <3>7 DEF InputsAligned
    <3>8. CASE i = k
      BY <3>1, <3>2, <3>3, <3>6, <3>8 DEF src
    <3>9. CASE i # k
      <4>1. i \in 1 .. Len(tx.vin) /\ i \in DOMAIN tx.vin
        BY <1>1, <3>4, <3>9
      <4> QED BY <3>5, <4>1 DEF InputsAligned
    <3> QED BY <3>8, <3>9
  <2>3. CASE UNCHANGED <<tx, in_contexts>>
    BY <2>1, <2>3 DEF InputsAligned
  <2> QED BY <1>3, <2>2, <2>3 DEF AddInput
<1>4. CASE SortInputs
  <2>1. PICK p \in Permutation(Len(sources)) :
          /\ sources' = Permuted(sources, p)
          /\ in_contexts' = Permuted(in_contexts, p)
          /\ tx'.vin = Permuted(tx.vin, p)
    BY <1>1, <1>4 DEF SortInputs
  <2>2. Len(tx.vin) = Len(sources) /\ Len(in_contexts) = Len(sources)
    BY <1>4 DEF SortInputs, IInv, Phases
  <2>3. /\ Len(sources') = Len(sources) /\ Len(in_contexts') = Len(sources)
        /\ Len(tx'.vin) = Len(sources) /\ DOMAIN tx'.vin = 1 .. Len(sources)
    BY <1>1, <2>1, <2>2 DEF Permuted
  <2>4. ASSUME NEW i \in 1 .. Len(sources)
        PROVE  /\ p[i] \in 1 .. Len(sources) /\ sources'[i] = sources[p[i]]
               /\ in_contexts'[i] = in_contexts[p[i]] /\ tx'.vin[i] = tx.vin[p[i]]
    BY <1>1, <2>1, <2>2, PermutedType, SMTT(30)
  <2>5. DOMAIN tx.vin = 1 .. Len(sources)
    BY <1>1, <2>2
  <2>6. Len(sources) \in Nat
    BY <1>1
  <2> QED BY <2>2, <2>3, <2>4, <2>5, <2>6 DEF InputsAligned
<1>5. CASE SignV2
  <2>1. sources' = sources /\ in_contexts' = in_contexts
    BY <1>5 DEF SignV2
  <2>2. tx'.vin = Masked(tx).vin
    <3>1. DOMAIN Masked(tx) = DOMAIN tx
      BY DEF Masked
    <3> QED BY <1>1, <1>5, <3>1 DEF SignV2
  <2>3. /\ Len(tx'.vin) = Len(tx.vin) /\ DOMAIN tx'.vin = DOMAIN tx.vin
        /\ \A i \in DOMAIN tx.vin : tx'.vin[i].k_image = tx.vin[i].k_image
    BY <1>1, <2>2 DEF Masked
  <2> QED BY <2>1, <2>3 DEF InputsAligned
<1>6. CASE Next /\ ~AddInput /\ ~SortInputs /\ ~SignV2
  BY <1>1, <1>2, <1>6
     DEF Next, OpenTx, EmptySources, UnparsableExtra, EncryptPaymentId,
         DummyPaymentId, ExtraUnchanged, ShuffleDestinations, SetTxPubKey,
         AddOutput, FinishExtra, CheckMoney, SignV1, CloseTx, Done, vars
<1>7. CASE UNCHANGED vars
  BY <1>2, <1>7 DEF vars
<1> QED BY <1>3, <1>4, <1>5, <1>6, <1>7

(* From the moment an input is made, its key image, its one-time secret    *)
(* and the source it spends stand at one index, however the inputs are     *)
(* ordered: the signatures cannot be made with another input's secret.     *)
THEOREM InputsStayAligned == Spec => []InputsAligned
<1>1. Init => IInv /\ InputsAligned
  BY InitIInv, InitAligned
<1>2. (IInv /\ InputsAligned) /\ [Next]_vars => (IInv /\ InputsAligned)'
  BY NextIInv, NextAligned
<1> QED BY <1>1, <1>2, PTL DEF Spec
-----------------------------------------------------------------------------
(* The index of an address is known from the address.                      *)
LEMMA AddressNames ==
  ASSUME NEW w, NEW n, NEW v, NEW m, get_subaddress(w, n) = get_subaddress(v, m)
  PROVE  w = v /\ n = m
<1>1. get_subaddress_spend_public_key(w, n) = get_subaddress_spend_public_key(v, m)
  BY DEF get_subaddress
<1>2. <<"spend", w, n>> = <<"spend", v, m>>
  BY <1>1 DEF get_subaddress_spend_public_key
<1> QED BY <1>2

(* The keys of an address decode.                                          *)
LEMMA AddressDecodes ==
  ASSUME NEW w, NEW n
  PROVE  /\ check_key(get_subaddress(w, n).view)
         /\ check_key(get_subaddress(w, n).spend)
BY DEF get_subaddress, get_subaddress_spend_public_key, scalarmultKey, check_key, G

(* Multiplying by two secrets gives the same point in either order.        *)
LEMMA Commutes ==
  ASSUME NEW P, NEW j, NEW k
  PROVE  scalarmultKey(scalarmultKey(P, j), k) = scalarmultKey(scalarmultKey(P, k), j)
BY DEF scalarmultKey

RightTxPubKey ==
  txkey_pub = IF SingleSubaddress(destinations, req.change)
              THEN scalarmultKey(single_dest_subaddress(destinations, req.change).spend,
                                 tx_key)
              ELSE scalarmultBase(tx_key)

(* The owner of the next output finds it: in each of the four ways its     *)
(* derivation is chosen, one published key gives the owner the same one.   *)
LEMMA NextOutputFound ==
  ASSUME IInv, GenuineDestinations, RightTxPubKey,
         NEW i \in DOMAIN destinations, NEW w \in Wallet, NEW n \in Minor,
         Names(destinations[i], w, n), NEW before
  PROVE  LET need == need_additional_txkeys(destinations, req.change)
             made == OutputKeys(destinations[i], i, need, before)
         IN  /\ Len(made.additional) = IF need THEN 1 ELSE 0
             /\ \E K \in {txkey_pub} \cup (IF need THEN {made.additional[1]} ELSE {}) :
                   made.key =
                     derive_public_key(generate_key_derivation(K, view_secret(w)), i,
                                       get_subaddress_spend_public_key(w, n))
<1> DEFINE d == destinations[i]
           need == need_additional_txkeys(destinations, req.change)
           made == OutputKeys(d, i, need, before)
           D == get_subaddress_spend_public_key(w, n)
           a == view_secret(w)
           is_change == d.addr = req.change
           from == IF is_change THEN txkey_pub ELSE d.addr.view
           secret == IF is_change THEN view_secret(req.sender.wallet)
                     ELSE IF d.is_subaddress /\ need THEN additional_tx_keys[i]
                     ELSE tx_key
           derivation == generate_key_derivation(from, secret)
           extra_pub == IF d.is_subaddress THEN scalarmultKey(D, additional_tx_keys[i])
                        ELSE scalarmultBase(additional_tx_keys[i])
<1>1. /\ d.addr = get_subaddress(w, n) /\ (d.is_subaddress <=> n # 0)
      /\ d.addr.spend = D
      /\ d.addr.view = scalarmultKey(IF n = 0 THEN G ELSE D, a)
  BY DEF Names, get_subaddress
<1>2. destinations \in Seq(DestinationEntry)
  BY DEF IInv, TypeOK
<1>3. ASSUME NEW j \in DOMAIN destinations
      PROVE  \E v \in Wallet, m \in Minor :
               /\ destinations[j].addr = get_subaddress(v, m)
               /\ destinations[j].is_subaddress <=> m # 0
               /\ destinations[j].addr = req.change => v = req.sender.wallet
  BY DEF GenuineDestinations, Names
<1>4. ASSUME NEW j \in DOMAIN destinations, destinations[j].addr = d.addr
      PROVE  destinations[j].is_subaddress <=> n # 0
  BY <1>1, <1>3, <1>4, AddressNames
<1>5. is_change => w = req.sender.wallet
  <2>1. PICK v \in Wallet, m \in Minor :
          /\ destinations[i].addr = get_subaddress(v, m)
          /\ destinations[i].addr = req.change => v = req.sender.wallet
    BY <1>3
  <2>2. v = w
    BY <1>1, <2>1, AddressNames
  <2> QED BY <2>1, <2>2
<1>6. check_key(txkey_pub)
  <2>1. CASE SingleSubaddress(destinations, req.change)
    <3>1. PICK j \in DOMAIN destinations :
            single_dest_subaddress(destinations, req.change) = destinations[j].addr
      BY <1>2, <2>1, SingleIsOne
    <3>2. check_key(destinations[j].addr.spend)
      BY <1>3, AddressDecodes
    <3> QED BY <2>1, <3>1, <3>2 DEF RightTxPubKey, scalarmultKey, check_key
  <2>2. CASE ~SingleSubaddress(destinations, req.change)
    BY <2>2 DEF RightTxPubKey, scalarmultBase, scalarmultKey, check_key, G
  <2> QED BY <2>1, <2>2
<1>7. ~DerivationFails(from) /\ check_key(d.addr.spend)
  BY <1>1, <1>6, AddressDecodes DEF DerivationFails
<1>8. made.key = derive_public_key(derivation, i, D)
  BY <1>1, <1>7 DEF OutputKeys
<1>9. made.additional = IF need THEN <<extra_pub>> ELSE << >>
  BY <1>1, <1>7 DEF OutputKeys
<1>10. Len(made.additional) = IF need THEN 1 ELSE 0
  <2> HIDE DEF made, extra_pub, need
  <2> QED BY <1>9
<1>11. need => made.additional[1] = extra_pub
  <2> HIDE DEF made, extra_pub, need
  <2> QED BY <1>9
<1>12. \E K \in {txkey_pub} \cup (IF need THEN {extra_pub} ELSE {}) :
         derivation = generate_key_derivation(K, a)
  <2>1. CASE is_change
    BY <1>5, <2>1
  <2>2. CASE ~is_change /\ d.is_subaddress /\ need
    <3>1. derivation = scalarmultKey(scalarmultKey(D, a), additional_tx_keys[i])
      BY <1>1, <2>2 DEF generate_key_derivation
    <3>2. extra_pub = scalarmultKey(D, additional_tx_keys[i])
      BY <2>2
    <3>3. derivation = generate_key_derivation(extra_pub, a)
      BY <3>1, <3>2, Commutes DEF generate_key_derivation
    <3> QED BY <2>2, <3>3
  <2>3. CASE ~is_change /\ ~(d.is_subaddress /\ need)
    <3>1. PICK j \in FirstUses(destinations, req.change) :
            destinations[j].addr = d.addr
      BY <1>2, <2>3, FirstUseExists
    <3>2. j \in DOMAIN destinations
      BY DEF FirstUses
    <3>3. destinations[j].is_subaddress <=> n # 0
      BY <1>4, <3>1, <3>2
    <3>4. derivation = scalarmultKey(scalarmultKey(IF n = 0 THEN G ELSE D, a), tx_key)
      BY <1>1, <2>3 DEF generate_key_derivation
    <3>5. txkey_pub = scalarmultKey(IF n = 0 THEN G ELSE D, tx_key)
      <4>1. CASE n = 0
        <5>1. ~SingleSubaddress(destinations, req.change)
          BY <1>2, <3>1, <3>3, <4>1, SingleIsOne
        <5> QED BY <4>1, <5>1 DEF RightTxPubKey, scalarmultBase
      <4>2. CASE n # 0
        <5>1. j \in SubaddressUses(destinations, req.change)
          BY <3>1, <3>3, <4>2 DEF SubaddressUses
        <5>2. SingleSubaddress(destinations, req.change)
          BY <1>1, <1>2, <2>3, <4>2, <5>1, NoKeysOneSubaddress
        <5>3. single_dest_subaddress(destinations, req.change) = destinations[j].addr
          BY <1>2, <3>1, <5>2, SingleIsOne
        <5> QED BY <1>1, <3>1, <4>2, <5>2, <5>3 DEF RightTxPubKey
      <4> QED BY <4>1, <4>2
    <3>6. derivation = generate_key_derivation(txkey_pub, a)
      BY <3>4, <3>5, Commutes DEF generate_key_derivation
    <3> QED BY <3>6
  <2> QED BY <2>1, <2>2, <2>3
<1> HIDE DEF derivation, extra_pub, from, secret, need, made
<1> QED BY <1>8, <1>10, <1>11, <1>12 DEF need, made
-----------------------------------------------------------------------------
(* What the outputs made so far rest on: while they are made the           *)
(* transaction key is the one the scheme calls for, and there are as many  *)
(* additional keys as outputs, or none.                                    *)
OutputsInv ==
  /\ OutputsReachOwners
  /\ pc = "outputs" => RightTxPubKey
  /\ (pc = "outputs" /\ GenuineDestinations) =>
       Len(keys.additional) = IF need_additional_txkeys(destinations, req.change)
                              THEN Len(tx.vout) ELSE 0

(* No step spoils an output that was made, and the next one is made so     *)
(* that its owner finds it.                                                *)
LEMMA NextOutputsInv == IInv /\ OutputsInv /\ [Next]_vars => OutputsInv'
<1> SUFFICES ASSUME IInv, OutputsInv, [Next]_vars PROVE OutputsInv'
  OBVIOUS
<1> DEFINE need == need_additional_txkeys(destinations, req.change)
<1>1. /\ DOMAIN tx = {"extra", "vin", "vout", "signatures", "rct"}
      /\ keys \in [additional : Seq(Point), amount : Seq(Point \X Nat)]
      /\ destinations \in Seq(DestinationEntry)
      /\ tx.vout \in Seq([amount : Amount, key : OneTimeKey,
                          view_tag : {NoTag} \cup (Point \X Nat)])
  BY DEF IInv, TypeOK
(* Steps that leave the outputs and their keys alone.                      *)
<1>2. CASE /\ DOMAIN tx'.vout = DOMAIN tx.vout
           /\ \A i \in DOMAIN tx.vout : tx'.vout[i].key = tx.vout[i].key
           /\ UNCHANGED <<req, destinations, txkey_pub, keys>>
           /\ pc' # "outputs"
  BY <1>2 DEF OutputsInv, OutputsReachOwners, GenuineDestinations, Published, FoundBy
(* Steps before there is an output.                                        *)
<1>3. CASE tx'.vout = << >> /\ pc' # "outputs"
  BY <1>3 DEF OutputsInv, OutputsReachOwners
<1>4. CASE UNCHANGED vars
  BY <1>4 DEF vars, OutputsInv, OutputsReachOwners, GenuineDestinations, Published,
              FoundBy, RightTxPubKey
<1>5. CASE SetTxPubKey
  <2>1. tx.vout = << >> /\ keys.additional = << >>
    BY <1>5 DEF SetTxPubKey, IInv, Phases
  <2>2. tx'.vout = << >> /\ UNCHANGED <<req, destinations, keys>>
    BY <1>1, <1>5, <2>1 DEF SetTxPubKey
  <2>3. pc' = "outputs" => RightTxPubKey'
    BY <1>5, <2>2 DEF SetTxPubKey, Return, RightTxPubKey
  <2>4. Len(keys'.additional) = 0 /\ Len(tx'.vout) = 0
    BY <2>1, <2>2
  <2> QED BY <2>2, <2>3, <2>4 DEF OutputsInv, OutputsReachOwners
<1>6. CASE AddOutput
  <2> DEFINE i == Len(tx.vout) + 1
  <2>1. /\ pc = "outputs" /\ Len(tx.vout) < Len(destinations)
        /\ UNCHANGED <<req, sources, destinations, additional_tx_keys, txkey_pub>>
    BY <1>6 DEF AddOutput
  <2>2. CASE UNCHANGED <<tx, keys>>
    <3>1. UNCHANGED <<req, sources, destinations, txkey_pub, tx, keys>>
      BY <2>1, <2>2
    <3>2. RightTxPubKey /\ RightTxPubKey'
      BY <2>1, <3>1 DEF OutputsInv, RightTxPubKey
    <3>3. OutputsReachOwners'
      BY <3>1 DEF OutputsInv, OutputsReachOwners, GenuineDestinations, Published, FoundBy
    <3>4. GenuineDestinations' => GenuineDestinations
      BY <3>1 DEF GenuineDestinations
    <3> QED BY <2>1, <3>1, <3>2, <3>3, <3>4 DEF OutputsInv
  <2>3. ASSUME NEW before \in Uninitialised, NEW made, NEW out,
               made = OutputKeys(destinations[i], i, need, before),
               out = [amount |-> destinations[i].amount, key |-> made.key,
                      view_tag |-> made.view_tag],
               keys' = [additional |-> keys.additional \o made.additional,
                        amount |-> keys.amount \o made.amount],
               tx' = [tx EXCEPT !.vout = Append(@, out)],
               pc' = "outputs"
        PROVE  OutputsInv'
    <3>1. out.key = made.key /\ tx'.vout = Append(tx.vout, out)
      BY <1>1, <2>3
    <3>0. keys'.additional = keys.additional \o made.additional
      BY <2>3
    <3>2. i \in DOMAIN destinations /\ i \in Nat
      BY <1>1, <2>1
    <3>3. RightTxPubKey /\ RightTxPubKey'
      BY <2>1 DEF OutputsInv, RightTxPubKey
    <3>4. GenuineDestinations' <=> GenuineDestinations
      BY <2>1 DEF GenuineDestinations
    <3> SUFFICES ASSUME GenuineDestinations
                 PROVE  /\ Len(keys'.additional) = IF need THEN Len(tx'.vout) ELSE 0
                        /\ \A x \in DOMAIN tx'.vout, w \in Wallet, n \in Minor :
                             Names(destinations[x], w, n) => FoundBy(x, w, n)'
      BY <2>1, <3>3, <3>4 DEF OutputsInv, OutputsReachOwners, Names
    <3>5. Len(keys.additional) = IF need THEN Len(tx.vout) ELSE 0
      BY <2>1 DEF OutputsInv
    <3>6. PICK w0 \in Wallet, n0 \in Minor : Names(destinations[i], w0, n0)
      BY <3>2 DEF GenuineDestinations
    <3>7. Len(made.additional) = IF need THEN 1 ELSE 0
      BY <2>3, <3>2, <3>3, <3>6, NextOutputFound
    <3>8. made.additional \in Seq(Point)
      <4>1. need \in BOOLEAN /\ (need => Len(additional_tx_keys) = Len(destinations))
        BY <2>1 DEF IInv, Phases, need_additional_txkeys
      <4> HIDE DEF need, i
      <4> QED BY <2>3, <3>2, <4>1, OutputKeysType DEF IInv
    <3> HIDE DEF need
    <3>9. Len(keys'.additional) = IF need THEN Len(tx'.vout) ELSE 0
      BY <1>1, <3>0, <3>1, <3>5, <3>7, <3>8
    <3>10. ASSUME NEW x \in 1 .. Len(tx.vout)
           PROVE  /\ tx'.vout[x] = tx.vout[x]
                  /\ need => keys'.additional[x] = keys.additional[x]
      BY <1>1, <3>0, <3>1, <3>5, <3>8
    <3>11. /\ tx'.vout[i] = out
           /\ need => keys'.additional[i] = made.additional[1]
      BY <1>1, <3>0, <3>1, <3>5, <3>7, <3>8
    <3>12. DOMAIN tx'.vout = 1 .. i /\ DOMAIN tx.vout = 1 .. Len(tx.vout)
      BY <1>1, <3>1
    <3>13. ASSUME NEW x \in 1 .. i, NEW w \in Wallet, NEW n \in Minor,
                  Names(destinations[x], w, n)
           PROVE  FoundBy(x, w, n)'
      <4>1. CASE x = i
        <5>1. \E K \in {txkey_pub} \cup (IF need THEN {made.additional[1]} ELSE {}) :
                made.key =
                  derive_public_key(generate_key_derivation(K, view_secret(w)), i,
                                    get_subaddress_spend_public_key(w, n))
          BY <2>3, <3>2, <3>3, <3>13, <4>1, NextOutputFound DEF need
        <5> QED BY <2>1, <3>1, <3>11, <4>1, <5>1 DEF FoundBy, Published, need
      <4>2. CASE x # i
        <5>1. x \in 1 .. Len(tx.vout)
          BY <1>1, <4>2
        <5>2. FoundBy(x, w, n)
          BY <3>12, <3>13, <5>1 DEF OutputsInv, OutputsReachOwners
        <5> QED BY <2>1, <3>10, <5>1, <5>2 DEF FoundBy, Published, need
      <4> QED BY <4>1, <4>2
    <3> QED BY <3>9, <3>12, <3>13
  <2> QED BY <1>6, <2>2, <2>3 DEF AddOutput, Goto
<1>7. CASE FinishExtra
  <2>1. tx'.vout = tx.vout /\ UNCHANGED <<req, destinations, txkey_pub, keys>> /\ pc' # "outputs"
    BY <1>1, <1>7 DEF FinishExtra, Goto, Return
  <2> QED BY <1>2, <2>1
<1>8. CASE CheckMoney \/ CloseTx \/ Done
  <2>1. CASE Done
    BY <1>4, <2>1 DEF Done
  <2>2. CASE CheckMoney \/ CloseTx
    BY <1>2, <2>2 DEF CheckMoney, CloseTx, Goto, Return
  <2> QED BY <1>8, <2>1, <2>2
<1>9. CASE SignV1
  BY <1>1, <1>2, <1>9 DEF SignV1, Return
<1>10. CASE SignV2
  <2>1. DOMAIN Masked(tx) = DOMAIN tx
    BY DEF Masked
  <2>2. tx'.vout = Masked(tx).vout
    BY <1>1, <1>10, <2>1 DEF SignV2
  <2>3. /\ DOMAIN tx'.vout = DOMAIN tx.vout
        /\ \A i \in DOMAIN tx.vout : tx'.vout[i].key = tx.vout[i].key
    BY <1>1, <2>2 DEF Masked
  <2>4. UNCHANGED <<req, destinations, txkey_pub, keys>> /\ pc' # "outputs"
    BY <1>10 DEF SignV2, Return
  <2> QED BY <1>2, <2>3, <2>4
<1>11. CASE \/ OpenTx \/ EmptySources \/ UnparsableExtra \/ EncryptPaymentId
            \/ DummyPaymentId \/ AddInput \/ ShuffleDestinations \/ SortInputs
  <2>1. pc \in {"open", "extra", "inputs", "sort"}
    BY <1>11 DEF OpenTx, EmptySources, UnparsableExtra, EncryptPaymentId,
       DummyPaymentId, AddInput, ShuffleDestinations, SortInputs
  <2>2. tx.vout = << >>
    BY <2>1 DEF IInv, Phases
  <2>3. tx'.vout = tx.vout
    BY <1>1, <1>11 DEF OpenTx, EmptySources, UnparsableExtra, EncryptPaymentId,
       DummyPaymentId, AddInput, ShuffleDestinations, SortInputs
  <2>4. pc' # "outputs"
    BY <1>11 DEF OpenTx, EmptySources, UnparsableExtra, EncryptPaymentId,
       DummyPaymentId, AddInput, ShuffleDestinations, SortInputs, Goto, Return
  <2> QED BY <1>3, <2>2, <2>3, <2>4
<1> QED BY <1>4, <1>5, <1>6, <1>7, <1>8, <1>9, <1>10, <1>11 DEF Next

(* Whatever wallets, subaddresses and requests there are, and however the  *)
(* outputs are shuffled: each output made for an address is found by its   *)
(* owner from the keys the transaction publishes.                          *)
THEOREM OutputsAlwaysReachOwners == Spec => []OutputsReachOwners
<1>1. Init => OutputsInv
  BY DEF Init, OutputsInv, OutputsReachOwners, EmptyTx
<1>2. OutputsInv => OutputsReachOwners
  BY DEF OutputsInv
<1> QED BY <1>1, <1>2, InitIInv, NextIInv, NextOutputsInv, PTL DEF Spec
=============================================================================
