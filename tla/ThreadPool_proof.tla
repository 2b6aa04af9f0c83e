-------------------------- MODULE ThreadPool_proof --------------------------
(***************************************************************************)
(* For any number of callers, workers and tasks: the counters by which the *)
(* pool decides are exact, and each of its steps is one that fork and join *)
(* allows.                                                                 *)
(***************************************************************************)
EXTENDS ThreadPoolProps, SequenceTheorems, FunctionTheorems, FiniteSetTheorems,
        TLAPS

-----------------------------------------------------------------------------
(* How many elements of a sequence are in a set, and how one element       *)
(* weighs.                                                                 *)
In(q, C) == {i \in DOMAIN q : q[i] \in C}
HowMany(q, C) == Cardinality(In(q, C))
Weight(f, C) == IF f \in C THEN 1 ELSE 0

(* FrontLast: a sequence that is not empty has a front and a last element. *)
LEMMA FrontLast ==
  ASSUME NEW S, NEW q \in Seq(S), q # << >>
  PROVE  /\ Len(q) \in Nat \ {0}
         /\ Front(q) \in Seq(S)
         /\ Len(Front(q)) = Len(q) - 1
         /\ \A i \in 1 .. Len(q) - 1 : Front(q)[i] = q[i]
         /\ Last(q) = q[Len(q)]
         /\ Last(q) \in S
         /\ q = Append(Front(q), Last(q))
<1>1. Len(q) \in Nat \ {0}
  BY EmptySeq
<1>2. Front(q) \in Seq(S) /\ Len(Front(q)) = Len(q) - 1 /\ \A i \in 1 .. Len(q) - 1 : Front(q)[i] = q[i]
  <2> DEFINE n == Len(q) - 1
  <2>1. 1 \in Int /\ n \in Nat /\ n - 1 + 1 = n /\ \A i \in 1 .. n : q[i] \in S /\ 1 + i - 1 = i
    BY <1>1
  <2> HIDE DEF n
  <2>2. /\ SubSeq(q, 1, n) \in Seq(S)
        /\ Len(SubSeq(q, 1, n)) = IF 1 <= n THEN n - 1 + 1 ELSE 0
        /\ \A i \in 1 .. n - 1 + 1 : SubSeq(q, 1, n)[i] = q[1 + i - 1]
    BY <2>1, SubSeqProperties
  <2>3. Len(SubSeq(q, 1, n)) = n
    <3> DEFINE len == Len(SubSeq(q, 1, n))
    <3>1. len = IF 1 <= n THEN n - 1 + 1 ELSE 0
      BY <2>2
    <3> HIDE DEF len
    <3>2. len = n
      BY <2>1, <3>1
    <3> QED BY <3>2 DEF len
  <2>4. \A i \in 1 .. n : SubSeq(q, 1, n)[i] = q[i]
    BY <2>1, <2>2
  <2> QED BY <2>2, <2>3, <2>4 DEF Front, n
<1>3. Last(q) = q[Len(q)] /\ Last(q) \in S
  BY <1>1 DEF Last
<1>4. q = Append(Front(q), Last(q))
  <2>1. Append(Front(q), Last(q)) \in Seq(S) /\ Len(Append(Front(q), Last(q))) = Len(q)
    BY <1>1, <1>2, <1>3
  <2>2. \A i \in 1 .. Len(q) : Append(Front(q), Last(q))[i] = q[i]
    BY <1>1, <1>2, <1>3
  <2> QED BY <2>1, <2>2, SeqEqual
<1> QED BY <1>1, <1>2, <1>3, <1>4

(* Swapped: a sequence with another last element.                          *)
LEMMA Swapped ==
  ASSUME NEW S, NEW q \in Seq(S), q # << >>, NEW f \in S
  PROVE  /\ Append(Front(q), f) \in Seq(S)
         /\ Append(Front(q), f) # << >>
         /\ Len(Append(Front(q), f)) = Len(q)
         /\ DOMAIN q = 1 .. Len(q) /\ DOMAIN Append(Front(q), f) = 1 .. Len(q)
         /\ \A i \in 1 .. Len(q) - 1 : Append(Front(q), f)[i] = q[i]
         /\ Append(Front(q), f)[Len(q)] = f
         /\ Last(Append(Front(q), f)) = f
<1> DEFINE F == Front(q)
<1>1. /\ F \in Seq(S) /\ Len(F) = Len(q) - 1 /\ Len(q) \in Nat \ {0}
      /\ \A i \in 1 .. Len(q) - 1 : F[i] = q[i]
  BY FrontLast
<1> HIDE DEF F
<1>2. /\ Append(F, f) \in Seq(S) /\ Append(F, f) # << >>
      /\ Len(Append(F, f)) = Len(F) + 1
      /\ \A i \in 1 .. Len(F) : Append(F, f)[i] = F[i]
      /\ Append(F, f)[Len(F) + 1] = f
  BY <1>1, AppendProperties
<1>3. Len(F) + 1 = Len(q) /\ \A i \in 1 .. Len(q) - 1 : i \in 1 .. Len(F)
  BY <1>1
<1>4. /\ Len(Append(F, f)) = Len(q) /\ Append(F, f)[Len(q)] = f
      /\ \A i \in 1 .. Len(q) - 1 : Append(F, f)[i] = q[i]
  BY <1>1, <1>2, <1>3
<1>5. DOMAIN q = 1 .. Len(q) /\ DOMAIN Append(F, f) = 1 .. Len(q)
  BY <1>2, <1>4
<1>6. Last(Append(F, f)) = f
  BY <1>4 DEF Last
<1> QED BY <1>2, <1>4, <1>5, <1>6 DEF F

(* CountType: what is counted is finite and no more than the sequence.     *)
LEMMA CountType ==
  ASSUME NEW S, NEW q \in Seq(S), NEW C
  PROVE  /\ IsFiniteSet(In(q, C))
         /\ HowMany(q, C) \in Nat
         /\ HowMany(q, C) <= Len(q)
<1>1. In(q, C) \subseteq 1 .. Len(q) /\ Len(q) \in Nat
  BY DEF In
<1>2. IsFiniteSet(1 .. Len(q)) /\ Cardinality(1 .. Len(q)) = Len(q)
  <2>1. 1 \in Int /\ Len(q) \in Int /\ Len(q) >= 0
    BY <1>1
  <2>2. /\ IsFiniteSet(1 .. Len(q))
        /\ Cardinality(1 .. Len(q)) = IF 1 > Len(q) THEN 0 ELSE Len(q) - 1 + 1
    BY <2>1, FS_Interval
  <2> QED BY <2>1, <2>2
<1>3. IsFiniteSet(In(q, C)) /\ Cardinality(In(q, C)) <= Len(q)
  BY <1>1, <1>2, FS_Subset
<1> QED BY <1>3, FS_CardinalityType DEF HowMany

(* CountOne: an index that is counted makes the count positive.            *)
LEMMA CountOne ==
  ASSUME NEW S, NEW q \in Seq(S), NEW C, NEW i \in DOMAIN q, q[i] \in C
  PROVE  HowMany(q, C) > 0
<1>1. i \in In(q, C)
  BY DEF In
<1>2. IsFiniteSet(In(q, C)) /\ HowMany(q, C) \in Nat
  BY CountType
<1>3. HowMany(q, C) # 0
  BY <1>1, <1>2, FS_EmptySet DEF HowMany
<1> QED BY <1>2, <1>3

(* CountNone: nothing is counted in the empty sequence.                    *)
LEMMA CountNone == \A C : HowMany(<< >>, C) = 0
<1> SUFFICES ASSUME NEW C PROVE HowMany(<< >>, C) = 0
  OBVIOUS
<1>1. In(<< >>, C) = {}
  BY DEF In
<1> QED BY <1>1, FS_EmptySet DEF HowMany

(* CountAppend: an element at the end adds its weight.                     *)
LEMMA CountAppend ==
  ASSUME NEW S, NEW q \in Seq(S), NEW f \in S, NEW C
  PROVE  HowMany(Append(q, f), C) = HowMany(q, C) + Weight(f, C)
<1> DEFINE n == Len(q) + 1
<1>1. IsFiniteSet(In(q, C)) /\ HowMany(q, C) \in Nat
  BY CountType
<1>2. n \notin In(q, C)
  BY DEF In
<1>3. CASE f \in C
  <2>1. In(Append(q, f), C) = In(q, C) \cup {n}
    BY <1>3, AppendProperties DEF In
  <2> QED BY <1>1, <1>2, <1>3, <2>1, FS_AddElement DEF HowMany, Weight
<1>4. CASE f \notin C
  <2>1. In(Append(q, f), C) = In(q, C)
    BY <1>4, AppendProperties DEF In
  <2> QED BY <1>1, <1>4, <2>1 DEF HowMany, Weight
<1> QED BY <1>3, <1>4

(* CountFront: without its last element a sequence is lighter by it.       *)
LEMMA CountFront ==
  ASSUME NEW S, NEW q \in Seq(S), q # << >>, NEW C
  PROVE  HowMany(q, C) = HowMany(Front(q), C) + Weight(Last(q), C)
<1>1. Front(q) \in Seq(S) /\ Last(q) \in S /\ q = Append(Front(q), Last(q))
  BY FrontLast
<1>2. HowMany(Append(Front(q), Last(q)), C) = HowMany(Front(q), C) + Weight(Last(q), C)
  BY <1>1, CountAppend
<1> QED BY <1>1, <1>2

(* CountCons: an element at the front adds its weight.                     *)
LEMMA CountCons ==
  ASSUME NEW S, NEW q \in Seq(S), NEW f \in S, NEW C
  PROVE  HowMany(<<f>> \o q, C) = HowMany(q, C) + Weight(f, C)
<1> DEFINE I == In(q, C)
           J == {i \in 2 .. Len(q) + 1 : q[i - 1] \in C}
           shift == [i \in I |-> i + 1]
<1>1. IsFiniteSet(I) /\ HowMany(q, C) \in Nat
  BY CountType
<1>2. I \subseteq 1 .. Len(q) /\ Len(q) \in Nat /\ DOMAIN q = 1 .. Len(q)
  BY DEF In
<1>3. shift \in Bijection(I, J)
  <2>1. shift \in [I -> J]
    BY <1>2 DEF In
  <2>2. \A i, j \in I : shift[i] = shift[j] => i = j
    BY <1>2
  <2>3. \A j \in J : \E i \in I : shift[i] = j
    <3> SUFFICES ASSUME NEW j \in J PROVE \E i \in I : shift[i] = j
      OBVIOUS
    <3>1. j - 1 \in I /\ (j - 1) + 1 = j
      BY <1>2 DEF In
    <3> QED BY <3>1
  <2> QED BY <2>1, <2>2, <2>3, Fun_IsBij
<1>4. IsFiniteSet(J) /\ Cardinality(J) = Cardinality(I)
  <2>1. ExistsBijection(I, J)
    BY <1>3 DEF ExistsBijection
  <2> HIDE DEF I, J
  <2> QED BY <1>1, <2>1, FS_Bijection
<1>5. /\ Len(<<f>> \o q) = Len(q) + 1 /\ DOMAIN (<<f>> \o q) = 1 .. Len(q) + 1
      /\ (<<f>> \o q)[1] = f
      /\ \A i \in 2 .. Len(q) + 1 : (<<f>> \o q)[i] = q[i - 1]
  <2>1. <<f>> \in Seq(S) /\ Len(<<f>>) = 1 /\ <<f>>[1] = f
    OBVIOUS
  <2> QED BY <2>1, <1>2, ConcatProperties
<1>6. CASE f \in C
  <2>1. In(<<f>> \o q, C) = J \cup {1} /\ 1 \notin J
    BY <1>2, <1>5, <1>6 DEF In
  <2> HIDE DEF J
  <2> QED BY <1>1, <1>4, <1>6, <2>1, FS_AddElement DEF HowMany, Weight
<1>7. CASE f \notin C
  <2>1. In(<<f>> \o q, C) = J
    BY <1>2, <1>5, <1>7 DEF In
  <2> HIDE DEF J
  <2> QED BY <1>1, <1>4, <1>7, <2>1 DEF HowMany, Weight
<1> QED BY <1>6, <1>7

(* CountTail: without its first element a sequence is lighter by it.       *)
LEMMA CountTail ==
  ASSUME NEW S, NEW q \in Seq(S), q # << >>, NEW C
  PROVE  HowMany(q, C) = HowMany(Tail(q), C) + Weight(Head(q), C)
<1>1. Head(q) \in S /\ Tail(q) \in Seq(S)
  BY HeadTailProperties
<1>2. q = <<Head(q)>> \o Tail(q)
  <2>1. Len(q) \in Nat \ {0}
    BY EmptySeq
  <2>2. <<Head(q)>> \in Seq(S) /\ Len(<<Head(q)>>) = 1 /\ <<Head(q)>>[1] = q[1]
    BY <1>1
  <2>3. <<Head(q)>> \o Tail(q) \in Seq(S) /\ Len(<<Head(q)>> \o Tail(q)) = Len(q)
    BY <1>1, <2>1, <2>2, ConcatProperties, HeadTailProperties
  <2>4. \A i \in 1 .. Len(q) : (<<Head(q)>> \o Tail(q))[i] = q[i]
    BY <1>1, <2>1, <2>2, ConcatProperties, HeadTailProperties
  <2> QED BY <2>3, <2>4, SeqEqual
<1>3. HowMany(<<Head(q)>> \o Tail(q), C) = HowMany(Tail(q), C) + Weight(Head(q), C)
  BY <1>1, CountCons
<1> QED BY <1>2, <1>3

-----------------------------------------------------------------------------
(* How many frames of all stacks are in a set. *)
At(s, C) == {p \in UNION {{t} \X DOMAIN s[t] : t \in Thread} : s[p[1]][p[2]] \in C}
Count(s, C) == Cardinality(At(s, C))
Elsewhere(s, t, C) == {p \in At(s, C) : p[1] # t}

(* CountSplit: what is counted is on the stack of one thread or elsewhere. *)
LEMMA CountSplit ==
  ASSUME NEW s \in [Thread -> Seq(FrameType)], NEW t \in Thread, NEW C
  PROVE  /\ IsFiniteSet(At(s, C)) <=> IsFiniteSet(Elsewhere(s, t, C))
         /\ IsFiniteSet(At(s, C)) =>
              /\ Cardinality(Elsewhere(s, t, C)) \in Nat
              /\ Count(s, C) = Cardinality(Elsewhere(s, t, C)) + HowMany(s[t], C)
<1> DEFINE R == Elsewhere(s, t, C)
           H == {t} \X In(s[t], C)
<1>1. s[t] \in Seq(FrameType) /\ DOMAIN s[t] = 1 .. Len(s[t]) /\ Len(s[t]) \in Nat
  OBVIOUS
<1>2. At(s, C) = R \cup H /\ R \cap H = {} /\ R \subseteq At(s, C)
  <2>1. In(s[t], C) \subseteq DOMAIN s[t]
    BY DEF In
  <2>2. ASSUME NEW p \in At(s, C), p[1] = t PROVE p \in H
    BY <2>2 DEF At, In
  <2>3. H \subseteq At(s, C)
    BY <2>1 DEF At, In
  <2> QED BY <2>2, <2>3 DEF Elsewhere
<1>3. IsFiniteSet(H) /\ Cardinality(H) = HowMany(s[t], C) /\ HowMany(s[t], C) \in Nat
  <2>1. IsFiniteSet(In(s[t], C)) /\ HowMany(s[t], C) \in Nat
    BY <1>1, CountType
  <2>2. IsFiniteSet({t}) /\ Cardinality({t}) = 1
    BY FS_Singleton
  <2>3. IsFiniteSet(H) /\ Cardinality(H) = 1 * Cardinality(In(s[t], C))
    BY <2>1, <2>2, FS_Product
  <2> QED BY <2>1, <2>3 DEF HowMany
<1> HIDE DEF R, H
<1>4. IsFiniteSet(R) => IsFiniteSet(At(s, C))
  BY <1>2, <1>3, FS_Union, ZenonT(60)
<1>5. ASSUME IsFiniteSet(At(s, C))
      PROVE  /\ IsFiniteSet(R) /\ Cardinality(R) \in Nat
             /\ Count(s, C) = Cardinality(R) + HowMany(s[t], C)
  <2>1. IsFiniteSet(R) /\ Cardinality(R) \in Nat
    BY <1>2, <1>5, FS_Subset, FS_CardinalityType
  <2>2. Cardinality(R \cup H) = Cardinality(R) + Cardinality(H) - Cardinality(R \cap H)
    BY <1>3, <2>1, FS_Union
  <2>3. Cardinality(R \cap H) = 0
    BY <1>2, FS_EmptySet
  <2> QED BY <1>2, <1>3, <2>1, <2>2, <2>3 DEF Count
<1> QED BY <1>4, <1>5 DEF R

(* CountOneThread: replacing the stack of one thread changes a count by    *)
(* what the stack has now and what it had.                                 *)
LEMMA CountOneThread ==
  ASSUME NEW s \in [Thread -> Seq(FrameType)], NEW t \in Thread,
         NEW q \in Seq(FrameType), NEW C, IsFiniteSet(At(s, C))
  PROVE  /\ IsFiniteSet(At([s EXCEPT ![t] = q], C))
         /\ Count([s EXCEPT ![t] = q], C) + HowMany(s[t], C) = Count(s, C) + HowMany(q, C)
         /\ Count(s, C) \in Nat /\ Count([s EXCEPT ![t] = q], C) \in Nat
         /\ HowMany(s[t], C) \in Nat /\ HowMany(q, C) \in Nat
         /\ HowMany(s[t], C) <= Count(s, C)
<1> DEFINE s2 == [s EXCEPT ![t] = q]
<1>1. s2 \in [Thread -> Seq(FrameType)] /\ s2[t] = q
  OBVIOUS
<1>2. Elsewhere(s2, t, C) = Elsewhere(s, t, C)
  BY DEF Elsewhere, At
<1> HIDE DEF s2
<1>3. IsFiniteSet(Elsewhere(s, t, C)) /\ IsFiniteSet(At(s2, C))
  BY <1>1, <1>2, CountSplit
<1>4. /\ Cardinality(Elsewhere(s, t, C)) \in Nat
      /\ Count(s, C) = Cardinality(Elsewhere(s, t, C)) + HowMany(s[t], C)
      /\ Count(s2, C) = Cardinality(Elsewhere(s, t, C)) + HowMany(s2[t], C)
  <2>1. Count(s2, C) = Cardinality(Elsewhere(s2, t, C)) + HowMany(s2[t], C)
    BY <1>1, <1>3, CountSplit
  <2>2. /\ Cardinality(Elsewhere(s, t, C)) \in Nat
        /\ Count(s, C) = Cardinality(Elsewhere(s, t, C)) + HowMany(s[t], C)
    BY <1>3, CountSplit
  <2> QED BY <1>2, <2>1, <2>2
<1>5. HowMany(s[t], C) \in Nat /\ HowMany(q, C) \in Nat
  <2>1. s[t] \in Seq(FrameType)
    OBVIOUS
  <2> QED BY <2>1, CountType
<1>6. /\ IsFiniteSet(At(s2, C)) /\ Count(s2, C) + HowMany(s[t], C) = Count(s, C) + HowMany(q, C)
      /\ Count(s, C) \in Nat /\ Count(s2, C) \in Nat
      /\ HowMany(s[t], C) <= Count(s, C)
  BY <1>1, <1>3, <1>4, <1>5
<1> QED BY <1>5, <1>6 DEF s2

-----------------------------------------------------------------------------
(* What may stand on a stack.  A plan has the task of a body submitted by  *)
(* someone.                                                                *)
IsSubmitted(p, c) == c \in Task /\ \E a \in Actor : \E i \in DOMAIN p.submits[a] : p.submits[a][i] = c

Standing(p, f) == f \in BodyFrames /\ f.via # "main" => IsSubmitted(p, f.actor)

Bottom(p, t, f) ==
  \/ t \in External /\ f \in BodyFrames /\ f.via = "main" /\ f.actor = t
  \/ t \in External /\ f \in OwnerFrames /\ p.final[t] # "none"
  \/ t \in Worker /\ f \in RunFrames

Above(p, lower, upper) ==
  \/ /\ upper \in BodyFrames /\ upper.via = "run"
     /\ lower \in RunFrames /\ lower.at = "task"
  \/ /\ upper \in BodyFrames /\ upper.via = "inline"
     /\ lower \in BodyFrames /\ lower.at = "submitting"
     /\ lower.next \in DOMAIN p.submits[lower.actor]
     /\ upper.actor = p.submits[lower.actor][lower.next]
  \/ /\ upper \in RunFrames
     /\ lower \in BodyFrames /\ lower.at \in {"waiting", "destroying"}

Shape(p, t, q) ==
  /\ q \in Seq(FrameType)
  /\ \A i \in DOMAIN q : Standing(p, q[i])
  /\ q # << >> => Bottom(p, t, q[1])
  /\ \A i \in 1 .. Len(q) - 1 : Above(p, q[i], q[i + 1])

(* Two frames of the same kind, of the same actor. *)
Alike(f, g) ==
  \/ f \in BodyFrames /\ g \in BodyFrames /\ f.via = g.via /\ f.actor = g.actor
  \/ f \in RunFrames /\ g \in RunFrames
  \/ f \in OwnerFrames /\ g \in OwnerFrames

(* FrameKinds: what a frame is its kind tells.                             *)
LEMMA FrameKinds ==
  /\ \A f \in FrameType :
       /\ f \in BodyFrames <=> f.kind = "body"
       /\ f \in RunFrames <=> f.kind = "run"
       /\ f \in OwnerFrames <=> f.kind = "owner"
  /\ \A f \in BodyFrames : f \notin RunFrames /\ f \notin OwnerFrames /\ f \in FrameType
  /\ \A f \in RunFrames : f \notin OwnerFrames /\ f \in FrameType
  /\ \A f \in OwnerFrames : f \in FrameType
BY DEF FrameType, BodyFrames, RunFrames, OwnerFrames

(* ShapeFront: without its top a stack keeps its shape, and the top stands *)
(* on what is below it.                                                    *)
LEMMA ShapeFront ==
  ASSUME NEW p, NEW t \in Thread, NEW q, Shape(p, t, q), q # << >>
  PROVE  /\ Shape(p, t, Front(q))
         /\ Last(q) \in FrameType /\ Standing(p, Last(q))
         /\ Front(q) = << >> => Bottom(p, t, Last(q))
         /\ Front(q) # << >> => /\ Last(Front(q)) = q[Len(q) - 1]
                                /\ Above(p, Last(Front(q)), Last(q))
<1>1. q \in Seq(FrameType)
  BY DEF Shape
<1>2. /\ Len(q) \in Nat \ {0} /\ Front(q) \in Seq(FrameType) /\ Len(Front(q)) = Len(q) - 1
      /\ \A i \in 1 .. Len(q) - 1 : Front(q)[i] = q[i]
      /\ Last(q) = q[Len(q)] /\ Last(q) \in FrameType
  BY <1>1, FrontLast
<1>3. DOMAIN q = 1 .. Len(q) /\ DOMAIN Front(q) = 1 .. Len(q) - 1
  BY <1>1, <1>2
<1>4. Standing(p, Last(q))
  BY <1>2, <1>3 DEF Shape
<1>5. ASSUME Front(q) = << >> PROVE Bottom(p, t, Last(q))
  <2>1. Len(q) = 1
    BY <1>2, <1>5
  <2> QED BY <1>2, <2>1 DEF Shape
<1>6. ASSUME Front(q) # << >>
      PROVE  Last(Front(q)) = q[Len(q) - 1] /\ Above(p, Last(Front(q)), Last(q)) /\ Bottom(p, t, Front(q)[1])
  <2>1. Len(q) - 1 \in Nat \ {0}
    BY <1>2, <1>6, EmptySeq
  <2>2. Last(Front(q)) = Front(q)[Len(q) - 1]
    BY <1>2, <1>6, FrontLast
  <2>3. Last(Front(q)) = q[Len(q) - 1]
    BY <1>2, <2>1, <2>2
  <2>4. Above(p, q[Len(q) - 1], q[Len(q)])
    <3>1. Above(p, q[Len(q) - 1], q[Len(q) - 1 + 1])
      BY <1>2, <2>1 DEF Shape
    <3>2. Len(q) - 1 + 1 = Len(q)
      BY <1>2
    <3> QED BY <3>1, <3>2
  <2>5. Front(q)[1] = q[1]
    BY <1>2, <2>1
  <2> QED BY <1>2, <2>3, <2>4, <2>5 DEF Shape
<1>7. Shape(p, t, Front(q))
  <2>1. \A i \in DOMAIN Front(q) : Standing(p, Front(q)[i])
    BY <1>2, <1>3 DEF Shape
  <2>2. ASSUME NEW i \in 1 .. Len(Front(q)) - 1 PROVE Above(p, Front(q)[i], Front(q)[i + 1])
    <3>1. i \in 1 .. Len(q) - 1 /\ i + 1 \in 1 .. Len(q) - 1
      BY <1>2
    <3>2. Above(p, q[i], q[i + 1])
      BY <3>1 DEF Shape
    <3> QED BY <1>2, <3>1, <3>2
  <2> QED BY <1>2, <1>6, <2>1, <2>2 DEF Shape
<1> QED BY <1>2, <1>4, <1>5, <1>6, <1>7

(* ShapeAppend: a frame may be put on a stack on which it may stand.       *)
LEMMA ShapeAppend ==
  ASSUME NEW p, NEW t \in Thread, NEW q, Shape(p, t, q), NEW f \in FrameType,
         Standing(p, f),
         q = << >> => Bottom(p, t, f), q # << >> => Above(p, Last(q), f)
  PROVE  Shape(p, t, Append(q, f))
<1>1. q \in Seq(FrameType) /\ Len(q) \in Nat
  BY DEF Shape
<1>2. /\ Append(q, f) \in Seq(FrameType) /\ Len(Append(q, f)) = Len(q) + 1
      /\ \A i \in 1 .. Len(q) : Append(q, f)[i] = q[i]
      /\ Append(q, f)[Len(q) + 1] = f
      /\ DOMAIN Append(q, f) = 1 .. Len(q) + 1 /\ DOMAIN q = 1 .. Len(q)
  BY <1>1, AppendProperties
<1>3. \A i \in DOMAIN Append(q, f) : Standing(p, Append(q, f)[i])
  BY <1>1, <1>2 DEF Shape
<1>4. Bottom(p, t, Append(q, f)[1])
  <2>1. CASE q = << >>
    BY <1>1, <1>2, <2>1
  <2>2. CASE q # << >>
    <3>1. Len(q) \in Nat \ {0}
      BY <1>1, <2>2, EmptySeq
    <3> QED BY <1>2, <2>2, <3>1 DEF Shape
  <2> QED BY <2>1, <2>2
<1>5. ASSUME NEW i \in 1 .. Len(Append(q, f)) - 1 PROVE Above(p, Append(q, f)[i], Append(q, f)[i + 1])
  <2>1. CASE i = Len(q)
    <3>1. q # << >> /\ Last(q) = q[Len(q)]
      BY <1>1, <1>2, <2>1 DEF Last
    <3> QED BY <1>1, <1>2, <2>1, <3>1
  <2>2. CASE i # Len(q)
    <3>0. i \in 1 .. Len(q)
      BY <1>1, <1>2
    <3>1. i \in 1 .. Len(q) - 1 /\ i \in 1 .. Len(q) /\ i + 1 \in 1 .. Len(q)
      BY <1>1, <2>2, <3>0
    <3>2. Above(p, q[i], q[i + 1])
      BY <3>1 DEF Shape
    <3> QED BY <1>2, <3>1, <3>2
  <2> QED BY <2>1, <2>2
<1> QED BY <1>2, <1>3, <1>4, <1>5 DEF Shape

(* ShapeSwap: the top may be replaced by a frame of its kind and actor.    *)
LEMMA ShapeSwap ==
  ASSUME NEW p, NEW t \in Thread, NEW q, Shape(p, t, q), q # << >>,
         NEW f \in FrameType, Alike(f, Last(q))
  PROVE  Shape(p, t, Append(Front(q), f))
<1>1. /\ Shape(p, t, Front(q)) /\ Standing(p, Last(q))
      /\ Front(q) = << >> => Bottom(p, t, Last(q))
      /\ Front(q) # << >> => Above(p, Last(Front(q)), Last(q))
  BY ShapeFront
<1>2. Standing(p, f)
  BY <1>1, FrameKinds DEF Standing, Alike
<1>3. Front(q) = << >> => Bottom(p, t, f)
  BY <1>1, FrameKinds DEF Bottom, Alike
<1>4. Front(q) # << >> => Above(p, Last(Front(q)), f)
  BY <1>1, FrameKinds DEF Above, Alike
<1> QED BY <1>1, <1>2, <1>3, <1>4, ShapeAppend

-----------------------------------------------------------------------------
(* The frames that the counters count. *)
CountedBy(p, a) == {c \in Range(p.submits[a]) : c \notin p.unwaited}
Executions(p, a) == {f \in BodyFrames : f.via = "run" /\ f.actor \in CountedBy(p, a)}
Busy == {f \in RunFrames : f.at \in {"task", "after"}}
Inside == {f \in BodyFrames : f.via # "main"}

BodiesIn(b, q) == \A i \in DOMAIN q : q[i] \in BodyFrames => q[i].actor \in b
Creates(q) == q # << >> /\ Last(q) \in OwnerFrames /\ Last(q).at = "creating"

(* The stacks have their shape, every body on them has begun, and only the *)
(* workers that exist have frames.                                         *)
StacksInv(p, b, thr, s) ==
  /\ s \in [Thread -> Seq(FrameType)]
  /\ \A t \in Thread :
       /\ Shape(p, t, s[t])
       /\ BodiesIn(b, s[t])
       /\ t \in Worker \ thr => s[t] = << >>
       /\ Creates(s[t]) => thr = {}

CountsInv(p, s, qu, n, act) ==
  /\ \A a \in Actor :
       /\ IsFiniteSet(At(s, Executions(p, a)))
       /\ n[a] = HowMany(qu, CountedBy(p, a)) + Count(s, Executions(p, a))
  /\ IsFiniteSet(At(s, Busy))
  /\ act = Count(s, Busy)

(* A thread is as deep as there are tasks on its stack, or deeper. *)
DepthInv(s, d, exact) ==
  \A t \in Thread :
    /\ d[t] >= HowMany(s[t], Inside)
    /\ exact => d[t] = HowMany(s[t], Inside)

QueueInv(p, qu) == qu \in Seq(Task) /\ \A i \in DOMAIN qu : IsSubmitted(p, qu[i])

PoolInv ==
  /\ TypeOK
  /\ StacksInv(plan, begun, threads, stack)
  /\ CountsInv(plan, stack, queue, num, active)
  /\ DepthInv(stack, depth, failed = {})
  /\ QueueInv(plan, queue)

(* PlanFacts: what a plan is.                                              *)
LEMMA PlanFacts ==
  ASSUME NEW p \in Plans
  PROVE  /\ p.max \in 1 .. MaxWorkers + 1
         /\ \A a \in Actor : p.submits[a] \in Seq(Task)
         /\ p.leaf \subseteq Task /\ p.throws \subseteq Task /\ p.unwaited \subseteq Task
         /\ \A e \in External : p.final[e] \in {"none", "recycle", "destroy"}
         /\ SubmittedOnce(p)
BY PlansAssumption DEF PlanType

(* BodiesAppend: the bodies on a stack with one frame more.                *)
LEMMA BodiesAppend ==
  ASSUME NEW b, NEW q \in Seq(FrameType), BodiesIn(b, q), NEW f \in FrameType,
         f \in BodyFrames => f.actor \in b
  PROVE  BodiesIn(b, Append(q, f))
BY AppendProperties DEF BodiesIn

(* BodiesFront: the bodies on a stack without its top.                     *)
LEMMA BodiesFront ==
  ASSUME NEW b, NEW q \in Seq(FrameType), q # << >>, BodiesIn(b, q)
  PROVE  /\ BodiesIn(b, Front(q))
         /\ Last(q) \in BodyFrames => Last(q).actor \in b
<1>1. /\ Len(q) \in Nat \ {0} /\ Front(q) \in Seq(FrameType) /\ Len(Front(q)) = Len(q) - 1
      /\ \A i \in 1 .. Len(q) - 1 : Front(q)[i] = q[i]
      /\ Last(q) = q[Len(q)] /\ Last(q) \in FrameType
  BY FrontLast
<1> QED BY <1>1 DEF BodiesIn

(* A counter m of h frames and k other things becomes m2 as they become h2 *)
(* and k2.                                                                 *)
Balanced(m, h, k, m2, h2, k2) == m2 + h + k = m + h2 + k2

(* CounterStep: a counter m of the frames in C, and of k things elsewhere, *)
(* that changes by what comes and goes is exact afterwards.                *)
LEMMA CounterStep ==
  ASSUME NEW s \in [Thread -> Seq(FrameType)], NEW t \in Thread,
         NEW q \in Seq(FrameType), NEW C, IsFiniteSet(At(s, C)),
         NEW k \in Nat, NEW k2 \in Nat, NEW m \in Int, NEW m2 \in Int,
         m = k + Count(s, C),
         Balanced(m, HowMany(s[t], C), k, m2, HowMany(q, C), k2)
  PROVE  /\ IsFiniteSet(At([s EXCEPT ![t] = q], C))
         /\ m2 = k2 + Count([s EXCEPT ![t] = q], C)
         /\ m2 \in Nat
<1> DEFINE h == HowMany(s[t], C)
           h2 == HowMany(q, C)
           c == Count(s, C)
           c2 == Count([s EXCEPT ![t] = q], C)
<1>1. /\ IsFiniteSet(At([s EXCEPT ![t] = q], C))
      /\ c2 + h = c + h2 /\ c \in Nat /\ c2 \in Nat /\ h \in Nat /\ h2 \in Nat
  BY CountOneThread
<1>2. m = k + c /\ m2 + h + k = m + h2 + k2
  BY DEF Balanced
<1> HIDE DEF h, h2, c, c2
<1>4. m2 = k2 + c2
  BY <1>1, <1>2
<1> QED BY <1>1, <1>4 DEF c2

(* The same for a counter of frames alone. *)
Moved(m, h, m2, h2) == m2 + h = m + h2

(* MoveStep: a counter of frames that changes by what comes and goes.      *)
LEMMA MoveStep ==
  ASSUME NEW s \in [Thread -> Seq(FrameType)], NEW t \in Thread,
         NEW q \in Seq(FrameType), NEW C, IsFiniteSet(At(s, C)),
         NEW m \in Int, NEW m2 \in Int,
         m = Count(s, C),
         Moved(m, HowMany(s[t], C), m2, HowMany(q, C))
  PROVE  /\ IsFiniteSet(At([s EXCEPT ![t] = q], C))
         /\ m2 = Count([s EXCEPT ![t] = q], C)
         /\ m2 \in Nat
<1>1. /\ IsFiniteSet(At([s EXCEPT ![t] = q], C))
      /\ Count([s EXCEPT ![t] = q], C) + HowMany(s[t], C) = Count(s, C) + HowMany(q, C)
      /\ Count(s, C) \in Nat /\ Count([s EXCEPT ![t] = q], C) \in Nat
      /\ HowMany(s[t], C) \in Nat /\ HowMany(q, C) \in Nat
  BY CountOneThread
<1>2. m2 + HowMany(s[t], C) = Count(s, C) + HowMany(q, C)
  BY DEF Moved
<1> QED BY <1>1, <1>2

(* ThreadStep: one thread's stack changes, and the counters change by what *)
(* comes onto the stack and the queue and what leaves them.                *)
LEMMA ThreadStep ==
  ASSUME StacksInv(plan, begun, threads, stack), CountsInv(plan, stack, queue, num, active),
         DepthInv(stack, depth, failed = {}), queue \in Seq(Task), depth \in [Thread -> Nat],
         NEW t \in Thread, stack[t] # << >>, NEW q, Shape(plan, t, q),
         begun \subseteq begun', BodiesIn(begun', q),
         \A w \in Worker \ threads' : stack[w] = << >>, threads = {} => threads' = {},
         Creates(q) => threads' = {},
         queue' \in Seq(Task), num' \in [Actor -> Int], active' \in Int, depth' \in [Thread -> Int],
         \A a \in Actor :
           Balanced(num[a], HowMany(stack[t], Executions(plan, a)), HowMany(queue, CountedBy(plan, a)),
                    num'[a], HowMany(q, Executions(plan, a)), HowMany(queue', CountedBy(plan, a))),
         Moved(active, HowMany(stack[t], Busy), active', HowMany(q, Busy)),
         \A u \in Thread : u # t => depth'[u] = depth[u],
         depth'[t] >= HowMany(q, Inside),
         failed' = {} => failed = {} /\ depth'[t] = HowMany(q, Inside)
  PROVE  /\ StacksInv(plan, begun', threads', [stack EXCEPT ![t] = q])
         /\ CountsInv(plan, [stack EXCEPT ![t] = q], queue', num', active')
         /\ DepthInv([stack EXCEPT ![t] = q], depth', failed' = {})
         /\ num' \in [Actor -> Nat] /\ active' \in Nat /\ depth' \in [Thread -> Nat]
<1> DEFINE s2 == [stack EXCEPT ![t] = q]
<1>1. stack \in [Thread -> Seq(FrameType)] /\ q \in Seq(FrameType) /\ stack[t] \in Seq(FrameType)
  BY DEF StacksInv, Shape
<1>2. /\ s2 \in [Thread -> Seq(FrameType)] /\ s2[t] = q
      /\ \A u \in Thread : u # t => s2[u] = stack[u]
  BY <1>1
<1>3. StacksInv(plan, begun', threads', s2)
  <2>1. ASSUME NEW u \in Thread
        PROVE  /\ Shape(plan, u, s2[u]) /\ BodiesIn(begun', s2[u])
               /\ u \in Worker \ threads' => s2[u] = << >>
               /\ Creates(s2[u]) => threads' = {}
    <3>1. CASE u = t
      BY <1>2, <3>1 DEF StacksInv
    <3>2. CASE u # t
      BY <1>2, <3>2 DEF StacksInv, BodiesIn
    <3> QED BY <3>1, <3>2
  <2> QED BY <1>2, <2>1 DEF StacksInv
<1> HIDE DEF s2
<1>4. \A C : IsFiniteSet(At(stack, C)) => Count(stack, C) \in Nat
  BY FS_CardinalityType DEF Count
<1>5. ASSUME NEW a \in Actor
      PROVE  /\ IsFiniteSet(At(s2, Executions(plan, a)))
             /\ num'[a] = HowMany(queue', CountedBy(plan, a)) + Count(s2, Executions(plan, a))
             /\ num'[a] \in Nat
  <2>1. IsFiniteSet(At(stack, Executions(plan, a))) /\ num[a] = HowMany(queue, CountedBy(plan, a)) + Count(stack, Executions(plan, a))
    BY DEF CountsInv
  <2>2. HowMany(queue, CountedBy(plan, a)) \in Nat /\ HowMany(queue', CountedBy(plan, a)) \in Nat
    BY CountType
  <2>3. num'[a] \in Int
    OBVIOUS
  <2>4. Balanced(num[a], HowMany(stack[t], Executions(plan, a)), HowMany(queue, CountedBy(plan, a)),
                 num'[a], HowMany(q, Executions(plan, a)), HowMany(queue', CountedBy(plan, a)))
    OBVIOUS
  <2>5. num[a] \in Int
    BY <1>4, <2>1, <2>2
  <2> DEFINE E == Executions(plan, a)
             k == HowMany(queue, CountedBy(plan, a))
             k2 == HowMany(queue', CountedBy(plan, a))
             m == num[a]
             m2 == num'[a]
  <2>6. /\ stack \in [Thread -> Seq(FrameType)] /\ q \in Seq(FrameType) /\ IsFiniteSet(At(stack, E))
        /\ k \in Nat /\ k2 \in Nat /\ m \in Int /\ m2 \in Int /\ m = k + Count(stack, E)
        /\ Balanced(m, HowMany(stack[t], E), k, m2, HowMany(q, E), k2)
    BY <1>1, <2>1, <2>2, <2>3, <2>4, <2>5
  <2> HIDE DEF E, k, k2, m, m2
  <2>7. /\ IsFiniteSet(At([stack EXCEPT ![t] = q], E))
        /\ m2 = k2 + Count([stack EXCEPT ![t] = q], E)
        /\ m2 \in Nat
    BY <2>6, CounterStep
  <2> QED BY <2>7 DEF s2, E, k2, m2
<1>6. /\ IsFiniteSet(At(s2, Busy)) /\ active' = Count(s2, Busy) /\ active' \in Nat
  <2>1. IsFiniteSet(At(stack, Busy)) /\ active = Count(stack, Busy)
    BY DEF CountsInv
  <2>2. active \in Int /\ active' \in Int
    BY <1>4, <2>1
  <2>3. Moved(active, HowMany(stack[t], Busy), active', HowMany(q, Busy))
    OBVIOUS
  <2> DEFINE B == Busy
  <2>4. /\ stack \in [Thread -> Seq(FrameType)] /\ q \in Seq(FrameType) /\ IsFiniteSet(At(stack, B))
        /\ active \in Int /\ active' \in Int /\ active = Count(stack, B)
        /\ Moved(active, HowMany(stack[t], B), active', HowMany(q, B))
    BY <1>1, <2>1, <2>2, <2>3
  <2> HIDE DEF B
  <2>5. /\ IsFiniteSet(At([stack EXCEPT ![t] = q], B))
        /\ active' = Count([stack EXCEPT ![t] = q], B)
        /\ active' \in Nat
    BY <2>4, MoveStep
  <2> QED BY <2>5 DEF s2, B
<1>7. ASSUME NEW u \in Thread
      PROVE  /\ depth'[u] >= HowMany(s2[u], Inside)
             /\ (failed' = {}) => depth'[u] = HowMany(s2[u], Inside)
             /\ depth'[u] \in Nat
  <2>1. s2[u] \in Seq(FrameType)
    BY <1>2
  <2>2. HowMany(s2[u], Inside) \in Nat
    BY <2>1, CountType
  <2>3. CASE u = t
    BY <1>2, <2>2, <2>3
  <2>4. CASE u # t
    BY <1>2, <2>2, <2>4 DEF DepthInv
  <2> QED BY <2>3, <2>4
<1>8. CountsInv(plan, s2, queue', num', active') /\ num' \in [Actor -> Nat] /\ active' \in Nat
  BY <1>5, <1>6 DEF CountsInv
<1>9. DepthInv(s2, depth', (failed' = {})) /\ depth' \in [Thread -> Nat]
  <2>1. depth' \in [Thread -> Nat]
    <3>1. \A u \in Thread : depth'[u] \in Nat
      BY <1>7
    <3> QED BY <3>1
  <2>2. DepthInv(s2, depth', (failed' = {}))
    BY <1>7 DEF DepthInv
  <2> QED BY <2>1, <2>2
<1> QED BY <1>3, <1>8, <1>9 DEF s2

(* WokenFrames: waking sleepers changes no frame that is counted.          *)
LEMMA WokenFrames ==
  ASSUME NEW p, NEW b, NEW thr, NEW s, NEW qu, NEW n, NEW act, NEW d, NEW x,
         StacksInv(p, b, thr, s), CountsInv(p, s, qu, n, act), DepthInv(s, d, x),
         NEW S, S \subseteq {t \in Thread : Asleep(t, s)}
  PROVE  /\ StacksInv(p, b, thr, Woken(S, s))
         /\ CountsInv(p, Woken(S, s), qu, n, act)
         /\ DepthInv(Woken(S, s), d, x)
<1> DEFINE s2 == Woken(S, s)
<1>1. RunFrame(FALSE) \in RunFrames /\ RunFrame(FALSE) \in FrameType /\ RunFrame(FALSE) \notin BodyFrames
  BY FrameKinds DEF RunFrame, RunFrames
<1>2. ASSUME NEW t \in S
      PROVE  /\ t \in Thread /\ s[t] \in Seq(FrameType) /\ s[t] # << >>
             /\ Last(s[t]) \in RunFrames /\ Last(s[t]).at = "asleep"
  <2>1. t \in Thread /\ s[t] \in Seq(FrameType) /\ s[t] # << >> /\ Last(s[t]).at = "asleep"
    BY DEF Asleep, StacksInv
  <2>2. Last(s[t]) \in FrameType
    BY <2>1, FrontLast
  <2> QED BY <2>1, <2>2 DEF FrameType, BodyFrames, OwnerFrames
<1>3. ASSUME NEW t \in Thread
      PROVE  /\ Shape(p, t, s2[t]) /\ BodiesIn(b, s2[t])
             /\ t \in Worker \ thr => s2[t] = << >>
             /\ Creates(s2[t]) => thr = {}
             /\ s2[t] \in Seq(FrameType)
             /\ DOMAIN s2[t] = DOMAIN s[t]
             /\ \A C : RunFrame(FALSE) \notin C /\ (\A f \in RunFrames : f.at = "asleep" => f \notin C)
                         => \A i \in DOMAIN s[t] : s2[t][i] \in C <=> s[t][i] \in C
  <2>1. CASE t \in S
    <3>1. s2[t] = Append(Front(s[t]), RunFrame(FALSE))
      BY <2>1 DEF Woken
    <3>2. Alike(RunFrame(FALSE), Last(s[t]))
      BY <1>1, <1>2, <2>1 DEF Alike
    <3>3. Shape(p, t, s2[t])
      <4>1. Shape(p, t, s[t]) /\ s[t] # << >>
        BY <1>2, <2>1 DEF StacksInv
      <4> QED BY <1>1, <3>1, <3>2, <4>1, ShapeSwap
    <3>4. /\ Front(s[t]) \in Seq(FrameType) /\ Len(s[t]) \in Nat \ {0} /\ Len(Front(s[t])) = Len(s[t]) - 1
          /\ \A i \in 1 .. Len(s[t]) - 1 : Front(s[t])[i] = s[t][i]
          /\ Last(s[t]) = s[t][Len(s[t])]
      BY <1>2, <2>1, FrontLast
    <3>5. BodiesIn(b, s2[t])
      <4>1. BodiesIn(b, Front(s[t]))
        BY <1>2, <2>1, BodiesFront DEF StacksInv
      <4> QED BY <1>1, <3>1, <3>4, <4>1, BodiesAppend
    <3>6. t \notin Worker \ thr
      BY <1>2, <2>1 DEF StacksInv
    <3>7. /\ s2[t] \in Seq(FrameType) /\ Len(s2[t]) = Len(s[t]) /\ DOMAIN s2[t] = 1 .. Len(s[t]) /\ DOMAIN s[t] = 1 .. Len(s[t])
          /\ \A i \in 1 .. Len(s[t]) - 1 : s2[t][i] = s[t][i]
          /\ s2[t][Len(s[t])] = RunFrame(FALSE)
      <4> DEFINE r == RunFrame(FALSE)
      <4>1. s[t] \in Seq(FrameType) /\ s[t] # << >> /\ r \in FrameType
        BY <1>1, <1>2, <2>1
      <4> HIDE DEF r
      <4>2. /\ Append(Front(s[t]), r) \in Seq(FrameType) /\ Len(Append(Front(s[t]), r)) = Len(s[t])
            /\ DOMAIN s[t] = 1 .. Len(s[t]) /\ DOMAIN Append(Front(s[t]), r) = 1 .. Len(s[t])
            /\ \A i \in 1 .. Len(s[t]) - 1 : Append(Front(s[t]), r)[i] = s[t][i]
            /\ Append(Front(s[t]), r)[Len(s[t])] = r
        BY <4>1, Swapped
      <4> QED BY <3>1, <4>2 DEF r
    <3>8. ~Creates(s2[t])
      <4>1. Last(s2[t]) = RunFrame(FALSE)
        BY <3>7 DEF Last
      <4> QED BY <1>1, <4>1, FrameKinds DEF Creates
    <3>9. ASSUME NEW C, RunFrame(FALSE) \notin C, \A f \in RunFrames : f.at = "asleep" => f \notin C,
                 NEW i \in DOMAIN s[t]
          PROVE  s2[t][i] \in C <=> s[t][i] \in C
      <4>1. CASE i = Len(s[t])
        BY <1>2, <2>1, <3>4, <3>7, <3>9, <4>1
      <4>2. CASE i # Len(s[t])
        BY <3>4, <3>7, <4>2
      <4> QED BY <4>1, <4>2
    <3> QED BY <3>3, <3>5, <3>6, <3>7, <3>8, <3>9
  <2>2. CASE t \notin S
    <3>1. s2[t] = s[t]
      BY <2>2 DEF Woken
    <3> QED BY <3>1 DEF StacksInv
  <2> QED BY <2>1, <2>2
<1>4. s2 \in [Thread -> Seq(FrameType)]
  <2>1. \A t \in Thread : s2[t] \in Seq(FrameType)
    BY <1>3
  <2> QED BY <2>1 DEF Woken
<1>5. StacksInv(p, b, thr, s2)
  BY <1>3, <1>4 DEF StacksInv
<1>6. ASSUME NEW C, RunFrame(FALSE) \notin C, \A f \in RunFrames : f.at = "asleep" => f \notin C
      PROVE  At(s2, C) = At(s, C) /\ \A t \in Thread : In(s2[t], C) = In(s[t], C)
  <2>1. \A t \in Thread : DOMAIN s2[t] = DOMAIN s[t] /\ \A i \in DOMAIN s[t] : s2[t][i] \in C <=> s[t][i] \in C
    BY <1>3, <1>6
  <2> HIDE DEF s2
  <2> QED BY <2>1 DEF At, In
<1>7. /\ RunFrame(FALSE) \notin Busy /\ \A f \in RunFrames : f.at = "asleep" => f \notin Busy
      /\ RunFrame(FALSE) \notin Inside /\ \A f \in RunFrames : f.at = "asleep" => f \notin Inside
      /\ \A a \in Actor : RunFrame(FALSE) \notin Executions(p, a) /\ \A f \in RunFrames : f.at = "asleep" => f \notin Executions(p, a)
  BY <1>1, FrameKinds DEF Busy, Inside, Executions, RunFrame
<1> HIDE DEF s2
<1>8. CountsInv(p, s2, qu, n, act)
  <2>1. At(s2, Busy) = At(s, Busy) /\ \A a \in Actor : At(s2, Executions(p, a)) = At(s, Executions(p, a))
    BY <1>6, <1>7
  <2> QED BY <2>1 DEF CountsInv, Count
<1>9. DepthInv(s2, d, x)
  <2>1. \A t \in Thread : In(s2[t], Inside) = In(s[t], Inside)
    BY <1>6, <1>7
  <2> QED BY <2>1 DEF DepthInv, HowMany
<1> QED BY <1>5, <1>8, <1>9 DEF s2

(* CountsAreExact: what the invariant says of the counters is what the     *)
(* property says.                                                          *)
LEMMA CountsAreExact == PoolInv => CountsExact
<1> SUFFICES ASSUME PoolInv PROVE CountsExact
  OBVIOUS
<1>1. \A p \in UNION {{t} \X DOMAIN stack[t] : t \in Thread} : stack[p[1]][p[2]] \in FrameType
  BY DEF PoolInv, StacksInv
<1>2. WaiterCounts
  <2> SUFFICES ASSUME NEW a \in Actor
      PROVE  num[a] = Cardinality({i \in DOMAIN queue : queue[i] \in Counted(a)})
               + Cardinality(Positions("body", LAMBDA f : f.via = "run" /\ f.actor \in Counted(a)))
    BY DEF WaiterCounts
  <2>1. CountedBy(plan, a) = Counted(a)
    BY DEF CountedBy, Counted
  <2>2. At(stack, Executions(plan, a)) = Positions("body", LAMBDA f : f.via = "run" /\ f.actor \in Counted(a))
    BY <1>1, <2>1, FrameKinds DEF At, Executions, Positions
  <2> QED BY <2>1, <2>2 DEF PoolInv, CountsInv, HowMany, In, Count
<1>3. ActiveCounts
  <2>1. At(stack, Busy) = Positions("run", LAMBDA f : f.at \in {"task", "after"})
    BY <1>1, FrameKinds DEF At, Busy, Positions
  <2> QED BY <2>1 DEF ActiveCounts, PoolInv, CountsInv, Count
<1>4. DepthCounts
  <2> SUFFICES ASSUME failed = {}, NEW t \in Thread
      PROVE depth[t] = Cardinality({i \in DOMAIN stack[t] :
                    stack[t][i].kind = "body" /\ stack[t][i].via # "main"})
    BY DEF DepthCounts
  <2>1. In(stack[t], Inside) = {i \in DOMAIN stack[t] : stack[t][i].kind = "body" /\ stack[t][i].via # "main"}
    <3>1. \A i \in DOMAIN stack[t] : stack[t][i] \in FrameType
      BY DEF PoolInv, StacksInv
    <3> QED BY <3>1, FrameKinds DEF In, Inside
  <2> QED BY <2>1 DEF PoolInv, DepthInv, HowMany
<1> QED BY <1>2, <1>3, <1>4 DEF CountsExact

-----------------------------------------------------------------------------
(* FrameWeights: which frames which counter counts.                        *)
LEMMA FrameWeights ==
  /\ \A f \in BodyFrames :
       /\ Weight(f, Busy) = 0
       /\ Weight(f, Inside) = IF f.via = "main" THEN 0 ELSE 1
       /\ \A p, a : Weight(f, Executions(p, a)) =
                      IF f.via = "run" /\ f.actor \in CountedBy(p, a) THEN 1 ELSE 0
  /\ \A f \in RunFrames :
       /\ Weight(f, Busy) = IF f.at \in {"task", "after"} THEN 1 ELSE 0
       /\ Weight(f, Inside) = 0
       /\ \A p, a : Weight(f, Executions(p, a)) = 0
  /\ \A f \in OwnerFrames :
       /\ Weight(f, Busy) = 0
       /\ Weight(f, Inside) = 0
       /\ \A p, a : Weight(f, Executions(p, a)) = 0
BY FrameKinds DEF Weight, Busy, Inside, Executions

(* BodyNew: the body of an actor that begins.                              *)
LEMMA BodyNew ==
  ASSUME NEW a \in Actor, NEW via \in {"main", "run", "inline"}
  PROVE  /\ Body(a, via) \in BodyFrames /\ Body(a, via) \in FrameType
         /\ Body(a, via).via = via /\ Body(a, via).actor = a
         /\ Body(a, via).next = 1
         /\ Body(a, via).at = IF plan.submits[a] = << >> THEN "ending" ELSE "submitting"
<1> DEFINE at == IF plan.submits[a] = << >> THEN "ending" ELSE "submitting"
<1>1. at \in {"submitting", "waiting", "leaving", "destroying", "ending"}
  OBVIOUS
<1>2. Body(a, via) = [kind |-> "body", actor |-> a, via |-> via, next |-> 1, thrown |-> FALSE, at |-> at]
  BY DEF Body
<1> HIDE DEF at
<1>3. /\ Body(a, via) \in BodyFrames
      /\ Body(a, via).via = via /\ Body(a, via).actor = a
      /\ Body(a, via).next = 1 /\ Body(a, via).at = at
  BY <1>1, <1>2 DEF BodyFrames
<1> QED BY <1>3, FrameKinds DEF at

(* Where a body may be. *)
Places == {"submitting", "waiting", "leaving", "destroying", "ending"}

(* BodyEdited: a body with another place, position or exception is a body  *)
(* of the same actor.                                                      *)
LEMMA BodyEdited ==
  ASSUME NEW f \in BodyFrames, NEW at \in Places
  PROVE  /\ [f EXCEPT !.at = at] \in BodyFrames
         /\ [f EXCEPT !.at = at, !.thrown = TRUE] \in BodyFrames
         /\ [f EXCEPT !.next = @ + 1] \in BodyFrames
         /\ Alike([f EXCEPT !.at = at], f)
         /\ Alike([f EXCEPT !.at = at, !.thrown = TRUE], f)
         /\ Alike([f EXCEPT !.next = @ + 1], f)
<1>1. f \in [kind : {"body"}, actor : Actor, via : {"main", "run", "inline"}, next : Nat \ {0},
              thrown : BOOLEAN, at : Places]
  BY DEF BodyFrames, Places
<1>2. /\ [f EXCEPT !.at = at] \in BodyFrames
      /\ [f EXCEPT !.at = at].via = f.via /\ [f EXCEPT !.at = at].actor = f.actor
  BY <1>1 DEF BodyFrames, Places
<1>3. /\ [f EXCEPT !.at = at, !.thrown = TRUE] \in BodyFrames
      /\ [f EXCEPT !.at = at, !.thrown = TRUE].via = f.via
      /\ [f EXCEPT !.at = at, !.thrown = TRUE].actor = f.actor
  BY <1>1 DEF BodyFrames, Places
<1>4. /\ [f EXCEPT !.next = @ + 1] \in BodyFrames
      /\ [f EXCEPT !.next = @ + 1].via = f.via /\ [f EXCEPT !.next = @ + 1].actor = f.actor
  BY <1>1 DEF BodyFrames, Places
<1> QED BY <1>2, <1>3, <1>4 DEF Alike

(* SameCounts: what is counted of a stack stays.                           *)
SameCounts(p, q, r) ==
  /\ \A a \in Actor : HowMany(q, Executions(p, a)) = HowMany(r, Executions(p, a))
  /\ HowMany(q, Busy) = HowMany(r, Busy)
  /\ HowMany(q, Inside) = HowMany(r, Inside)

(* CountSwap: another top changes a count by the two weights.              *)
LEMMA CountSwap ==
  ASSUME NEW q \in Seq(FrameType), q # << >>, NEW f \in FrameType, NEW C
  PROVE  /\ HowMany(Append(Front(q), f), C) + Weight(Last(q), C) = HowMany(q, C) + Weight(f, C)
         /\ HowMany(Append(Front(q), f), C) \in Nat /\ HowMany(q, C) \in Nat
         /\ Weight(f, C) \in {0, 1} /\ Weight(Last(q), C) \in {0, 1}
<1>1. Front(q) \in Seq(FrameType)
  BY FrontLast
<1>2. HowMany(Append(Front(q), f), C) = HowMany(Front(q), C) + Weight(f, C)
  BY <1>1, CountAppend
<1>3. HowMany(q, C) = HowMany(Front(q), C) + Weight(Last(q), C)
  BY CountFront
<1>4. HowMany(Front(q), C) \in Nat
  BY <1>1, CountType
<1>5. Weight(f, C) \in {0, 1} /\ Weight(Last(q), C) \in {0, 1}
  BY DEF Weight
<1> QED BY <1>2, <1>3, <1>4, <1>5

(* QuietSwap: a top that is replaced by a like one counts the same.        *)
LEMMA QuietSwap ==
  ASSUME NEW p, NEW q \in Seq(FrameType), q # << >>, NEW f \in FrameType,
         Alike(f, Last(q)), Weight(f, Busy) = Weight(Last(q), Busy)
  PROVE  SameCounts(p, Append(Front(q), f), q)
<1>1. \A a : Weight(f, Executions(p, a)) = Weight(Last(q), Executions(p, a))
  BY FrameWeights DEF Alike
<1>2. Weight(f, Inside) = Weight(Last(q), Inside)
  BY FrameWeights DEF Alike
<1>3. ASSUME NEW C, Weight(f, C) = Weight(Last(q), C)
      PROVE  HowMany(Append(Front(q), f), C) = HowMany(q, C)
  <2>1. /\ HowMany(Append(Front(q), f), C) + Weight(Last(q), C) = HowMany(q, C) + Weight(f, C)
        /\ HowMany(Append(Front(q), f), C) \in Nat /\ HowMany(q, C) \in Nat
        /\ Weight(f, C) \in {0, 1}
    BY CountSwap
  <2> QED BY <1>3, <2>1
<1> QED BY <1>1, <1>2, <1>3 DEF SameCounts

(* QuietPush: the start of run on top of a stack is not counted.           *)
LEMMA QuietPush ==
  ASSUME NEW p, NEW q \in Seq(FrameType), NEW flush \in BOOLEAN
  PROVE  /\ SameCounts(p, Append(q, RunFrame(flush)), q)
         /\ RunFrame(flush) \in RunFrames /\ RunFrame(flush) \in FrameType
<1>1. /\ RunFrame(flush) \in RunFrames /\ RunFrame(flush) \in FrameType
      /\ RunFrame(flush).at = "top"
  BY DEF RunFrame, RunFrames, FrameType
<1>2. ASSUME NEW C, Weight(RunFrame(flush), C) = 0
      PROVE  HowMany(Append(q, RunFrame(flush)), C) = HowMany(q, C)
  <2>1. HowMany(Append(q, RunFrame(flush)), C) = HowMany(q, C) + Weight(RunFrame(flush), C)
    BY <1>1, CountAppend
  <2>2. HowMany(q, C) \in Nat
    BY CountType
  <2> QED BY <1>2, <2>1, <2>2
<1>3. /\ \A a : Weight(RunFrame(flush), Executions(p, a)) = 0
      /\ Weight(RunFrame(flush), Busy) = 0 /\ Weight(RunFrame(flush), Inside) = 0
  BY <1>1, FrameWeights
<1> QED BY <1>1, <1>2, <1>3 DEF SameCounts

-----------------------------------------------------------------------------
(* A step to the stacks s, some sleepers being woken or none. *)
Wakes(s) == \E S \in SUBSET {u \in Thread : Asleep(u, s)} : stack' = Woken(S, s)

(* NobodyWoken: a step that wakes nobody.                                  *)
LEMMA NobodyWoken ==
  ASSUME NEW s \in [Thread -> Seq(FrameType)], stack' = s
  PROVE  Wakes(s)
<1>1. s = Woken({}, s)
  BY DEF Woken
<1> QED BY <1>1 DEF Wakes

(* OneWoken: notify_one wakes a sleeper, or nobody.                        *)
LEMMA OneWoken ==
  ASSUME NEW s \in [Thread -> Seq(FrameType)], NotifyOne(s)
  PROVE  Wakes(s)
<1> DEFINE sleepers == {t \in Thread : Asleep(t, s)}
<1>1. CASE sleepers = {}
  BY <1>1, NobodyWoken DEF NotifyOne
<1>2. CASE sleepers # {}
  <2>1. PICK t \in sleepers : stack' = Woken({t}, s)
    BY <1>2 DEF NotifyOne
  <2> QED BY <2>1 DEF Wakes
<1> QED BY <1>1, <1>2

(* StepKeeps: a step that changes one stack, wakes sleepers and moves the  *)
(* counters by what it changes keeps the invariant.                        *)
LEMMA StepKeeps ==
  ASSUME PoolInv, plan' = plan, threads' \subseteq Worker,
         NEW t \in Thread, stack[t] # << >>, NEW q, Shape(plan, t, q),
         begun \subseteq begun', begun' \subseteq Actor, BodiesIn(begun', q),
         \A w \in Worker \ threads' : stack[w] = << >>, threads = {} => threads' = {},
         Creates(q) => threads' = {},
         Wakes([stack EXCEPT ![t] = q]),
         QueueInv(plan, queue'), num' \in [Actor -> Int], active' \in Int, depth' \in [Thread -> Int],
         \A a \in Actor :
           Balanced(num[a], HowMany(stack[t], Executions(plan, a)), HowMany(queue, CountedBy(plan, a)),
                    num'[a], HowMany(q, Executions(plan, a)), HowMany(queue', CountedBy(plan, a))),
         Moved(active, HowMany(stack[t], Busy), active', HowMany(q, Busy)),
         \A u \in Thread : u # t => depth'[u] = depth[u],
         depth'[t] >= HowMany(q, Inside),
         failed' = {} => failed = {} /\ depth'[t] = HowMany(q, Inside),
         running' \in BOOLEAN, is_leaf' \in [Thread -> BOOLEAN],
         error' \in [Actor -> BOOLEAN], verdict' \in [Actor -> {"none", "true", "false"}],
         ended' \subseteq begun', failed' \subseteq ended', crashed' \in BOOLEAN
  PROVE  PoolInv'
<1> DEFINE s2 == [stack EXCEPT ![t] = q]
<1>1. /\ StacksInv(plan, begun, threads, stack) /\ CountsInv(plan, stack, queue, num, active)
      /\ DepthInv(stack, depth, failed = {}) /\ queue \in Seq(Task) /\ depth \in [Thread -> Nat]
  BY DEF PoolInv, TypeOK
<1>2. queue' \in Seq(Task)
  BY DEF QueueInv
<1>3. /\ StacksInv(plan, begun', threads', s2) /\ CountsInv(plan, s2, queue', num', active')
      /\ DepthInv(s2, depth', failed' = {})
      /\ num' \in [Actor -> Nat] /\ active' \in Nat /\ depth' \in [Thread -> Nat]
  BY <1>1, <1>2, ThreadStep
<1>4. /\ StacksInv(plan, begun', threads', stack') /\ CountsInv(plan, stack', queue', num', active')
      /\ DepthInv(stack', depth', failed' = {})
  <2>1. PICK S \in SUBSET {u \in Thread : Asleep(u, s2)} : stack' = Woken(S, s2)
    BY DEF Wakes
  <2> HIDE DEF s2
  <2> QED BY <1>3, <2>1, WokenFrames
<1>5. stack' \in [Thread -> Seq(FrameType)]
  BY <1>4 DEF StacksInv
<1>6. TypeOK'
  BY <1>2, <1>3, <1>5 DEF PoolInv, TypeOK
<1>7. /\ StacksInv(plan', begun', threads', stack') /\ CountsInv(plan', stack', queue', num', active')
      /\ DepthInv(stack', depth', failed' = {}) /\ QueueInv(plan', queue')
  BY <1>4
<1> QED BY <1>6, <1>7 DEF PoolInv

-----------------------------------------------------------------------------
(* InitPool: at first nobody is counted: the callers are about to submit   *)
(* and the workers to take a task.                                         *)
LEMMA InitPool == Init => PoolInv
<1> SUFFICES ASSUME Init PROVE PoolInv
  OBVIOUS
<1>1. plan \in Plans /\ stack = [t \in Thread |-> IF t \in External THEN <<Body(t, "main")>> ELSE Fresh(t)]
  BY DEF Init
<1>2. /\ plan.max \in 1 .. MaxWorkers + 1 /\ MaxWorkers \in Nat
      /\ \A a \in Actor : plan.submits[a] \in Seq(Task)
  BY <1>1, PlanFacts, ThreadsAssumption
<1>3. threads = Created /\ Created \subseteq Worker
  BY <1>2 DEF Init, Created, max, Worker
<1>4. ASSUME NEW t \in External
      PROVE  /\ Body(t, "main") \in BodyFrames
             /\ Body(t, "main").via = "main" /\ Body(t, "main").actor = t
  BY BodyNew DEF Actor
<1>5. RunFrame(FALSE) \in RunFrames /\ RunFrame(FALSE).at = "top"
  BY DEF RunFrame, RunFrames
<1>6. ASSUME NEW t \in Thread
      PROVE  \/ stack[t] = << >> /\ t \notin External /\ t \notin threads
             \/ t \in External /\ stack[t] = <<Body(t, "main")>>
             \/ t \in threads /\ t \notin External /\ stack[t] = <<RunFrame(FALSE)>>
  BY <1>1, <1>3 DEF Fresh
<1>7. ASSUME NEW f \in FrameType
      PROVE  /\ <<f>> \in Seq(FrameType) /\ Len(<<f>>) = 1 /\ <<f>>[1] = f /\ DOMAIN <<f>> = {1}
             /\ <<f>> # << >> /\ Last(<<f>>) = f
  BY DEF Last
<1>8. ASSUME NEW t \in Thread
      PROVE  /\ stack[t] \in Seq(FrameType)
             /\ Shape(plan, t, stack[t])
             /\ BodiesIn(begun, stack[t])
             /\ t \in Worker \ threads => stack[t] = << >>
             /\ ~Creates(stack[t])
             /\ \A i \in DOMAIN stack[t] : /\ stack[t][i] \notin Busy /\ stack[t][i] \notin Inside
                                           /\ \A a : stack[t][i] \notin Executions(plan, a)
  <2>1. CASE stack[t] = << >> /\ t \notin External /\ t \notin threads
    <3>1. << >> \in Seq(FrameType) /\ DOMAIN << >> = {} /\ Len(<< >>) = 0
      OBVIOUS
    <3> QED BY <2>1, <3>1 DEF Shape, BodiesIn, Creates
  <2>2. CASE t \in External /\ stack[t] = <<Body(t, "main")>>
    <3>1. /\ Body(t, "main") \in BodyFrames /\ Body(t, "main") \in FrameType
          /\ Body(t, "main").via = "main" /\ Body(t, "main").actor = t
      BY <2>2, <1>4, FrameKinds
    <3> DEFINE f == Body(t, "main")
    <3>2. f \notin OwnerFrames /\ f \notin Busy /\ f \notin Inside /\ \A a : f \notin Executions(plan, a)
      BY <3>1, FrameKinds DEF Busy, Inside, Executions
    <3>3. /\ <<f>> \in Seq(FrameType) /\ Len(<<f>>) = 1 /\ <<f>>[1] = f /\ DOMAIN <<f>> = {1}
          /\ <<f>> # << >> /\ Last(<<f>>) = f
      BY <1>7, <3>1
    <3>4. stack[t] = <<f>> /\ f \in BodyFrames /\ f \in FrameType /\ f.via = "main" /\ f.actor = t
      BY <2>2, <3>1
    <3> HIDE DEF f
    <3>5. t \notin Worker /\ t \in begun
      BY <2>2, ThreadsAssumption DEF Init
    <3>6. Shape(plan, t, stack[t])
      <4>1. Standing(plan, f) /\ Bottom(plan, t, f)
        BY <2>2, <3>4 DEF Standing, Bottom
      <4>2. 1 .. 1 - 1 = {}
        OBVIOUS
      <4> QED BY <3>3, <3>4, <4>1, <4>2 DEF Shape
    <3> QED BY <3>2, <3>3, <3>4, <3>5, <3>6 DEF BodiesIn, Creates
  <2>3. CASE t \in threads /\ t \notin External /\ stack[t] = <<RunFrame(FALSE)>>
    <3> DEFINE f == RunFrame(FALSE)
    <3>1. stack[t] = <<f>> /\ f \in RunFrames /\ f \in FrameType /\ f.at = "top"
      BY <1>5, <2>3, FrameKinds
    <3>2. f \notin OwnerFrames /\ f \notin BodyFrames /\ f \notin Busy /\ f \notin Inside /\ \A a : f \notin Executions(plan, a)
      BY <3>1, FrameKinds DEF Busy, Inside, Executions
    <3> HIDE DEF f
    <3>3. /\ <<f>> \in Seq(FrameType) /\ Len(<<f>>) = 1 /\ <<f>>[1] = f /\ DOMAIN <<f>> = {1}
          /\ <<f>> # << >> /\ Last(<<f>>) = f
      BY <1>7, <3>1
    <3>4. t \in Worker
      BY <1>3, <2>3
    <3>5. Shape(plan, t, stack[t])
      <4>1. Standing(plan, f) /\ Bottom(plan, t, f)
        BY <3>1, <3>2, <3>4 DEF Standing, Bottom
      <4>2. 1 .. 1 - 1 = {}
        OBVIOUS
      <4> QED BY <3>1, <3>3, <4>1, <4>2 DEF Shape
    <3> QED BY <2>3, <3>1, <3>2, <3>3, <3>5 DEF BodiesIn, Creates
  <2> QED BY <1>6, <2>1, <2>2, <2>3
<1>9. stack \in [Thread -> Seq(FrameType)]
  BY <1>1, <1>8
<1>10. StacksInv(plan, begun, threads, stack)
  BY <1>8, <1>9 DEF StacksInv
<1>11. /\ At(stack, Busy) = {} /\ \A a : At(stack, Executions(plan, a)) = {}
       /\ \A t \in Thread : In(stack[t], Inside) = {}
  BY <1>8 DEF At, In
<1>12. queue = << >> /\ active = 0 /\ \A a \in Actor : num[a] = 0
  BY DEF Init
<1>13. CountsInv(plan, stack, queue, num, active)
  <2>1. \A C : HowMany(queue, C) = 0
    BY <1>12, CountNone
  <2>2. IsFiniteSet({}) /\ Cardinality({}) = 0
    BY FS_EmptySet
  <2>3. \A C : At(stack, C) = {} => Count(stack, C) = 0 /\ IsFiniteSet(At(stack, C))
    BY <2>2 DEF Count
  <2>4. \A a \in Actor : num[a] = HowMany(queue, CountedBy(plan, a)) + Count(stack, Executions(plan, a))
    BY <1>11, <1>12, <2>1, <2>3
  <2> QED BY <1>11, <1>12, <2>3, <2>4 DEF CountsInv
<1>14. DepthInv(stack, depth, failed = {})
  <2>1. \A t \in Thread : HowMany(stack[t], Inside) = 0
    BY <1>11, FS_EmptySet DEF HowMany
  <2>2. \A t \in Thread : depth[t] = 0
    BY DEF Init
  <2> QED BY <2>1, <2>2 DEF DepthInv
<1>15. QueueInv(plan, queue)
  BY <1>12 DEF QueueInv
<1>16. TypeOK
  <2>1. /\ queue \in Seq(Task) /\ active \in Nat /\ running \in BOOLEAN /\ threads \subseteq Worker
        /\ depth \in [Thread -> Nat] /\ is_leaf \in [Thread -> BOOLEAN]
        /\ num \in [Actor -> Nat] /\ error \in [Actor -> BOOLEAN]
        /\ verdict \in [Actor -> {"none", "true", "false"}]
    BY <1>3 DEF Init
  <2>2. begun \subseteq Actor /\ ended \subseteq begun /\ failed \subseteq ended /\ crashed \in BOOLEAN
    BY DEF Init, Actor
  <2> QED BY <1>1, <1>9, <2>1, <2>2 DEF TypeOK
<1> QED BY <1>10, <1>13, <1>14, <1>15, <1>16 DEF PoolInv

-----------------------------------------------------------------------------
(* TopFacts: the stack of a thread that has a frame, and its top.          *)
LEMMA TopFacts ==
  ASSUME PoolInv, NEW t \in Thread, stack[t] # << >>
  PROVE  /\ plan \in Plans
         /\ stack \in [Thread -> Seq(FrameType)]
         /\ stack[t] \in Seq(FrameType) /\ Front(stack[t]) \in Seq(FrameType)
         /\ Shape(plan, t, stack[t]) /\ Shape(plan, t, Front(stack[t]))
         /\ BodiesIn(begun, stack[t]) /\ BodiesIn(begun, Front(stack[t]))
         /\ Last(stack[t]) \in FrameType /\ Standing(plan, Last(stack[t]))
         /\ Front(stack[t]) = << >> => Bottom(plan, t, Last(stack[t]))
         /\ Front(stack[t]) # << >> =>
              /\ Last(Front(stack[t])) = Beneath(t)
              /\ Above(plan, Beneath(t), Last(stack[t]))
         /\ Last(stack[t]) \in BodyFrames => Last(stack[t]).actor \in begun
         /\ t \notin Worker \ threads
<1>1. /\ plan \in Plans /\ stack \in [Thread -> Seq(FrameType)] /\ Shape(plan, t, stack[t])
      /\ BodiesIn(begun, stack[t]) /\ t \notin Worker \ threads
  BY DEF PoolInv, TypeOK, StacksInv
<1>2. stack[t] \in Seq(FrameType) /\ Front(stack[t]) \in Seq(FrameType)
  BY <1>1, FrontLast
<1>3. BodiesIn(begun, Front(stack[t])) /\ (Last(stack[t]) \in BodyFrames => Last(stack[t]).actor \in begun)
  BY <1>1, <1>2, BodiesFront
<1>4. /\ Shape(plan, t, Front(stack[t]))
      /\ Last(stack[t]) \in FrameType /\ Standing(plan, Last(stack[t]))
      /\ Front(stack[t]) = << >> => Bottom(plan, t, Last(stack[t]))
      /\ Front(stack[t]) # << >> => /\ Last(Front(stack[t])) = stack[t][Len(stack[t]) - 1]
                                    /\ Above(plan, Last(Front(stack[t])), Last(stack[t]))
  BY <1>1, ShapeFront
<1> QED BY <1>1, <1>2, <1>3, <1>4 DEF Beneath

(* A stack that the thread may have instead, and that counts the same. *)
KeepsCounts(t, q) ==
  /\ Shape(plan, t, q) /\ BodiesIn(begun, q) /\ ~Creates(q)
  /\ SameCounts(plan, q, stack[t])

(* QuietStep: a step after which the same is counted keeps the invariant,  *)
(* whether sleepers are woken or not.                                      *)
LEMMA QuietStep ==
  ASSUME PoolInv, UNCHANGED <<plan, queue, active, threads, depth, num, begun>>,
         NEW t \in Thread, stack[t] # << >>, NEW q, KeepsCounts(t, q),
         Wakes([stack EXCEPT ![t] = q]),
         running' \in BOOLEAN, is_leaf' \in [Thread -> BOOLEAN],
         error' \in [Actor -> BOOLEAN], verdict' \in [Actor -> {"none", "true", "false"}],
         ended' \subseteq begun, failed' \subseteq ended', failed \subseteq failed', crashed' \in BOOLEAN
  PROVE  PoolInv'
<1> USE DEF KeepsCounts
<1>1. /\ stack[t] \in Seq(FrameType) /\ q \in Seq(FrameType) /\ queue \in Seq(Task)
      /\ begun \subseteq Actor /\ num \in [Actor -> Nat] /\ active \in Nat /\ depth \in [Thread -> Nat]
      /\ QueueInv(plan, queue) /\ DepthInv(stack, depth, failed = {})
  BY DEF PoolInv, TypeOK, StacksInv, Shape
<1>2. \A C : HowMany(stack[t], C) \in Nat /\ HowMany(queue, C) \in Nat
  BY <1>1, CountType
<1>3. ASSUME NEW a \in Actor
      PROVE  Balanced(num[a], HowMany(stack[t], Executions(plan, a)), HowMany(queue, CountedBy(plan, a)),
                      num'[a], HowMany(q, Executions(plan, a)), HowMany(queue', CountedBy(plan, a)))
  BY DEF SameCounts, Balanced
<1>4. Moved(active, HowMany(stack[t], Busy), active', HowMany(q, Busy))
  BY DEF SameCounts, Moved
<1>5. depth'[t] >= HowMany(q, Inside) /\ (failed' = {} => failed = {} /\ depth'[t] = HowMany(q, Inside))
  BY <1>1 DEF SameCounts, DepthInv
<1>6. /\ num' \in [Actor -> Int] /\ active' \in Int /\ depth' \in [Thread -> Int]
      /\ QueueInv(plan, queue') /\ begun \subseteq begun' /\ begun' \subseteq Actor /\ BodiesIn(begun', q)
      /\ ended' \subseteq begun' /\ \A u \in Thread : u # t => depth'[u] = depth[u]
      /\ plan' = plan /\ threads' \subseteq Worker /\ threads' = threads /\ ~Creates(q)
      /\ \A w \in Worker \ threads' : stack[w] = << >>
  BY <1>1 DEF PoolInv, TypeOK, StacksInv, Thread
<1> QED BY <1>3, <1>4, <1>5, <1>6, StepKeeps

(* PairIsConcat: two frames, one after the other.                          *)
LEMMA PairIsConcat ==
  ASSUME NEW f \in FrameType, NEW g \in FrameType
  PROVE  <<f>> \in Seq(FrameType) /\ <<g>> \in Seq(FrameType) /\ <<f, g>> = <<f>> \o <<g>>
<1>1. <<f>> \in Seq(FrameType) /\ <<g>> \in Seq(FrameType) /\ <<f, g>> \in Seq(FrameType)
  OBVIOUS
<1>2. Len(<<f>>) = 1 /\ Len(<<g>>) = 1 /\ Len(<<f, g>>) = 2 /\ <<f>>[1] = f /\ <<g>>[1] = g
  OBVIOUS
<1>3. /\ <<f>> \o <<g>> \in Seq(FrameType) /\ Len(<<f>> \o <<g>>) = 2
      /\ (<<f>> \o <<g>>)[1] = f /\ (<<f>> \o <<g>>)[2] = g
  BY <1>1, <1>2, ConcatProperties
<1>4. \A i \in 1 .. 2 : <<f, g>>[i] = (<<f>> \o <<g>>)[i]
  <2>1. <<f, g>>[1] = f /\ <<f, g>>[2] = g /\ 1 .. 2 = {1, 2}
    OBVIOUS
  <2> QED BY <1>3, <2>1
<1> QED BY <1>1, <1>2, <1>3, <1>4, SeqEqual

(* SwapTop: the top of a body's stack moves on, and run may start above.   *)
LEMMA SwapTop ==
  ASSUME PoolInv, NEW t \in Thread, stack[t] # << >>, Last(stack[t]) \in BodyFrames,
         NEW f \in BodyFrames, Alike(f, Last(stack[t]))
  PROVE  /\ KeepsCounts(t, Append(Front(stack[t]), f))
         /\ Replace(t, <<f>>) = [stack EXCEPT ![t] = Append(Front(stack[t]), f)]
         /\ f.at \in {"waiting", "destroying"} =>
              /\ KeepsCounts(t, Append(Append(Front(stack[t]), f), RunFrame(TRUE)))
              /\ Replace(t, <<f, RunFrame(TRUE)>>) =
                   [stack EXCEPT ![t] = Append(Append(Front(stack[t]), f), RunFrame(TRUE))]
<1> DEFINE q == Append(Front(stack[t]), f)
           r == RunFrame(TRUE)
<1>1. /\ stack \in [Thread -> Seq(FrameType)] /\ stack[t] \in Seq(FrameType) /\ Front(stack[t]) \in Seq(FrameType)
      /\ Shape(plan, t, stack[t]) /\ BodiesIn(begun, Front(stack[t])) /\ Last(stack[t]).actor \in begun
  BY TopFacts
<1>2. f \in FrameType /\ f.actor = Last(stack[t]).actor /\ f \notin OwnerFrames /\ f \notin RunFrames
  BY FrameKinds DEF Alike
<1>3. Weight(f, Busy) = Weight(Last(stack[t]), Busy)
  BY FrameWeights
<1>4. SameCounts(plan, q, stack[t])
  BY <1>1, <1>2, <1>3, QuietSwap
<1>5. Shape(plan, t, q)
  BY <1>1, <1>2, ShapeSwap
<1>6. BodiesIn(begun, q)
  BY <1>1, <1>2, BodiesAppend
<1>7. q \in Seq(FrameType) /\ q # << >> /\ Last(q) = f
  BY <1>1, <1>2, Swapped
<1>8. Front(stack[t]) \o <<f>> = q
  BY <1>1, <1>2, AppendIsConcat
<1>9. Replace(t, <<f>>) = [stack EXCEPT ![t] = q]
  BY <1>8 DEF Replace
<1>10. ASSUME f.at \in {"waiting", "destroying"}
       PROVE  /\ Shape(plan, t, Append(q, r)) /\ BodiesIn(begun, Append(q, r)) /\ ~Creates(Append(q, r))
              /\ SameCounts(plan, Append(q, r), stack[t])
              /\ Replace(t, <<f, r>>) = [stack EXCEPT ![t] = Append(q, r)]
  <2>1. r \in RunFrames /\ r \in FrameType /\ r \notin BodyFrames /\ r \notin OwnerFrames
    BY FrameKinds DEF RunFrame, RunFrames
  <2> HIDE DEF q
  <2>2. SameCounts(plan, Append(q, r), q)
    BY <1>7, QuietPush
  <2> HIDE DEF r
  <2>3. Standing(plan, r) /\ Above(plan, Last(q), r)
    BY <1>7, <1>10, <2>1 DEF Standing, Above
  <2>4. Shape(plan, t, Append(q, r))
    BY <1>5, <1>7, <2>1, <2>3, ShapeAppend
  <2>5. BodiesIn(begun, Append(q, r))
    BY <1>6, <1>7, <2>1, BodiesAppend
  <2>6. ~Creates(Append(q, r))
    <3>1. Append(q, r)[Len(q) + 1] = r /\ Len(Append(q, r)) = Len(q) + 1
      BY <1>7, <2>1, AppendProperties
    <3> QED BY <2>1, <3>1 DEF Creates, Last
  <2>7. Front(stack[t]) \o <<f, r>> = Append(q, r)
    <3>1. <<f>> \in Seq(FrameType) /\ <<r>> \in Seq(FrameType) /\ <<f, r>> = <<f>> \o <<r>>
      BY <1>2, <2>1, PairIsConcat
    <3>2. Front(stack[t]) \o (<<f>> \o <<r>>) = (Front(stack[t]) \o <<f>>) \o <<r>>
      BY <1>1, <3>1, ConcatAssociative
    <3>3. q \o <<r>> = Append(q, r)
      BY <1>7, <2>1, AppendIsConcat
    <3>4. Front(stack[t]) \o <<f>> = q
      BY <1>8 DEF q
    <3> QED BY <3>1, <3>2, <3>3, <3>4
  <2>8. Replace(t, <<f, r>>) = [stack EXCEPT ![t] = Append(q, r)]
    BY <2>7 DEF Replace
  <2>9. SameCounts(plan, Append(q, r), stack[t])
    BY <1>4, <2>2 DEF SameCounts, q
  <2> QED BY <2>4, <2>5, <2>6, <2>8, <2>9
<1>11. ~Creates(q)
  BY <1>2, <1>7 DEF Creates
<1> QED BY <1>4, <1>5, <1>6, <1>9, <1>10, <1>11 DEF KeepsCounts

(* QuietSteps: the steps of a body after which the same is counted.        *)
LEMMA QuietSteps ==
  ASSUME PoolInv, NEW t \in Thread,
         SubmitFromLeaf(t) \/ CallWait(t) \/ WaitReturns(t) \/ DestroyWaiter(t) \/ WaiterDestroyed(t)
  PROVE  PoolInv'
<1> DEFINE l == Last(stack[t])
           Moves(f) == stack' = Replace(t, <<f>>)
           Runs(f) == stack' = Replace(t, <<f, RunFrame(TRUE)>>) /\ f.at \in {"waiting", "destroying"}
<1>1. /\ plan \in Plans /\ stack \in [Thread -> Seq(FrameType)] /\ running \in BOOLEAN
      /\ is_leaf \in [Thread -> BOOLEAN] /\ error \in [Actor -> BOOLEAN]
      /\ verdict \in [Actor -> {"none", "true", "false"}]
      /\ ended \subseteq begun /\ failed \subseteq ended /\ crashed \in BOOLEAN /\ begun \subseteq Actor
  BY DEF PoolInv, TypeOK
<1>2. stack[t] # << >> /\ l.kind = "body"
  BY DEF SubmitFromLeaf, Submits, CallWait, WaitReturns, DestroyWaiter, WaiterDestroyed, Top
<1>3. l \in BodyFrames
  BY <1>2, TopFacts, FrameKinds
<1>4. UNCHANGED <<plan, queue, active, running, threads, depth, is_leaf, num, error, begun, ended, failed, crashed>>
  BY DEF SubmitFromLeaf, CallWait, WaitReturns, DestroyWaiter, WaiterDestroyed, locals, waiters, history
<1>5. verdict' \in [Actor -> {"none", "true", "false"}]
  BY <1>1 DEF SubmitFromLeaf, CallWait, WaitReturns, DestroyWaiter, WaiterDestroyed, waiters
<1>6. \E f \in BodyFrames : Alike(f, l) /\ (Moves(f) \/ Runs(f))
  <2>1. \A at \in Places :
          /\ [l EXCEPT !.at = at] \in BodyFrames /\ Alike([l EXCEPT !.at = at], l)
          /\ [l EXCEPT !.at = at, !.thrown = TRUE] \in BodyFrames /\ Alike([l EXCEPT !.at = at, !.thrown = TRUE], l)
    BY <1>3, BodyEdited
  <2>2. CASE SubmitFromLeaf(t)
    BY <2>1, <2>2 DEF SubmitFromLeaf, Places
  <2>3. CASE CallWait(t)
    <3>1. [l EXCEPT !.at = "waiting"].at = "waiting"
      BY <1>3 DEF BodyFrames
    <3> QED BY <2>1, <2>3, <3>1 DEF CallWait, Places
  <2>4. CASE WaitReturns(t)
    BY <2>1, <2>4 DEF WaitReturns, Places
  <2>5. CASE DestroyWaiter(t)
    <3>1. [l EXCEPT !.at = "destroying"].at = "destroying"
      BY <1>3 DEF BodyFrames
    <3> QED BY <2>1, <2>5, <3>1 DEF DestroyWaiter, Places
  <2>6. CASE WaiterDestroyed(t)
    BY <2>1, <2>6 DEF WaiterDestroyed, Places
  <2> QED BY <2>2, <2>3, <2>4, <2>5, <2>6
<1>7. PICK f \in BodyFrames : Alike(f, l) /\ (Moves(f) \/ Runs(f))
  BY <1>6
<1>8. \E q : KeepsCounts(t, q) /\ stack' = [stack EXCEPT ![t] = q]
  <2>1. CASE Moves(f)
    <3>1. /\ KeepsCounts(t, Append(Front(stack[t]), f))
          /\ Replace(t, <<f>>) = [stack EXCEPT ![t] = Append(Front(stack[t]), f)]
      BY <1>2, <1>3, <1>7, SwapTop
    <3> QED BY <2>1, <3>1
  <2>2. CASE Runs(f)
    <3>1. /\ KeepsCounts(t, Append(Append(Front(stack[t]), f), RunFrame(TRUE)))
          /\ Replace(t, <<f, RunFrame(TRUE)>>) =
               [stack EXCEPT ![t] = Append(Append(Front(stack[t]), f), RunFrame(TRUE))]
      BY <1>2, <1>3, <1>7, <2>2, SwapTop
    <3> QED BY <2>2, <3>1
  <2> QED BY <1>7, <2>1, <2>2
<1>9. PICK q : KeepsCounts(t, q) /\ stack' = [stack EXCEPT ![t] = q]
  BY <1>8
<1>10. Wakes([stack EXCEPT ![t] = q])
  <2>1. [stack EXCEPT ![t] = q] \in [Thread -> Seq(FrameType)]
    BY <1>1, <1>9 DEF KeepsCounts, Shape
  <2> QED BY <1>9, <2>1, NobodyWoken
<1>11. /\ UNCHANGED <<plan, queue, active, threads, depth, num, begun>>
       /\ running' \in BOOLEAN /\ is_leaf' \in [Thread -> BOOLEAN] /\ error' \in [Actor -> BOOLEAN]
       /\ ended' \subseteq begun /\ failed' \subseteq ended' /\ failed \subseteq failed' /\ crashed' \in BOOLEAN
  BY <1>1, <1>4
<1> HIDE DEF Moves, Runs
<1> QED BY <1>2, <1>5, <1>9, <1>10, <1>11, QuietStep

(* OnlySubmitter: a task is counted by the waiter of the one who submits   *)
(* it.                                                                     *)
LEMMA OnlySubmitter ==
  ASSUME NEW p \in Plans, NEW a \in Actor, NEW i \in DOMAIN p.submits[a]
  PROVE  /\ p.submits[a][i] \in Task
         /\ IsSubmitted(p, p.submits[a][i])
         /\ \A b \in Actor : p.submits[a][i] \in CountedBy(p, b)
                               <=> b = a /\ p.submits[a][i] \notin p.unwaited
<1>1. p.submits[a][i] \in Task
  BY PlanFacts
<1>2. \A b \in Actor : p.submits[a][i] \in Range(p.submits[b]) <=> b = a
  BY PlanFacts DEF SubmittedOnce, Range
<1> QED BY <1>1, <1>2 DEF IsSubmitted, CountedBy

(* SubmitFacts: who submits, and what.                                     *)
LEMMA SubmitFacts ==
  ASSUME PoolInv, NEW t \in Thread, Submits(t)
  PROVE  /\ stack[t] # << >>
         /\ Last(stack[t]) \in BodyFrames /\ Last(stack[t]).at = "submitting"
         /\ Last(stack[t]).actor \in Actor
         /\ Last(stack[t]).next \in DOMAIN plan.submits[Last(stack[t]).actor]
         /\ Submitted(t) = plan.submits[Last(stack[t]).actor][Last(stack[t]).next]
         /\ Submitted(t) \in Task
         /\ IsSubmitted(plan, Submitted(t))
         /\ \A b \in Actor : Submitted(t) \in CountedBy(plan, b)
                               <=> b = Last(stack[t]).actor /\ Submitted(t) \notin plan.unwaited
<1> DEFINE l == Last(stack[t])
<1>1. stack[t] # << >> /\ l.kind = "body" /\ l.at = "submitting" /\ l.next <= Len(plan.submits[l.actor])
  BY DEF Submits, Top
<1>2. l \in BodyFrames /\ plan \in Plans
  BY <1>1, TopFacts, FrameKinds
<1>3. l.actor \in Actor /\ l.next \in Nat \ {0}
  BY <1>2 DEF BodyFrames
<1>4. plan.submits[l.actor] \in Seq(Task)
  BY <1>2, <1>3, PlanFacts
<1>5. l.next \in DOMAIN plan.submits[l.actor]
  BY <1>1, <1>3, <1>4
<1> HIDE DEF l
<1>6. Submitted(t) = plan.submits[l.actor][l.next]
  BY DEF Submitted, l
<1>7. /\ Submitted(t) \in Task /\ IsSubmitted(plan, Submitted(t))
      /\ \A b \in Actor : Submitted(t) \in CountedBy(plan, b) <=> b = l.actor /\ Submitted(t) \notin plan.unwaited
  BY <1>2, <1>3, <1>5, <1>6, OnlySubmitter
<1> QED BY <1>1, <1>2, <1>3, <1>5, <1>6, <1>7 DEF l

(* InlineBegins: a task run inside submit is counted by the depth alone.   *)
LEMMA InlineBegins ==
  ASSUME PoolInv, NEW t \in Thread, SubmitInline(t)
  PROVE  PoolInv'
<1> DEFINE l == Last(stack[t])
           c == Submitted(t)
           f == Body(c, "inline")
           q == Append(stack[t], f)
<1>1. /\ stack[t] # << >> /\ l \in BodyFrames /\ l.at = "submitting"
      /\ l.actor \in Actor /\ l.next \in DOMAIN plan.submits[l.actor]
      /\ c = plan.submits[l.actor][l.next] /\ c \in Task /\ IsSubmitted(plan, c)
  BY SubmitFacts DEF SubmitInline
<1>2. /\ stack \in [Thread -> Seq(FrameType)] /\ stack[t] \in Seq(FrameType)
      /\ Shape(plan, t, stack[t]) /\ BodiesIn(begun, stack[t])
  BY <1>1, TopFacts
<1>3. c \in Actor
  BY <1>1 DEF Actor
<1>4. f \in BodyFrames /\ f \in FrameType /\ f.via = "inline" /\ f.actor = c
  BY <1>3, BodyNew
<1>5. /\ stack' = [stack EXCEPT ![t] = q] /\ depth' = [depth EXCEPT ![t] = @ + 1]
      /\ is_leaf' = [is_leaf EXCEPT ![t] = FALSE] /\ begun' = begun \cup {c}
      /\ UNCHANGED <<plan, queue, active, running, threads, num, error, verdict, ended, failed, crashed>>
  BY DEF SubmitInline, waiters
<1>6. TypeOK /\ DepthInv(stack, depth, failed = {}) /\ QueueInv(plan, queue)
  BY DEF PoolInv
<1> HIDE DEF c, f, l
<1>7. Shape(plan, t, q)
  <2>1. Standing(plan, f) /\ Above(plan, Last(stack[t]), f)
    BY <1>1, <1>4 DEF Standing, Above, l
  <2> QED BY <1>1, <1>2, <1>4, <2>1, ShapeAppend
<1>8. BodiesIn(begun', q)
  <2>1. BodiesIn(begun', stack[t]) /\ c \in begun'
    BY <1>2, <1>5 DEF BodiesIn
  <2> QED BY <1>2, <1>4, <2>1, BodiesAppend
<1>9. ~Creates(q)
  <2>1. Append(stack[t], f)[Len(stack[t]) + 1] = f /\ Len(Append(stack[t], f)) = Len(stack[t]) + 1
    BY <1>2, <1>4, AppendProperties
  <2> QED BY <1>4, <2>1, FrameKinds DEF Creates, Last
<1>10. \A C : HowMany(q, C) = HowMany(stack[t], C) + Weight(f, C) /\ HowMany(stack[t], C) \in Nat
  BY <1>2, <1>4, CountAppend, CountType
<1>11. /\ Weight(f, Busy) = 0 /\ Weight(f, Inside) = 1
       /\ \A a : Weight(f, Executions(plan, a)) = 0
  BY <1>4, FrameWeights
<1>12. /\ HowMany(q, Busy) = HowMany(stack[t], Busy)
       /\ HowMany(q, Inside) = HowMany(stack[t], Inside) + 1
       /\ \A a \in Actor : HowMany(q, Executions(plan, a)) = HowMany(stack[t], Executions(plan, a))
  BY <1>10, <1>11
<1> HIDE DEF q
<1>13. \A a \in Actor :
         Balanced(num[a], HowMany(stack[t], Executions(plan, a)), HowMany(queue, CountedBy(plan, a)),
                  num'[a], HowMany(q, Executions(plan, a)), HowMany(queue', CountedBy(plan, a)))
  BY <1>5, <1>12 DEF Balanced
<1>14. Moved(active, HowMany(stack[t], Busy), active', HowMany(q, Busy))
  BY <1>5, <1>12 DEF Moved
<1>15. /\ depth' \in [Thread -> Int] /\ depth'[t] = depth[t] + 1 /\ depth[t] \in Nat
       /\ \A u \in Thread : u # t => depth'[u] = depth[u]
  BY <1>5, <1>6 DEF TypeOK
<1>16. depth'[t] >= HowMany(q, Inside) /\ (failed' = {} => failed = {} /\ depth'[t] = HowMany(q, Inside))
  BY <1>5, <1>6, <1>10, <1>12, <1>15 DEF DepthInv
<1>17. Wakes([stack EXCEPT ![t] = q])
  BY <1>2, <1>5, <1>7, NobodyWoken DEF Shape
<1>18. /\ begun \subseteq begun' /\ begun' \subseteq Actor /\ QueueInv(plan, queue')
       /\ num' \in [Actor -> Int] /\ active' \in Int /\ running' \in BOOLEAN /\ is_leaf' \in [Thread -> BOOLEAN]
       /\ error' \in [Actor -> BOOLEAN] /\ verdict' \in [Actor -> {"none", "true", "false"}]
       /\ ended' \subseteq begun' /\ failed' \subseteq ended' /\ crashed' \in BOOLEAN
  BY <1>3, <1>5, <1>6 DEF TypeOK
<1>19. /\ plan' = plan /\ threads' \subseteq Worker /\ (threads = {} => threads' = {})
       /\ \A w \in Worker \ threads' : stack[w] = << >>
  BY <1>5, <1>6 DEF TypeOK, PoolInv, StacksInv, Thread
<1> QED BY <1>1, <1>7, <1>8, <1>9, <1>13, <1>14, <1>15, <1>16, <1>17, <1>18, <1>19, StepKeeps

(* Queued: a task that is queued is counted in the queue and by its waiter *)
(* at once.                                                                *)
LEMMA Queued ==
  ASSUME PoolInv, NEW t \in Thread, SubmitQueued(t)
  PROVE  PoolInv'
<1> DEFINE l == Last(stack[t])
           c == Submitted(t)
           f == [l EXCEPT !.next = @ + 1]
           q == Append(Front(stack[t]), f)
<1>1. /\ stack[t] # << >> /\ l \in BodyFrames /\ l.actor \in Actor /\ c \in Task /\ IsSubmitted(plan, c)
      /\ \A b \in Actor : c \in CountedBy(plan, b) <=> b = l.actor /\ c \notin plan.unwaited
  BY SubmitFacts DEF SubmitQueued
<1>2. /\ stack \in [Thread -> Seq(FrameType)] /\ stack[t] \in Seq(FrameType)
  BY <1>1, TopFacts
<1>3. f \in BodyFrames /\ Alike(f, l)
  <2>1. "leaving" \in Places
    BY DEF Places
  <2> QED BY <1>1, <2>1, BodyEdited
<1>4. /\ queue' = Enqueued(c) /\ num' = Incremented(c, l.actor) /\ NotifyOne(Replace(t, <<f>>))
      /\ UNCHANGED <<plan, active, running, threads, depth, is_leaf, error, verdict, begun, ended, failed, crashed>>
  BY DEF SubmitQueued, locals, history
<1>5. TypeOK /\ DepthInv(stack, depth, failed = {}) /\ QueueInv(plan, queue)
  BY DEF PoolInv
<1>6. KeepsCounts(t, q) /\ Replace(t, <<f>>) = [stack EXCEPT ![t] = q]
  BY <1>1, <1>3, SwapTop
<1> HIDE DEF c, f, l, q
<1>7. /\ Shape(plan, t, q) /\ BodiesIn(begun, q) /\ ~Creates(q)
      /\ \A a \in Actor : HowMany(q, Executions(plan, a)) = HowMany(stack[t], Executions(plan, a))
      /\ HowMany(q, Busy) = HowMany(stack[t], Busy) /\ HowMany(q, Inside) = HowMany(stack[t], Inside)
  BY <1>6 DEF KeepsCounts, SameCounts
<1>8. /\ queue' \in Seq(Task)
      /\ \A C : HowMany(queue', C) = HowMany(queue, C) + Weight(c, C)
      /\ QueueInv(plan, queue')
  <2>1. queue \in Seq(Task)
    BY <1>5 DEF TypeOK
  <2>2. <<c>> \in Seq(Task) /\ Len(<<c>>) = 1 /\ <<c>>[1] = c
    BY <1>1
  <2>3. CASE queue' = <<c>> \o queue
    <3>1. /\ <<c>> \o queue \in Seq(Task) /\ Len(<<c>> \o queue) = 1 + Len(queue)
          /\ \A i \in 1 .. 1 + Len(queue) : (<<c>> \o queue)[i] = IF i <= 1 THEN c ELSE queue[i - 1]
      BY <2>1, <2>2, ConcatProperties
    <3>2. \A i \in 1 .. 1 + Len(queue) : i <= 1 \/ i - 1 \in DOMAIN queue
      BY <2>1
    <3>3. \A i \in DOMAIN queue' : IsSubmitted(plan, queue'[i])
      <4>1. DOMAIN queue' = 1 .. 1 + Len(queue)
        BY <2>3, <3>1
      <4>2. ASSUME NEW i \in DOMAIN queue' PROVE IsSubmitted(plan, queue'[i])
        <5>1. queue'[i] = c \/ (i - 1 \in DOMAIN queue /\ queue'[i] = queue[i - 1])
          BY <2>3, <3>1, <3>2, <4>1
        <5> QED BY <1>1, <1>5, <5>1 DEF QueueInv
      <4> QED BY <4>2
    <3>4. \A C : HowMany(<<c>> \o queue, C) = HowMany(queue, C) + Weight(c, C)
      BY <1>1, <2>1, CountCons
    <3> QED BY <2>3, <3>1, <3>3, <3>4 DEF QueueInv
  <2>4. CASE queue' = Append(queue, c)
    <3>1. \A C : HowMany(Append(queue, c), C) = HowMany(queue, C) + Weight(c, C)
      BY <1>1, <2>1, CountAppend
    <3>2. /\ Append(queue, c) \in Seq(Task) /\ Len(Append(queue, c)) = Len(queue) + 1
          /\ \A i \in 1 .. Len(queue) : Append(queue, c)[i] = queue[i]
          /\ Append(queue, c)[Len(queue) + 1] = c
      BY <1>1, <2>1, AppendProperties
    <3>3. ASSUME NEW i \in DOMAIN queue' PROVE IsSubmitted(plan, queue'[i])
      <4>1. i \in 1 .. Len(queue) \/ i = Len(queue) + 1
        BY <2>1, <2>4, <3>2
      <4>2. queue'[i] = c \/ (i \in DOMAIN queue /\ queue'[i] = queue[i])
        BY <2>1, <2>4, <3>2, <4>1
      <4> QED BY <1>1, <1>5, <4>2 DEF QueueInv
    <3> QED BY <2>4, <3>1, <3>2, <3>3 DEF QueueInv
  <2> QED BY <1>4, <2>3, <2>4 DEF Enqueued
<1>9. ASSUME NEW a \in Actor
      PROVE  Balanced(num[a], HowMany(stack[t], Executions(plan, a)), HowMany(queue, CountedBy(plan, a)),
                      num'[a], HowMany(q, Executions(plan, a)), HowMany(queue', CountedBy(plan, a)))
  <2>1. num[a] \in Nat /\ num'[a] = num[a] + Weight(c, CountedBy(plan, a))
    BY <1>1, <1>4, <1>5 DEF TypeOK, Incremented, Weight
  <2>2. HowMany(queue', CountedBy(plan, a)) = HowMany(queue, CountedBy(plan, a)) + Weight(c, CountedBy(plan, a))
    BY <1>8
  <2>3. HowMany(queue, CountedBy(plan, a)) \in Nat /\ HowMany(stack[t], Executions(plan, a)) \in Nat
    BY <1>2, <1>5, CountType DEF TypeOK
  <2>4. Weight(c, CountedBy(plan, a)) \in Nat
    BY DEF Weight
  <2>5. HowMany(q, Executions(plan, a)) = HowMany(stack[t], Executions(plan, a))
    BY <1>7
  <2> DEFINE w == Weight(c, CountedBy(plan, a))
             h == HowMany(stack[t], Executions(plan, a))
             k == HowMany(queue, CountedBy(plan, a))
             n == num[a]
  <2>6. n \in Nat /\ w \in Nat /\ h \in Nat /\ k \in Nat
    BY <2>1, <2>3, <2>4
  <2> HIDE DEF w, h, k, n
  <2>7. (n + w) + h + k = n + h + (k + w)
    BY <2>6
  <2> QED BY <2>1, <2>2, <2>5, <2>7 DEF w, h, k, n, Balanced
<1>10. Moved(active, HowMany(stack[t], Busy), active', HowMany(q, Busy))
  BY <1>4, <1>7 DEF Moved
<1>11. depth'[t] >= HowMany(q, Inside) /\ (failed' = {} => failed = {} /\ depth'[t] = HowMany(q, Inside))
  BY <1>4, <1>5, <1>7 DEF DepthInv
<1>12. Wakes([stack EXCEPT ![t] = q])
  <2>1. [stack EXCEPT ![t] = q] \in [Thread -> Seq(FrameType)]
    BY <1>2, <1>7 DEF Shape
  <2>2. NotifyOne([stack EXCEPT ![t] = q])
    BY <1>4, <1>6
  <2> QED BY <2>1, <2>2, OneWoken
<1>13. num' \in [Actor -> Int]
  <2>1. num \in [Actor -> Nat]
    BY <1>5 DEF TypeOK
  <2>2. num' = num \/ num' = [num EXCEPT ![l.actor] = @ + 1]
    BY <1>4 DEF Incremented
  <2> QED BY <1>1, <2>1, <2>2
<1>14. /\ begun \subseteq begun' /\ begun' \subseteq Actor /\ BodiesIn(begun', q)
       /\ active' \in Int /\ running' \in BOOLEAN /\ is_leaf' \in [Thread -> BOOLEAN]
       /\ error' \in [Actor -> BOOLEAN] /\ verdict' \in [Actor -> {"none", "true", "false"}]
       /\ ended' \subseteq begun' /\ failed' \subseteq ended' /\ crashed' \in BOOLEAN
       /\ depth' \in [Thread -> Int] /\ \A u \in Thread : u # t => depth'[u] = depth[u]
  BY <1>4, <1>5, <1>7 DEF TypeOK
<1>15. /\ plan' = plan /\ threads' \subseteq Worker /\ (threads = {} => threads' = {})
       /\ \A w \in Worker \ threads' : stack[w] = << >>
  BY <1>4, <1>5 DEF TypeOK, PoolInv, StacksInv, Thread
<1> QED BY <1>1, <1>7, <1>8, <1>9, <1>10, <1>11, <1>12, <1>13, <1>14, <1>15, StepKeeps

(* OneLess: a stack without its top counts the top less.                   *)
OneLess(q, f, r) ==
  /\ \A a \in Actor : /\ HowMany(r, Executions(plan, a)) = HowMany(q, Executions(plan, a)) + Weight(f, Executions(plan, a))
                      /\ HowMany(q, Executions(plan, a)) \in Nat
  /\ HowMany(r, Busy) = HowMany(q, Busy) + Weight(f, Busy) /\ HowMany(q, Busy) \in Nat
  /\ HowMany(r, Inside) = HowMany(q, Inside) + Weight(f, Inside) /\ HowMany(q, Inside) \in Nat

(* Returned: the top goes and the frame below it is replaced by a like one. *)
LEMMA Returned ==
  ASSUME PoolInv, NEW t \in Thread, stack[t] # << >>, Front(stack[t]) # << >>,
         NEW g \in FrameType, Alike(g, Beneath(t)), Weight(g, Busy) = Weight(Beneath(t), Busy),
         g \notin OwnerFrames, g \in BodyFrames => g.actor \in begun
  PROVE  \E q : /\ ReturnTo(t, g) = [stack EXCEPT ![t] = q]
                /\ Shape(plan, t, q) /\ BodiesIn(begun, q) /\ ~Creates(q)
                /\ OneLess(q, Last(stack[t]), stack[t])
<1> DEFINE r == Front(stack[t])
           q == Append(Front(r), g)
<1>1. /\ stack[t] \in Seq(FrameType) /\ r \in Seq(FrameType) /\ r # << >>
      /\ Shape(plan, t, r) /\ BodiesIn(begun, r) /\ Last(r) = Beneath(t)
  BY TopFacts
<1>2. ReturnTo(t, g) = [stack EXCEPT ![t] = q]
  BY DEF ReturnTo
<1>3. \A C : HowMany(stack[t], C) = HowMany(r, C) + Weight(Last(stack[t]), C)
  BY <1>1, CountFront
<1> HIDE DEF r
<1>4. Shape(plan, t, q)
  BY <1>1, ShapeSwap
<1>5. SameCounts(plan, q, r)
  BY <1>1, QuietSwap
<1>6. BodiesIn(begun, q)
  <2>1. Front(r) \in Seq(FrameType) /\ BodiesIn(begun, Front(r))
    BY <1>1, BodiesFront, FrontLast
  <2> QED BY <2>1, BodiesAppend
<1>7. Last(q) = g
  BY <1>1, Swapped
<1>8. ~Creates(q)
  BY <1>7 DEF Creates
<1>9. OneLess(q, Last(stack[t]), stack[t])
  <2>1. \A C : HowMany(q, C) \in Nat
    BY <1>4, CountType DEF Shape
  <2> HIDE DEF q
  <2> QED BY <1>3, <1>5, <2>1 DEF OneLess, SameCounts
<1> QED BY <1>2, <1>4, <1>6, <1>8, <1>9

(* EndFacts: whose body ends, and on what.                                 *)
LEMMA EndFacts ==
  ASSUME PoolInv, NEW t \in Thread, NEW via, Ends(t, via)
  PROVE  /\ stack[t] # << >>
         /\ Last(stack[t]) \in BodyFrames /\ Last(stack[t]).via = via /\ Last(stack[t]).at = "ending"
         /\ Last(stack[t]).actor \in begun /\ Last(stack[t]).actor \in Actor
         /\ Last(stack[t]) \notin RunFrames /\ Last(stack[t]) \notin OwnerFrames
         /\ via # "main" => /\ Front(stack[t]) # << >>
                            /\ Above(plan, Beneath(t), Last(stack[t]))
                            /\ Beneath(t) \in FrameType
                            /\ Beneath(t) \in BodyFrames => Beneath(t).actor \in begun
                            /\ IsSubmitted(plan, Last(stack[t]).actor)
         /\ via = "main" => /\ Front(stack[t]) = << >>
                            /\ t \in External /\ Last(stack[t]).actor = t
         /\ begun' = begun /\ ended \subseteq ended' /\ ended' \subseteq begun
         /\ failed \subseteq failed' /\ failed' \subseteq ended'
         /\ failed' = {} => ~Throws(t)
<1> DEFINE l == Last(stack[t])
<1>1. stack[t] # << >> /\ l.kind = "body" /\ l.at = "ending" /\ l.via = via
  BY DEF Ends, Top
<1>2. /\ l \in FrameType /\ stack[t] \in Seq(FrameType) /\ Standing(plan, l)
      /\ l \in BodyFrames => l.actor \in begun
      /\ Front(stack[t]) = << >> => Bottom(plan, t, l)
      /\ Front(stack[t]) # << >> => Last(Front(stack[t])) = Beneath(t) /\ Above(plan, Beneath(t), l)
      /\ Front(stack[t]) \in Seq(FrameType) /\ BodiesIn(begun, Front(stack[t]))
  BY <1>1, TopFacts
<1>3. l \in BodyFrames /\ l \notin RunFrames /\ l \notin OwnerFrames
  BY <1>1, <1>2, FrameKinds
<1>4. l.actor \in begun /\ l.actor \in Actor
  BY <1>2, <1>3 DEF BodyFrames
<1>5. ASSUME via # "main"
      PROVE  /\ Front(stack[t]) # << >> /\ Above(plan, Beneath(t), l) /\ IsSubmitted(plan, l.actor)
             /\ Beneath(t) \in FrameType
             /\ Beneath(t) \in BodyFrames => Beneath(t).actor \in begun
  <2>1. Front(stack[t]) # << >>
    BY <1>1, <1>2, <1>3, <1>5 DEF Bottom
  <2>2. Above(plan, Beneath(t), l) /\ IsSubmitted(plan, l.actor)
    BY <1>1, <1>2, <1>3, <1>5, <2>1 DEF Standing
  <2>3. Last(Front(stack[t])) \in FrameType /\ (Last(Front(stack[t])) \in BodyFrames => Last(Front(stack[t])).actor \in begun)
    <3> DEFINE r == Front(stack[t])
    <3>1. r \in Seq(FrameType) /\ r # << >> /\ BodiesIn(begun, r)
      BY <1>2, <2>1
    <3> HIDE DEF r
    <3>2. Last(r) \in FrameType /\ (Last(r) \in BodyFrames => Last(r).actor \in begun)
      BY <3>1, FrontLast, BodiesFront
    <3> QED BY <3>2 DEF r
  <2> QED BY <1>2, <2>1, <2>2, <2>3
<1>6. ASSUME via = "main" PROVE Front(stack[t]) = << >> /\ t \in External /\ l.actor = t
  <2>1. Front(stack[t]) = << >>
    BY <1>1, <1>2, <1>3, <1>6 DEF Above
  <2> QED BY <1>2, <1>3, <2>1 DEF Bottom
<1>7. /\ begun' = begun /\ ended' = ended \cup {l.actor}
      /\ failed' = IF Throws(t) THEN failed \cup {l.actor} ELSE failed
  BY DEF Ends
<1>8. ended \subseteq begun /\ failed \subseteq ended
  BY DEF PoolInv, TypeOK
<1>9. /\ begun' = begun /\ ended \subseteq ended' /\ ended' \subseteq begun
      /\ failed \subseteq failed' /\ failed' \subseteq ended'
      /\ failed' = {} => ~Throws(t)
  BY <1>4, <1>7, <1>8
<1> QED BY <1>1, <1>3, <1>4, <1>5, <1>6, <1>9

(* InlineReturns: a task that ran inside submit ends; if it throws, the    *)
(* depth it had added stays.                                               *)
LEMMA InlineReturns ==
  ASSUME PoolInv, NEW t \in Thread, InlineEnds(t)
  PROVE  PoolInv'
<1> DEFINE l == Last(stack[t])
           b == Beneath(t)
           g == IF Throws(t) THEN [b EXCEPT !.at = "leaving", !.thrown = TRUE] ELSE [b EXCEPT !.next = @ + 1]
<1>1. /\ stack[t] # << >> /\ l \in BodyFrames /\ l.via = "inline" /\ l \notin RunFrames
      /\ Front(stack[t]) # << >> /\ Above(plan, b, l)
      /\ b \in BodyFrames => b.actor \in begun
      /\ begun' = begun /\ ended' \subseteq begun /\ failed \subseteq failed' /\ failed' \subseteq ended'
      /\ failed' = {} => ~Throws(t)
  BY EndFacts DEF InlineEnds
<1>2. b \in BodyFrames /\ b.actor \in begun
  BY <1>1 DEF Above
<1>3. /\ stack' = ReturnTo(t, g)
      /\ UNCHANGED <<plan, queue, active, running, threads, num, error, verdict, crashed>>
      /\ depth' = IF Throws(t) THEN depth ELSE [depth EXCEPT ![t] = @ - 1]
      /\ is_leaf' = IF Throws(t) THEN is_leaf ELSE [is_leaf EXCEPT ![t] = FALSE]
  BY DEF InlineEnds, LeaveTask, locals, waiters
<1>4. g \in BodyFrames /\ Alike(g, b)
  <2>1. "leaving" \in Places
    BY DEF Places
  <2> QED BY <1>2, <2>1, BodyEdited
<1> HIDE DEF b, g, l
<1>5. g \in FrameType /\ g \notin OwnerFrames /\ g.actor \in begun /\ Weight(g, Busy) = Weight(b, Busy)
  BY <1>2, <1>4, FrameKinds, FrameWeights DEF Alike
<1>6. PICK q : /\ ReturnTo(t, g) = [stack EXCEPT ![t] = q]
               /\ Shape(plan, t, q) /\ BodiesIn(begun, q) /\ ~Creates(q)
               /\ OneLess(q, l, stack[t])
  BY <1>1, <1>4, <1>5, Returned DEF b, l
<1>7. /\ Weight(l, Busy) = 0 /\ Weight(l, Inside) = 1
      /\ \A a : Weight(l, Executions(plan, a)) = 0
  BY <1>1, FrameWeights
<1>8. /\ HowMany(q, Busy) = HowMany(stack[t], Busy)
      /\ HowMany(stack[t], Inside) = HowMany(q, Inside) + 1 /\ HowMany(q, Inside) \in Nat
      /\ \A a \in Actor : HowMany(q, Executions(plan, a)) = HowMany(stack[t], Executions(plan, a))
  BY <1>6, <1>7 DEF OneLess
<1>9. TypeOK /\ DepthInv(stack, depth, failed = {}) /\ QueueInv(plan, queue)
  BY DEF PoolInv
<1>10. \A a \in Actor :
         Balanced(num[a], HowMany(stack[t], Executions(plan, a)), HowMany(queue, CountedBy(plan, a)),
                  num'[a], HowMany(q, Executions(plan, a)), HowMany(queue', CountedBy(plan, a)))
  BY <1>3, <1>8 DEF Balanced
<1>11. Moved(active, HowMany(stack[t], Busy), active', HowMany(q, Busy))
  BY <1>3, <1>8 DEF Moved
<1>12. /\ depth' \in [Thread -> Int] /\ depth[t] \in Nat
       /\ Throws(t) => depth'[t] = depth[t]
       /\ ~Throws(t) => depth'[t] = depth[t] - 1
       /\ \A u \in Thread : u # t => depth'[u] = depth[u]
  BY <1>3, <1>9 DEF TypeOK
<1>13. depth'[t] >= HowMany(q, Inside) /\ (failed' = {} => failed = {} /\ depth'[t] = HowMany(q, Inside))
  <2>1. depth[t] >= HowMany(q, Inside) + 1 /\ (failed = {} => depth[t] = HowMany(q, Inside) + 1)
    BY <1>8, <1>9 DEF DepthInv
  <2> QED BY <1>1, <1>8, <1>12, <2>1
<1>14. Wakes([stack EXCEPT ![t] = q])
  <2>1. [stack EXCEPT ![t] = q] \in [Thread -> Seq(FrameType)]
    BY <1>6, <1>9 DEF Shape, TypeOK
  <2> QED BY <1>3, <1>6, <2>1, NobodyWoken
<1>15. /\ begun \subseteq begun' /\ begun' \subseteq Actor /\ BodiesIn(begun', q) /\ QueueInv(plan, queue')
       /\ num' \in [Actor -> Int] /\ active' \in Int /\ running' \in BOOLEAN /\ is_leaf' \in [Thread -> BOOLEAN]
       /\ error' \in [Actor -> BOOLEAN] /\ verdict' \in [Actor -> {"none", "true", "false"}]
       /\ ended' \subseteq begun' /\ failed' \subseteq ended' /\ crashed' \in BOOLEAN
  BY <1>1, <1>3, <1>6, <1>9 DEF TypeOK
<1>16. /\ plan' = plan /\ threads' \subseteq Worker /\ (threads = {} => threads' = {})
       /\ \A w \in Worker \ threads' : stack[w] = << >>
  BY <1>3, <1>9 DEF TypeOK, PoolInv, StacksInv, Thread
<1> QED BY <1>1, <1>6, <1>10, <1>11, <1>12, <1>13, <1>14, <1>15, <1>16, StepKeeps

(* CountedOff: a task that ran in run ends: its waiter counts it off.      *)
LEMMA CountedOff ==
  ASSUME PoolInv, NEW t \in Thread, TaskEnds(t)
  PROVE  PoolInv'
<1> DEFINE l == Last(stack[t])
           c == l.actor
           b == Beneath(t)
           g == [b EXCEPT !.at = "after"]
<1>1. /\ stack[t] # << >> /\ l \in BodyFrames /\ l.via = "run" /\ c \in Actor /\ l \notin RunFrames
      /\ Front(stack[t]) # << >> /\ Above(plan, b, l) /\ IsSubmitted(plan, c)
      /\ begun' = begun /\ ended' \subseteq begun /\ failed \subseteq failed' /\ failed' \subseteq ended'
  BY EndFacts DEF TaskEnds
<1>2. b \in RunFrames /\ b.at = "task"
  BY <1>1 DEF Above
<1>3. /\ stack' = ReturnTo(t, g)
      /\ UNCHANGED <<plan, queue, active, running, threads, verdict>>
      /\ depth' = [depth EXCEPT ![t] = @ - 1] /\ is_leaf' = [is_leaf EXCEPT ![t] = FALSE]
      /\ c \in plan.unwaited => num' = num /\ error' = error /\ crashed' = Throws(t)
      /\ c \notin plan.unwaited => /\ num' = [num EXCEPT ![Submitter(c)] = @ - 1]
                                   /\ error' = Noted(c, Throws(t)) /\ crashed' = crashed
  BY DEF TaskEnds, LeaveTask
<1>4. g \in RunFrames /\ g.at = "after"
  BY <1>2 DEF RunFrames
<1>5. Throws(t) \in BOOLEAN
  <2>1. l.thrown \in BOOLEAN
    BY <1>1 DEF BodyFrames
  <2> QED BY <2>1 DEF Throws
<1> HIDE DEF b, g, l, c
<1>6. /\ g \in FrameType /\ g \notin OwnerFrames /\ g \notin BodyFrames /\ Alike(g, b)
      /\ Weight(g, Busy) = Weight(b, Busy)
  BY <1>2, <1>4, FrameKinds, FrameWeights DEF Alike
<1>7. PICK q : /\ ReturnTo(t, g) = [stack EXCEPT ![t] = q]
               /\ Shape(plan, t, q) /\ BodiesIn(begun, q) /\ ~Creates(q)
               /\ OneLess(q, l, stack[t])
  BY <1>1, <1>6, Returned DEF b, l
<1>8. /\ Weight(l, Busy) = 0 /\ Weight(l, Inside) = 1
      /\ \A a : Weight(l, Executions(plan, a)) = Weight(c, CountedBy(plan, a))
  BY <1>1, FrameWeights DEF Weight, c
<1>9. TypeOK /\ DepthInv(stack, depth, failed = {}) /\ QueueInv(plan, queue) /\ plan \in Plans
  BY DEF PoolInv, TypeOK
<1>10. /\ Submitter(c) \in Actor
       /\ \A a \in Actor : c \in CountedBy(plan, a) <=> a = Submitter(c) /\ c \notin plan.unwaited
  <2>1. \E a \in Actor : \E i \in DOMAIN plan.submits[a] : plan.submits[a][i] = c
    BY <1>1 DEF IsSubmitted
  <2>2. Submitter(c) \in Actor /\ \E i \in DOMAIN plan.submits[Submitter(c)] : plan.submits[Submitter(c)][i] = c
    BY <2>1 DEF Submitter
  <2>3. PICK i \in DOMAIN plan.submits[Submitter(c)] : plan.submits[Submitter(c)][i] = c
    BY <2>2
  <2> QED BY <1>9, <2>2, <2>3, OnlySubmitter
<1>11. /\ HowMany(q, Busy) = HowMany(stack[t], Busy)
       /\ HowMany(stack[t], Inside) = HowMany(q, Inside) + 1 /\ HowMany(q, Inside) \in Nat
       /\ \A a \in Actor : /\ HowMany(stack[t], Executions(plan, a)) = HowMany(q, Executions(plan, a)) + Weight(c, CountedBy(plan, a))
                           /\ HowMany(q, Executions(plan, a)) \in Nat
  BY <1>7, <1>8 DEF OneLess
<1>12. num' \in [Actor -> Int] /\ error' \in [Actor -> BOOLEAN] /\ crashed' \in BOOLEAN
  <2>1. num \in [Actor -> Nat] /\ error \in [Actor -> BOOLEAN] /\ crashed \in BOOLEAN
    BY <1>9 DEF TypeOK
  <2>2. CASE c \in plan.unwaited
    BY <1>3, <1>5, <2>1, <2>2
  <2>3. CASE c \notin plan.unwaited
    BY <1>3, <1>5, <1>10, <2>1, <2>3 DEF Noted
  <2> QED BY <2>2, <2>3
<1>13. ASSUME NEW a \in Actor
       PROVE Balanced(num[a], HowMany(stack[t], Executions(plan, a)), HowMany(queue, CountedBy(plan, a)),
                      num'[a], HowMany(q, Executions(plan, a)), HowMany(queue', CountedBy(plan, a)))
  <2> DEFINE w == Weight(c, CountedBy(plan, a))
             h == HowMany(q, Executions(plan, a))
             k == HowMany(queue, CountedBy(plan, a))
             n == num[a]
             n2 == num'[a]
  <2>1. num[a] \in Nat /\ num'[a] = num[a] - Weight(c, CountedBy(plan, a))
    BY <1>3, <1>9, <1>10 DEF TypeOK, Weight
  <2>2. n \in Nat /\ n2 = n - w /\ w \in Nat /\ h \in Nat /\ k \in Nat
    BY <1>9, <1>11, <2>1, CountType DEF TypeOK, Weight
  <2>3. HowMany(stack[t], Executions(plan, a)) = h + w
    BY <1>11
  <2> HIDE DEF w, h, k, n, n2
  <2>4. n2 + (h + w) + k = n + h + k
    BY <2>2
  <2> QED BY <1>3, <2>3, <2>4 DEF h, k, n, n2, Balanced
<1>14. Moved(active, HowMany(stack[t], Busy), active', HowMany(q, Busy))
  BY <1>3, <1>11 DEF Moved
<1>15. /\ depth' \in [Thread -> Int] /\ depth[t] \in Nat /\ depth'[t] = depth[t] - 1
       /\ \A u \in Thread : u # t => depth'[u] = depth[u]
  BY <1>3, <1>9 DEF TypeOK
<1>16. depth'[t] >= HowMany(q, Inside) /\ (failed' = {} => failed = {} /\ depth'[t] = HowMany(q, Inside))
  <2>1. depth[t] >= HowMany(q, Inside) + 1 /\ (failed = {} => depth[t] = HowMany(q, Inside) + 1)
    BY <1>9, <1>11 DEF DepthInv
  <2> QED BY <1>1, <1>11, <1>15, <2>1
<1>17. Wakes([stack EXCEPT ![t] = q])
  <2>1. [stack EXCEPT ![t] = q] \in [Thread -> Seq(FrameType)]
    BY <1>7, <1>9 DEF Shape, TypeOK
  <2> QED BY <1>3, <1>7, <2>1, NobodyWoken
<1>18. /\ begun \subseteq begun' /\ begun' \subseteq Actor /\ BodiesIn(begun', q) /\ QueueInv(plan, queue')
       /\ active' \in Int /\ running' \in BOOLEAN /\ is_leaf' \in [Thread -> BOOLEAN]
       /\ verdict' \in [Actor -> {"none", "true", "false"}]
       /\ ended' \subseteq begun' /\ failed' \subseteq ended'
  BY <1>1, <1>3, <1>7, <1>9 DEF TypeOK
<1>19. /\ plan' = plan /\ threads' \subseteq Worker /\ (threads = {} => threads' = {})
       /\ \A w \in Worker \ threads' : stack[w] = << >>
  BY <1>3, <1>9 DEF TypeOK, PoolInv, StacksInv, Thread
<1> QED BY <1>1, <1>7, <1>12, <1>13, <1>14, <1>15, <1>16, <1>17, <1>18, <1>19, StepKeeps

(* NoFrame: the empty stack.                                               *)
LEMMA NoFrame ==
  ASSUME NEW p, NEW b, NEW t \in Thread
  PROVE  Shape(p, t, << >>) /\ BodiesIn(b, << >>) /\ ~Creates(<< >>)
<1>1. << >> \in Seq(FrameType) /\ DOMAIN << >> = {} /\ Len(<< >>) = 0 /\ 1 .. 0 - 1 = {}
  OBVIOUS
<1> QED BY <1>1 DEF Shape, BodiesIn, Creates

(* OneFrame: a stack of one frame.                                         *)
LEMMA OneFrame ==
  ASSUME NEW p, NEW t \in Thread, NEW f \in FrameType, Standing(p, f), Bottom(p, t, f)
  PROVE  /\ Shape(p, t, <<f>>)
         /\ <<f>> = Append(<< >>, f) /\ Last(<<f>>) = f
         /\ \A C : HowMany(<<f>>, C) = Weight(f, C)
         /\ \A b : f \notin BodyFrames => BodiesIn(b, <<f>>)
<1>1. << >> \in Seq(FrameType) /\ <<f>> = Append(<< >>, f)
  OBVIOUS
<1>2. Shape(p, t, << >>)
  BY NoFrame
<1>3. Shape(p, t, Append(<< >>, f))
  BY <1>1, <1>2, ShapeAppend
<1>4. ASSUME NEW C PROVE HowMany(<<f>>, C) = Weight(f, C)
  <2>1. HowMany(Append(<< >>, f), C) = HowMany(<< >>, C) + Weight(f, C)
    BY <1>1, CountAppend
  <2>2. HowMany(<< >>, C) = 0 /\ Weight(f, C) \in Nat
    BY CountNone DEF Weight
  <2> QED BY <1>1, <2>1, <2>2
<1>5. Last(<<f>>) = f /\ DOMAIN <<f>> = {1} /\ <<f>>[1] = f
  BY DEF Last
<1> QED BY <1>1, <1>3, <1>4, <1>5 DEF BodiesIn

(* CallersEnd: a caller's body is not counted, and neither is the owner    *)
(* that it becomes.                                                        *)
LEMMA CallersEnd ==
  ASSUME PoolInv, NEW t \in Thread, CallerEnds(t)
  PROVE  PoolInv'
<1> DEFINE l == Last(stack[t])
           q == IF plan.final[t] = "none" THEN << >> ELSE <<OwnerFrame>>
<1>1. /\ stack[t] # << >> /\ l \in BodyFrames /\ l.via = "main"
      /\ Front(stack[t]) = << >> /\ t \in External
      /\ begun' = begun /\ ended' \subseteq begun /\ failed \subseteq failed' /\ failed' \subseteq ended'
  BY EndFacts DEF CallerEnds
<1>2. /\ stack' = Replace(t, q)
      /\ UNCHANGED <<plan, queue, active, running, threads, depth, is_leaf, num, error, verdict, crashed>>
  BY DEF CallerEnds, locals, waiters
<1>3. OwnerFrame \in OwnerFrames /\ OwnerFrame \in FrameType /\ OwnerFrame \notin BodyFrames /\ OwnerFrame.at = "stopping"
  BY FrameKinds DEF OwnerFrame, OwnerFrames
<1>4. stack[t] \in Seq(FrameType) /\ stack \in [Thread -> Seq(FrameType)]
  BY <1>1, TopFacts
<1>5. ASSUME NEW C, Weight(l, C) = 0 PROVE HowMany(stack[t], C) = 0
  <2>1. HowMany(stack[t], C) = HowMany(<< >>, C) + Weight(l, C)
    BY <1>1, <1>4, CountFront
  <2> QED BY <1>5, <2>1, CountNone
<1>6. ASSUME NEW C, Weight(OwnerFrame, C) = 0 PROVE HowMany(q, C) = 0
  <2>1. CASE plan.final[t] = "none"
    BY <2>1, CountNone
  <2>2. CASE plan.final[t] # "none"
    <3>1. HowMany(<<OwnerFrame>>, C) = Weight(OwnerFrame, C)
      BY <1>1, <1>3, <2>2, OneFrame DEF Standing, Bottom
    <3> QED BY <1>6, <2>2, <3>1
  <2> QED BY <2>1, <2>2
<1>7. SameCounts(plan, q, stack[t])
  <2>1. /\ Weight(l, Busy) = 0 /\ Weight(l, Inside) = 0 /\ \A a : Weight(l, Executions(plan, a)) = 0
    BY <1>1, FrameWeights
  <2>2. /\ Weight(OwnerFrame, Busy) = 0 /\ Weight(OwnerFrame, Inside) = 0
        /\ \A a : Weight(OwnerFrame, Executions(plan, a)) = 0
    BY <1>3, FrameWeights
  <2> HIDE DEF q, l
  <2> QED BY <1>5, <1>6, <2>1, <2>2 DEF SameCounts
<1>8. Shape(plan, t, q) /\ BodiesIn(begun, q) /\ ~Creates(q)
  <2>1. CASE plan.final[t] = "none"
    BY <2>1, NoFrame
  <2>2. CASE plan.final[t] # "none"
    <3>1. Shape(plan, t, <<OwnerFrame>>) /\ BodiesIn(begun, <<OwnerFrame>>) /\ Last(<<OwnerFrame>>) = OwnerFrame
      BY <1>1, <1>3, <2>2, OneFrame DEF Standing, Bottom
    <3> QED BY <1>3, <2>2, <3>1 DEF Creates
  <2> QED BY <2>1, <2>2
<1>9. KeepsCounts(t, q) /\ q \in Seq(FrameType)
  BY <1>7, <1>8 DEF KeepsCounts, Shape
<1>10. Replace(t, q) = [stack EXCEPT ![t] = q]
  <2> HIDE DEF q
  <2>1. << >> \o q = q
    BY <1>9
  <2> QED BY <1>1, <2>1 DEF Replace
<1>11. Wakes([stack EXCEPT ![t] = q])
  <2>1. [stack EXCEPT ![t] = q] \in [Thread -> Seq(FrameType)]
    BY <1>4, <1>9
  <2> QED BY <1>2, <1>10, <2>1, NobodyWoken
<1>12. /\ running' \in BOOLEAN /\ is_leaf' \in [Thread -> BOOLEAN] /\ error' \in [Actor -> BOOLEAN]
       /\ verdict' \in [Actor -> {"none", "true", "false"}] /\ crashed' \in BOOLEAN
  BY <1>2 DEF PoolInv, TypeOK
<1> HIDE DEF q
<1> QED BY <1>1, <1>2, <1>9, <1>11, <1>12, QuietStep

(* LoopFacts: the run that goes round its loop.                            *)
LEMMA LoopFacts ==
  ASSUME PoolInv, NEW t \in Thread, RunLoop(t)
  PROVE  /\ stack[t] # << >> /\ Last(stack[t]) \in RunFrames
         /\ Front(stack[t]) # << >> => Last(Front(stack[t])) \in BodyFrames
         /\ RunFrom(t, active - Weight(Last(stack[t]), Busy))
         /\ UNCHANGED <<plan, running, threads, num, error, verdict, ended, failed, crashed>>
<1> DEFINE l == Last(stack[t])
<1>1. /\ stack[t] # << >> /\ l.kind = "run"
      /\ \/ l.at = "top" /\ RunFrom(t, active)
         \/ l.at = "after" /\ RunFrom(t, active - 1)
      /\ UNCHANGED <<plan, running, threads, num, error, verdict, ended, failed, crashed>>
  BY DEF RunLoop, Top, waiters
<1>2. l \in RunFrames /\ l \notin BodyFrames
  BY <1>1, TopFacts, FrameKinds
<1>3. ASSUME Front(stack[t]) # << >> PROVE Last(Front(stack[t])) \in BodyFrames
  <2>1. Last(Front(stack[t])) = Beneath(t) /\ Above(plan, Beneath(t), l)
    BY <1>1, <1>3, TopFacts
  <2> QED BY <1>2, <2>1 DEF Above
<1>4. Weight(l, Busy) = IF l.at = "after" THEN 1 ELSE 0
  <2>1. Weight(l, Busy) = IF l.at \in {"task", "after"} THEN 1 ELSE 0
    BY <1>2, FrameWeights
  <2> QED BY <1>1, <2>1
<1>5. active \in Nat
  BY DEF PoolInv, TypeOK
<1>6. RunFrom(t, active - Weight(l, Busy))
  <2>1. CASE l.at = "top" /\ RunFrom(t, active)
    <3>1. active - Weight(l, Busy) = active
      BY <1>4, <1>5, <2>1
    <3> QED BY <2>1, <3>1
  <2>2. CASE l.at = "after" /\ RunFrom(t, active - 1)
    BY <1>4, <2>2
  <2> QED BY <1>1, <2>1, <2>2
<1> QED BY <1>1, <1>2, <1>3, <1>6

(* LessBusy: a stack that counts the same but for a busy run. *)
LessBusy(q, l, r) ==
  /\ \A a \in Actor : HowMany(q, Executions(plan, a)) = HowMany(r, Executions(plan, a))
  /\ HowMany(q, Inside) = HowMany(r, Inside)
  /\ HowMany(q, Busy) + Weight(l, Busy) = HowMany(r, Busy)

(* Idles: run returns, or sleeps: an execution it had finished is counted  *)
(* off.                                                                    *)
LEMMA Idles ==
  ASSUME PoolInv, NEW t \in Thread, RunLoop(t), ~running \/ queue = << >>
  PROVE  PoolInv'
<1> DEFINE l == Last(stack[t])
           f == [l EXCEPT !.at = "asleep"]
<1>1. /\ stack[t] # << >> /\ l \in RunFrames
      /\ Front(stack[t]) # << >> => Last(Front(stack[t])) \in BodyFrames
      /\ RunFrom(t, active - Weight(l, Busy))
      /\ UNCHANGED <<plan, running, threads, num, error, verdict, ended, failed, crashed>>
  BY LoopFacts
<1>2. /\ stack \in [Thread -> Seq(FrameType)] /\ stack[t] \in Seq(FrameType) /\ Front(stack[t]) \in Seq(FrameType)
      /\ Shape(plan, t, stack[t]) /\ Shape(plan, t, Front(stack[t])) /\ BodiesIn(begun, Front(stack[t]))
  BY <1>1, TopFacts
<1>3. f \in RunFrames /\ f.at = "asleep"
  BY <1>1 DEF RunFrames
<1>4. /\ UNCHANGED <<queue, depth, is_leaf, begun>> /\ active' = active - Weight(l, Busy)
      /\ stack' = Replace(t, << >>) \/ stack' = Replace(t, <<f>>)
  BY <1>1 DEF RunFrom, locals
<1>5. /\ Weight(f, Busy) = 0 /\ Weight(f, Inside) = 0 /\ Weight(l, Inside) = 0
      /\ Weight(l, Busy) \in {0, 1}
      /\ \A a : Weight(f, Executions(plan, a)) = 0 /\ Weight(l, Executions(plan, a)) = 0
  BY <1>1, <1>3, FrameWeights
<1> HIDE DEF f, l
<1>6. f \in FrameType /\ f \notin OwnerFrames /\ f \notin BodyFrames /\ Alike(f, l)
  BY <1>1, <1>3, FrameKinds DEF Alike
<1>7. PICK q : /\ stack' = [stack EXCEPT ![t] = q]
               /\ Shape(plan, t, q) /\ BodiesIn(begun, q) /\ ~Creates(q)
               /\ LessBusy(q, l, stack[t])
  <2>1. CASE stack' = Replace(t, << >>)
    <3> DEFINE q == Front(stack[t])
    <3>1. \A C : HowMany(stack[t], C) = HowMany(q, C) + Weight(l, C) /\ HowMany(q, C) \in Nat
      BY <1>1, <1>2, CountFront, CountType DEF l
    <3>2. stack' = [stack EXCEPT ![t] = q]
      <4>1. q \o << >> = q
        BY <1>2
      <4> HIDE DEF q
      <4> QED BY <2>1, <4>1 DEF Replace, q
    <3>3. ~Creates(q)
      BY <1>1, FrameKinds DEF Creates
    <3>4. LessBusy(q, l, stack[t])
      <4> HIDE DEF q
      <4> QED BY <1>5, <3>1 DEF LessBusy
    <3> QED BY <1>2, <3>2, <3>3, <3>4
  <2>2. CASE stack' = Replace(t, <<f>>)
    <3> DEFINE q == Append(Front(stack[t]), f)
    <3>1. stack' = [stack EXCEPT ![t] = q]
      <4>1. Front(stack[t]) \o <<f>> = q
        BY <1>2, <1>6, AppendIsConcat
      <4> QED BY <2>2, <4>1 DEF Replace
    <3>2. Shape(plan, t, q)
      BY <1>1, <1>2, <1>6, ShapeSwap DEF l
    <3>3. BodiesIn(begun, q)
      BY <1>2, <1>6, BodiesAppend
    <3>4. ~Creates(q)
      <4>1. Last(q) = f
        BY <1>1, <1>2, <1>6, Swapped
      <4> QED BY <1>6, <4>1 DEF Creates
    <3>5. \A C : /\ HowMany(q, C) + Weight(l, C) = HowMany(stack[t], C) + Weight(f, C)
                 /\ HowMany(q, C) \in Nat /\ HowMany(stack[t], C) \in Nat
      BY <1>1, <1>2, <1>6, CountSwap DEF l
    <3> HIDE DEF q
    <3>6. LessBusy(q, l, stack[t])
      BY <1>5, <3>5 DEF LessBusy
    <3> QED BY <3>1, <3>2, <3>3, <3>4, <3>6
  <2> QED BY <1>4, <2>1, <2>2
<1>8. TypeOK /\ DepthInv(stack, depth, failed = {}) /\ QueueInv(plan, queue)
  BY DEF PoolInv
<1>9. \A a \in Actor :
        Balanced(num[a], HowMany(stack[t], Executions(plan, a)), HowMany(queue, CountedBy(plan, a)),
                 num'[a], HowMany(q, Executions(plan, a)), HowMany(queue', CountedBy(plan, a)))
  BY <1>1, <1>4, <1>7 DEF Balanced, LessBusy
<1>10. active' \in Int /\ Moved(active, HowMany(stack[t], Busy), active', HowMany(q, Busy))
  <2> DEFINE w == Weight(l, Busy)
             h == HowMany(q, Busy)
  <2>1. active \in Nat /\ w \in Nat /\ h \in Nat
    BY <1>5, <1>7, <1>8, CountType DEF TypeOK, Shape
  <2>2. active' = active - w /\ HowMany(stack[t], Busy) = h + w
    BY <1>4, <1>7 DEF LessBusy
  <2> HIDE DEF w, h
  <2>3. active' \in Int /\ active' + (h + w) = active + h
    BY <2>1, <2>2
  <2> QED BY <2>2, <2>3 DEF Moved, h
<1>11. depth'[t] >= HowMany(q, Inside) /\ (failed' = {} => failed = {} /\ depth'[t] = HowMany(q, Inside))
  BY <1>1, <1>4, <1>7, <1>8 DEF DepthInv, LessBusy
<1>12. Wakes([stack EXCEPT ![t] = q])
  <2>1. [stack EXCEPT ![t] = q] \in [Thread -> Seq(FrameType)]
    BY <1>2, <1>7 DEF Shape
  <2> QED BY <1>7, <2>1, NobodyWoken
<1>13. /\ begun \subseteq begun' /\ begun' \subseteq Actor /\ BodiesIn(begun', q) /\ QueueInv(plan, queue')
       /\ num' \in [Actor -> Int] /\ running' \in BOOLEAN /\ is_leaf' \in [Thread -> BOOLEAN]
       /\ error' \in [Actor -> BOOLEAN] /\ verdict' \in [Actor -> {"none", "true", "false"}]
       /\ ended' \subseteq begun' /\ failed' \subseteq ended' /\ crashed' \in BOOLEAN
       /\ depth' \in [Thread -> Int] /\ \A u \in Thread : u # t => depth'[u] = depth[u]
  BY <1>1, <1>4, <1>7, <1>8 DEF TypeOK
<1>14. /\ plan' = plan /\ threads' \subseteq Worker /\ (threads = {} => threads' = {})
       /\ \A w \in Worker \ threads' : stack[w] = << >>
  BY <1>1, <1>8 DEF TypeOK, PoolInv, StacksInv, Thread
<1> QED BY <1>1, <1>7, <1>9, <1>10, <1>11, <1>12, <1>13, <1>14, StepKeeps

(* Taken: run takes the first task of the queue: what the queue has less,  *)
(* the stacks have more.                                                   *)
LEMMA Taken ==
  ASSUME PoolInv, NEW t \in Thread, RunLoop(t), running, queue # << >>
  PROVE  PoolInv'
<1> DEFINE l == Last(stack[t])
           c == Head(queue)
           f == [l EXCEPT !.at = "task"]
           g == Body(c, "run")
           r == Append(Front(stack[t]), f)
           q == Append(r, g)
<1>1. /\ stack[t] # << >> /\ l \in RunFrames
      /\ RunFrom(t, active - Weight(l, Busy))
      /\ UNCHANGED <<plan, running, threads, num, error, verdict, ended, failed, crashed>>
  BY LoopFacts
<1>2. /\ stack \in [Thread -> Seq(FrameType)] /\ stack[t] \in Seq(FrameType) /\ Front(stack[t]) \in Seq(FrameType)
      /\ Shape(plan, t, stack[t]) /\ BodiesIn(begun, Front(stack[t]))
  BY <1>1, TopFacts
<1>3. f \in RunFrames /\ f.at = "task"
  BY <1>1 DEF RunFrames
<1>4. /\ queue' = Tail(queue) /\ active' = active - Weight(l, Busy) + 1
      /\ depth' = [depth EXCEPT ![t] = @ + 1] /\ begun' = begun \cup {c}
      /\ is_leaf' = [is_leaf EXCEPT ![t] = c \in plan.leaf]
      /\ stack' = Replace(t, <<f, g>>)
  BY <1>1 DEF RunFrom
<1>5. TypeOK /\ DepthInv(stack, depth, failed = {}) /\ QueueInv(plan, queue) /\ queue \in Seq(Task)
  BY DEF PoolInv, TypeOK
<1>6. c \in Task /\ c \in Actor /\ IsSubmitted(plan, c)
  <2>1. 1 \in DOMAIN queue /\ c = queue[1]
    <3>1. Len(queue) \in Nat \ {0}
      BY <1>5, EmptySeq
    <3> QED BY <1>5, <3>1, HeadTailProperties
  <2> QED BY <1>5, <2>1 DEF QueueInv, IsSubmitted, Actor
<1>7. g \in BodyFrames /\ g \in FrameType /\ g.via = "run" /\ g.actor = c
  BY <1>6, BodyNew
<1>8. QueueInv(plan, queue')
  <2>1. /\ Len(queue) \in Nat \ {0} /\ Tail(queue) \in Seq(Task) /\ Len(Tail(queue)) = Len(queue) - 1
        /\ \A i \in 1 .. Len(Tail(queue)) : Tail(queue)[i] = queue[i + 1]
    BY <1>5, EmptySeq, HeadTailProperties
  <2>2. ASSUME NEW i \in DOMAIN queue' PROVE IsSubmitted(plan, queue'[i])
    <3>1. i \in 1 .. Len(Tail(queue)) /\ i + 1 \in DOMAIN queue
      BY <1>4, <1>5, <2>1
    <3> QED BY <1>4, <1>5, <2>1, <3>1 DEF QueueInv
  <2> QED BY <1>4, <2>1, <2>2 DEF QueueInv
<1>9. \A C : HowMany(queue, C) = HowMany(queue', C) + Weight(c, C) /\ HowMany(queue', C) \in Nat
  <2>1. Tail(queue) \in Seq(Task)
    BY <1>5, HeadTailProperties
  <2> QED BY <1>4, <1>5, <2>1, CountTail, CountType
<1>10. /\ Weight(f, Busy) = 1 /\ Weight(f, Inside) = 0 /\ Weight(l, Inside) = 0
       /\ Weight(l, Busy) \in {0, 1} /\ Weight(g, Busy) = 0 /\ Weight(g, Inside) = 1
       /\ \A a : /\ Weight(f, Executions(plan, a)) = 0 /\ Weight(l, Executions(plan, a)) = 0
                 /\ Weight(g, Executions(plan, a)) = Weight(c, CountedBy(plan, a))
  <2> HIDE DEF f, g, l, c
  <2>1. Weight(f, Busy) = 1 /\ Weight(f, Inside) = 0 /\ \A a : Weight(f, Executions(plan, a)) = 0
    BY <1>3, FrameWeights
  <2>2. /\ Weight(l, Busy) \in {0, 1} /\ Weight(l, Inside) = 0
        /\ \A a : Weight(l, Executions(plan, a)) = 0
    BY <1>1, FrameWeights
  <2>3. Weight(g, Busy) = 0 /\ Weight(g, Inside) = 1
    BY <1>7, FrameWeights
  <2>4. ASSUME NEW a PROVE Weight(g, Executions(plan, a)) = Weight(c, CountedBy(plan, a))
    <3>1. Weight(g, Executions(plan, a)) = IF g.via = "run" /\ g.actor \in CountedBy(plan, a) THEN 1 ELSE 0
      BY <1>7, FrameWeights
    <3> QED BY <1>7, <3>1 DEF Weight
  <2> QED BY <2>1, <2>2, <2>3, <2>4
<1> HIDE DEF f, g, l, c
<1>11. f \in FrameType /\ f \notin OwnerFrames /\ f \notin BodyFrames /\ Alike(f, l)
  BY <1>1, <1>3, FrameKinds DEF Alike
<1>12. r \in Seq(FrameType) /\ r # << >> /\ Last(r) = f
  BY <1>1, <1>2, <1>11, Swapped
<1>13. Shape(plan, t, q)
  <2>1. Shape(plan, t, r)
    BY <1>1, <1>2, <1>11, ShapeSwap DEF l
  <2>2. Standing(plan, g) /\ Above(plan, Last(r), g)
    BY <1>3, <1>6, <1>7, <1>12 DEF Standing, Above
  <2> HIDE DEF r
  <2> QED BY <1>7, <1>12, <2>1, <2>2, ShapeAppend
<1>14. BodiesIn(begun', q)
  <2>1. BodiesIn(begun, r)
    BY <1>2, <1>11, BodiesAppend
  <2> HIDE DEF r
  <2>2. BodiesIn(begun', r) /\ c \in begun'
    BY <1>4, <2>1 DEF BodiesIn
  <2> QED BY <1>7, <1>12, <2>2, BodiesAppend
<1>15. ~Creates(q)
  <2> HIDE DEF r
  <2>1. Append(r, g)[Len(r) + 1] = g /\ Len(Append(r, g)) = Len(r) + 1
    BY <1>7, <1>12, AppendProperties
  <2> QED BY <1>7, <2>1, FrameKinds DEF Creates, Last
<1>16. \A C : /\ HowMany(q, C) + Weight(l, C) = HowMany(stack[t], C) + Weight(f, C) + Weight(g, C)
              /\ HowMany(q, C) \in Nat /\ HowMany(stack[t], C) \in Nat
  <2> TAKE C
  <2>1. /\ HowMany(r, C) + Weight(l, C) = HowMany(stack[t], C) + Weight(f, C)
        /\ HowMany(r, C) \in Nat /\ HowMany(stack[t], C) \in Nat
        /\ Weight(f, C) \in {0, 1} /\ Weight(l, C) \in {0, 1}
    BY <1>1, <1>2, <1>11, CountSwap DEF l
  <2> HIDE DEF r
  <2>2. HowMany(q, C) = HowMany(r, C) + Weight(g, C) /\ Weight(g, C) \in {0, 1}
    BY <1>7, <1>12, CountAppend DEF Weight
  <2> QED BY <2>1, <2>2
<1>17. stack' = [stack EXCEPT ![t] = q]
  <2>1. <<f>> \in Seq(FrameType) /\ <<g>> \in Seq(FrameType) /\ <<f, g>> = <<f>> \o <<g>>
    BY <1>7, <1>11, PairIsConcat
  <2>2. Front(stack[t]) \o (<<f>> \o <<g>>) = (Front(stack[t]) \o <<f>>) \o <<g>>
    BY <1>2, <2>1, ConcatAssociative
  <2>3. Front(stack[t]) \o <<f>> = r
    BY <1>2, <1>11, AppendIsConcat
  <2> HIDE DEF r
  <2>4. r \o <<g>> = q
    BY <1>7, <1>12, AppendIsConcat
  <2>5. Front(stack[t]) \o <<f, g>> = q
    BY <2>1, <2>2, <2>3, <2>4
  <2> QED BY <1>4, <2>5 DEF Replace
<1> HIDE DEF q, r
<1>18. ASSUME NEW a \in Actor
       PROVE Balanced(num[a], HowMany(stack[t], Executions(plan, a)), HowMany(queue, CountedBy(plan, a)),
                      num'[a], HowMany(q, Executions(plan, a)), HowMany(queue', CountedBy(plan, a)))
  <2> DEFINE w == Weight(c, CountedBy(plan, a))
             h == HowMany(stack[t], Executions(plan, a))
             k == HowMany(queue', CountedBy(plan, a))
             n == num[a]
  <2>1. n \in Nat /\ w \in Nat /\ h \in Nat /\ k \in Nat
    BY <1>5, <1>9, <1>16 DEF TypeOK, Weight
  <2>2. HowMany(q, Executions(plan, a)) = h + w
    <3>1. HowMany(q, Executions(plan, a)) + 0 = h + 0 + w /\ HowMany(q, Executions(plan, a)) \in Nat
      BY <1>10, <1>16
    <3> HIDE DEF h, w
    <3> QED BY <2>1, <3>1
  <2>3. HowMany(queue, CountedBy(plan, a)) = k + w /\ num'[a] = n
    BY <1>1, <1>9
  <2> HIDE DEF w, h, k, n
  <2>4. n + h + (k + w) = n + (h + w) + k
    BY <2>1
  <2> QED BY <2>2, <2>3, <2>4 DEF h, k, n, Balanced
<1>19. active' \in Int /\ Moved(active, HowMany(stack[t], Busy), active', HowMany(q, Busy))
  <2> DEFINE w == Weight(l, Busy)
             h == HowMany(stack[t], Busy)
             h2 == HowMany(q, Busy)
  <2>1. active \in Nat /\ w \in Nat /\ h \in Nat /\ h2 \in Nat /\ active' = active - w + 1 /\ h2 + w = h + 1 + 0
    BY <1>4, <1>5, <1>10, <1>16 DEF TypeOK
  <2> HIDE DEF w, h, h2
  <2>2. active' \in Int /\ active' + h = active + h2
    BY <2>1
  <2> QED BY <2>2 DEF Moved, h, h2
<1>20. /\ depth' \in [Thread -> Int] /\ depth'[t] = depth[t] + 1 /\ depth[t] \in Nat
       /\ \A u \in Thread : u # t => depth'[u] = depth[u]
  BY <1>4, <1>5 DEF TypeOK
<1>21. depth'[t] >= HowMany(q, Inside) /\ (failed' = {} => failed = {} /\ depth'[t] = HowMany(q, Inside))
  <2>1. HowMany(q, Inside) = HowMany(stack[t], Inside) + 1 /\ HowMany(stack[t], Inside) \in Nat
    <3>1. HowMany(q, Inside) + 0 = HowMany(stack[t], Inside) + 0 + 1
      BY <1>10, <1>16
    <3> QED BY <1>16, <3>1
  <2> QED BY <1>1, <1>5, <1>20, <2>1 DEF DepthInv
<1>22. Wakes([stack EXCEPT ![t] = q])
  <2>1. [stack EXCEPT ![t] = q] \in [Thread -> Seq(FrameType)]
    BY <1>2, <1>13 DEF Shape
  <2> QED BY <1>17, <2>1, NobodyWoken
<1>23. /\ begun \subseteq begun' /\ begun' \subseteq Actor
       /\ num' \in [Actor -> Int] /\ running' \in BOOLEAN /\ is_leaf' \in [Thread -> BOOLEAN]
       /\ error' \in [Actor -> BOOLEAN] /\ verdict' \in [Actor -> {"none", "true", "false"}]
       /\ ended' \subseteq begun' /\ failed' \subseteq ended' /\ crashed' \in BOOLEAN
  BY <1>1, <1>4, <1>5, <1>6 DEF TypeOK
<1>24. /\ plan' = plan /\ threads' \subseteq Worker /\ (threads = {} => threads' = {})
       /\ \A w \in Worker \ threads' : stack[w] = << >>
  BY <1>1, <1>5 DEF TypeOK, PoolInv, StacksInv, Thread
<1> QED BY <1>1, <1>8, <1>13, <1>14, <1>15, <1>18, <1>19, <1>20, <1>21, <1>22, <1>23, <1>24, StepKeeps

-----------------------------------------------------------------------------
(* OwnerFacts: an owner is alone on the stack of a caller, and not counted. *)
LEMMA OwnerFacts ==
  ASSUME PoolInv, NEW t \in Thread, stack[t] # << >>, Last(stack[t]).kind = "owner"
  PROVE  /\ t \in External /\ t \notin Worker /\ Last(stack[t]) \in OwnerFrames
         /\ SameCounts(plan, << >>, stack[t])
         /\ HowMany(stack[t], Inside) = 0
         /\ Replace(t, << >>) = [stack EXCEPT ![t] = << >>]
         /\ \A f \in OwnerFrames :
              /\ Shape(plan, t, <<f>>) /\ BodiesIn(begun, <<f>>) /\ Last(<<f>>) = f
              /\ SameCounts(plan, <<f>>, stack[t])
              /\ Replace(t, <<f>>) = [stack EXCEPT ![t] = <<f>>]
         /\ \A C : (\A f \in OwnerFrames : f \notin C) => \A i \in DOMAIN stack[t] : stack[t][i] \notin C
<1> DEFINE l == Last(stack[t])
<1>1. l \in OwnerFrames /\ l \notin BodyFrames /\ l \notin RunFrames
  BY TopFacts, FrameKinds
<1>2. stack[t] \in Seq(FrameType) /\ stack \in [Thread -> Seq(FrameType)]
  BY TopFacts
<1>3. Front(stack[t]) = << >>
  <2>1. Front(stack[t]) # << >> => Above(plan, Beneath(t), l)
    BY TopFacts
  <2> QED BY <1>1, <2>1 DEF Above
<1>4. Bottom(plan, t, l)
  BY <1>3, TopFacts
<1>5. t \in External /\ t \notin Worker /\ plan.final[t] # "none"
  BY <1>1, <1>4, ThreadsAssumption DEF Bottom
<1>6. \A C : HowMany(stack[t], C) = Weight(l, C)
  <2> TAKE C
  <2>1. HowMany(stack[t], C) = HowMany(<< >>, C) + Weight(l, C)
    BY <1>2, <1>3, CountFront
  <2> QED BY <2>1, CountNone DEF Weight
<1>7. /\ HowMany(stack[t], Busy) = 0 /\ HowMany(stack[t], Inside) = 0
      /\ \A a : HowMany(stack[t], Executions(plan, a)) = 0
  BY <1>1, <1>6, FrameWeights
<1>8. SameCounts(plan, << >>, stack[t])
  BY <1>7, CountNone DEF SameCounts
<1>9. \A q \in Seq(FrameType) : Replace(t, q) = [stack EXCEPT ![t] = q]
  <2> TAKE q \in Seq(FrameType)
  <2>1. << >> \o q = q
    OBVIOUS
  <2> QED BY <1>3, <2>1 DEF Replace
<1>10. ASSUME NEW f \in OwnerFrames
       PROVE  /\ Shape(plan, t, <<f>>) /\ BodiesIn(begun, <<f>>) /\ Last(<<f>>) = f
              /\ SameCounts(plan, <<f>>, stack[t]) /\ <<f>> \in Seq(FrameType)
  <2>1. f \in FrameType /\ f \notin BodyFrames /\ Standing(plan, f) /\ Bottom(plan, t, f)
    BY <1>5, FrameKinds DEF Standing, Bottom
  <2>2. /\ Shape(plan, t, <<f>>) /\ BodiesIn(begun, <<f>>) /\ Last(<<f>>) = f
        /\ \A C : HowMany(<<f>>, C) = Weight(f, C)
    BY <2>1, OneFrame
  <2>3. SameCounts(plan, <<f>>, stack[t])
    BY <1>7, <2>2, FrameWeights DEF SameCounts
  <2> QED BY <2>1, <2>2, <2>3
<1>11. << >> \in Seq(FrameType)
  OBVIOUS
<1>12. ASSUME NEW C, \A f \in OwnerFrames : f \notin C, NEW i \in DOMAIN stack[t]
       PROVE stack[t][i] \notin C
  <2>1. Len(stack[t]) = 1 /\ l = stack[t][1]
    <3>1. Len(stack[t]) \in Nat \ {0} /\ Len(Front(stack[t])) = Len(stack[t]) - 1 /\ l = stack[t][Len(stack[t])]
      BY <1>2, FrontLast
    <3> QED BY <1>3, <3>1
  <2> QED BY <1>1, <1>2, <1>12, <2>1
<1> QED BY <1>1, <1>5, <1>7, <1>8, <1>9, <1>10, <1>11, <1>12

(* Stopped: stop wakes every sleeper; nothing that is counted changes.     *)
LEMMA Stopped ==
  ASSUME PoolInv, NEW t \in Thread, Stop(t)
  PROVE  PoolInv'
<1> DEFINE f == [OwnerFrame EXCEPT !.at = "joining"]
<1>1. stack[t] # << >> /\ Last(stack[t]).kind = "owner"
  BY DEF Stop, Top
<1>2. f \in OwnerFrames /\ f.at = "joining"
  BY DEF OwnerFrame, OwnerFrames
<1>3. /\ running' = FALSE /\ NotifyAll(Replace(t, <<f>>))
      /\ UNCHANGED <<plan, queue, active, threads, depth, is_leaf, num, error, verdict, begun, ended, failed, crashed>>
  BY DEF Stop, locals, waiters, history
<1> HIDE DEF f
<1>4. /\ Shape(plan, t, <<f>>) /\ BodiesIn(begun, <<f>>) /\ Last(<<f>>) = f
      /\ SameCounts(plan, <<f>>, stack[t])
      /\ Replace(t, <<f>>) = [stack EXCEPT ![t] = <<f>>]
  BY <1>1, <1>2, OwnerFacts
<1> DEFINE q == <<f>>
<1>5. KeepsCounts(t, q)
  BY <1>2, <1>4 DEF KeepsCounts, Creates
<1>6. Wakes([stack EXCEPT ![t] = q])
  BY <1>3, <1>4 DEF NotifyAll, Wakes
<1>7. /\ running' \in BOOLEAN /\ is_leaf' \in [Thread -> BOOLEAN] /\ error' \in [Actor -> BOOLEAN]
      /\ verdict' \in [Actor -> {"none", "true", "false"}] /\ crashed' \in BOOLEAN
      /\ ended' \subseteq begun /\ failed' \subseteq ended' /\ failed \subseteq failed'
  BY <1>3 DEF PoolInv, TypeOK
<1> HIDE DEF q
<1> QED BY <1>1, <1>3, <1>5, <1>6, <1>7, QuietStep

(* Joined: the workers that are joined have no frame left.                 *)
LEMMA Joined ==
  ASSUME PoolInv, NEW t \in Thread, Join(t)
  PROVE  PoolInv'
<1> DEFINE f == [OwnerFrame EXCEPT !.at = "creating"]
<1>1. stack[t] # << >> /\ Last(stack[t]).kind = "owner"
  BY DEF Join, Top
<1>2. f \in OwnerFrames
  BY DEF OwnerFrame, OwnerFrames
<1>3. /\ threads' = {} /\ \A w \in threads : stack[w] = << >>
      /\ stack' = Replace(t, << >>) \/ stack' = Replace(t, <<f>>)
      /\ UNCHANGED <<plan, queue, active, running, depth, is_leaf, num, error, verdict, begun, ended, failed, crashed>>
  BY DEF Join, locals, waiters, history
<1> HIDE DEF f
<1>4. PICK q : /\ stack' = [stack EXCEPT ![t] = q]
               /\ Shape(plan, t, q) /\ BodiesIn(begun, q) /\ SameCounts(plan, q, stack[t])
  <2>1. CASE stack' = Replace(t, << >>)
    BY <1>1, <2>1, OwnerFacts, NoFrame
  <2>2. CASE stack' = Replace(t, <<f>>)
    BY <1>1, <1>2, <2>2, OwnerFacts
  <2> QED BY <1>3, <2>1, <2>2
<1>5. TypeOK /\ DepthInv(stack, depth, failed = {}) /\ QueueInv(plan, queue)
  BY DEF PoolInv
<1>6. \A a \in Actor :
        Balanced(num[a], HowMany(stack[t], Executions(plan, a)), HowMany(queue, CountedBy(plan, a)),
                 num'[a], HowMany(q, Executions(plan, a)), HowMany(queue', CountedBy(plan, a)))
  BY <1>3, <1>4 DEF Balanced, SameCounts
<1>7. Moved(active, HowMany(stack[t], Busy), active', HowMany(q, Busy))
  BY <1>3, <1>4 DEF Moved, SameCounts
<1>8. depth'[t] >= HowMany(q, Inside) /\ (failed' = {} => failed = {} /\ depth'[t] = HowMany(q, Inside))
  BY <1>3, <1>4, <1>5 DEF DepthInv, SameCounts
<1>9. Wakes([stack EXCEPT ![t] = q])
  <2>1. [stack EXCEPT ![t] = q] \in [Thread -> Seq(FrameType)]
    BY <1>4, <1>5 DEF Shape, TypeOK
  <2> QED BY <1>4, <2>1, NobodyWoken
<1>10. /\ begun \subseteq begun' /\ begun' \subseteq Actor /\ BodiesIn(begun', q) /\ QueueInv(plan, queue')
       /\ num' \in [Actor -> Int] /\ active' \in Int /\ running' \in BOOLEAN /\ is_leaf' \in [Thread -> BOOLEAN]
       /\ error' \in [Actor -> BOOLEAN] /\ verdict' \in [Actor -> {"none", "true", "false"}]
       /\ ended' \subseteq begun' /\ failed' \subseteq ended' /\ crashed' \in BOOLEAN
       /\ depth' \in [Thread -> Int] /\ \A u \in Thread : u # t => depth'[u] = depth[u]
  BY <1>3, <1>4, <1>5 DEF TypeOK
<1>11. plan' = plan /\ threads' \subseteq Worker /\ threads' = {}
  BY <1>3
<1>12. \A w \in Worker \ threads' : stack[w] = << >>
  BY <1>3 DEF PoolInv, StacksInv, Thread
<1> QED BY <1>1, <1>4, <1>6, <1>7, <1>8, <1>9, <1>10, <1>11, <1>12, StepKeeps

(* Awake: a worker that wakes for no reason changes no counter.            *)
LEMMA Awake ==
  ASSUME PoolInv, NEW t \in Thread, SpuriousWake(t)
  PROVE  PoolInv'
<1> DEFINE S == {t}
<1>1. /\ S \subseteq {u \in Thread : Asleep(u, stack)} /\ stack' = Woken(S, stack)
      /\ UNCHANGED <<plan, queue, active, running, threads, depth, is_leaf, num, error, verdict,
                     begun, ended, failed, crashed>>
  BY DEF SpuriousWake, locals, waiters, history
<1>2. /\ StacksInv(plan, begun, threads, stack) /\ CountsInv(plan, stack, queue, num, active)
      /\ DepthInv(stack, depth, failed = {}) /\ TypeOK /\ QueueInv(plan, queue)
  BY DEF PoolInv
<1> HIDE DEF S
<1>3. /\ StacksInv(plan, begun, threads, stack') /\ CountsInv(plan, stack', queue, num, active)
      /\ DepthInv(stack', depth, failed = {})
  BY <1>1, <1>2, WokenFrames
<1>4. TypeOK'
  BY <1>1, <1>2, <1>3 DEF TypeOK, StacksInv
<1> QED BY <1>1, <1>2, <1>3, <1>4 DEF PoolInv

(* Recreated: the new workers are at the start of run, and the owner is    *)
(* done: neither is counted.                                               *)
LEMMA Recreated ==
  ASSUME PoolInv, NEW t \in Thread, Create(t)
  PROVE  PoolInv'
<1>1. /\ stack[t] # << >> /\ Last(stack[t]).kind = "owner" /\ Last(stack[t]).at = "creating"
      /\ running' = TRUE /\ threads' = Created
      /\ stack' = [w \in Thread |-> IF w \in Worker THEN Fresh(w)
                                    ELSE IF Top(w, "owner", "creating") THEN << >>
                                    ELSE stack[w]]
      /\ depth' = [w \in Thread |-> IF w \in Worker THEN 0 ELSE depth[w]]
      /\ is_leaf' = [w \in Thread |-> IF w \in Worker THEN FALSE ELSE is_leaf[w]]
      /\ UNCHANGED <<plan, queue, active, num, error, verdict, begun, ended, failed, crashed>>
  BY DEF Create, NewWorkers, Top, waiters, history
<1>2. /\ StacksInv(plan, begun, threads, stack) /\ CountsInv(plan, stack, queue, num, active)
      /\ DepthInv(stack, depth, failed = {}) /\ TypeOK /\ QueueInv(plan, queue)
  BY DEF PoolInv
<1>3. Created \subseteq Worker
  <2>1. plan.max \in 1 .. MaxWorkers + 1
    BY <1>2, PlanFacts DEF TypeOK
  <2> QED BY <2>1, ThreadsAssumption DEF Created, max, Worker
<1>4. \A w \in Worker : stack[w] = << >>
  <2>1. Creates(stack[t])
    BY <1>1, OwnerFacts DEF Creates
  <2> QED BY <1>2, <2>1 DEF StacksInv, Thread
<1>5. \A w \in Worker : w \in Thread /\ w \notin External
  BY ThreadsAssumption DEF Thread
<1> DEFINE f == RunFrame(FALSE)
<1>6. /\ f \in RunFrames /\ f \in FrameType /\ f \notin BodyFrames /\ f \notin OwnerFrames /\ f.at = "top"
      /\ \A C : HowMany(<<f>>, C) = Weight(f, C)
      /\ \A w \in Worker : Shape(plan, w, <<f>>) /\ BodiesIn(begun, <<f>>) /\ ~Creates(<<f>>)
  <2>1. f \in RunFrames /\ f \in FrameType /\ f \notin BodyFrames /\ f \notin OwnerFrames /\ f.at = "top"
    BY FrameKinds DEF RunFrame, RunFrames
  <2> HIDE DEF f
  <2>2. ASSUME NEW w \in Worker
        PROVE  /\ Shape(plan, w, <<f>>) /\ BodiesIn(begun, <<f>>) /\ Last(<<f>>) = f
               /\ \A C : HowMany(<<f>>, C) = Weight(f, C)
    BY <1>5, <2>1, OneFrame DEF Standing, Bottom
  <2>3. \A w \in Worker : ~Creates(<<f>>)
    BY <2>1, <2>2 DEF Creates
  <2>4. \A C : HowMany(<<f>>, C) = Weight(f, C)
    <3> TAKE C
    <3>0. << >> \in Seq(FrameType)
      OBVIOUS
    <3>1. HowMany(Append(<< >>, f), C) = HowMany(<< >>, C) + Weight(f, C)
      BY <2>1, <3>0, CountAppend
    <3>2. <<f>> = Append(<< >>, f)
      OBVIOUS
    <3> QED BY <3>1, <3>2, CountNone DEF Weight
  <2> QED BY <2>1, <2>2, <2>3, <2>4
<1>7. /\ f \notin Busy /\ f \notin Inside /\ \A a : f \notin Executions(plan, a)
  BY <1>6 DEF Busy, Inside, Executions
<1> HIDE DEF f
<1>8. ASSUME NEW u \in Thread
      PROVE  \/ u \in Worker /\ stack[u] = << >> /\ stack'[u] = << >> /\ u \notin Created
             \/ u \in Worker /\ stack[u] = << >> /\ stack'[u] = <<f>> /\ u \in Created
             \/ /\ u \notin Worker /\ stack'[u] = << >> /\ stack[u] # << >>
                /\ Last(stack[u]).kind = "owner"
             \/ u \notin Worker /\ stack'[u] = stack[u] /\ ~Top(u, "owner", "creating")
  BY <1>1, <1>4 DEF Fresh, Top, f
<1>9. ASSUME NEW u \in Thread
      PROVE  /\ Shape(plan, u, stack'[u]) /\ BodiesIn(begun, stack'[u])
             /\ u \in Worker \ Created => stack'[u] = << >>
             /\ ~Creates(stack'[u])
             /\ HowMany(stack'[u], Inside) = HowMany(stack[u], Inside)
  <2>1. HowMany(<< >>, Inside) = 0 /\ HowMany(<<f>>, Inside) = 0
    BY <1>6, <1>7, CountNone DEF Weight
  <2>2. CASE u \in Worker /\ stack[u] = << >> /\ stack'[u] = << >> /\ u \notin Created
    BY <2>1, <2>2, NoFrame
  <2>3. CASE u \in Worker /\ stack[u] = << >> /\ stack'[u] = <<f>> /\ u \in Created
    BY <1>6, <2>1, <2>3
  <2>4. CASE /\ u \notin Worker /\ stack'[u] = << >> /\ stack[u] # << >>
             /\ Last(stack[u]).kind = "owner"
    <3>1. HowMany(stack[u], Inside) = 0
      BY <2>4, OwnerFacts
    <3> QED BY <2>1, <2>4, <3>1, NoFrame
  <2>5. CASE u \notin Worker /\ stack'[u] = stack[u] /\ ~Top(u, "owner", "creating")
    <3>1. ~Creates(stack[u])
      <4>1. stack[u] # << >> /\ Last(stack[u]) \in OwnerFrames => Last(stack[u]).kind = "owner"
        BY FrameKinds
      <4> QED BY <2>5, <4>1 DEF Creates, Top
    <3> QED BY <1>2, <2>5, <3>1 DEF StacksInv
  <2> QED BY <1>8, <2>2, <2>3, <2>4, <2>5
<1>10. ASSUME NEW C, f \notin C, \A g \in OwnerFrames : g \notin C
       PROVE  At(stack', C) = At(stack, C)
  <2>1. ASSUME NEW u \in Thread, NEW i
        PROVE i \in DOMAIN stack'[u] /\ stack'[u][i] \in C <=> i \in DOMAIN stack[u] /\ stack[u][i] \in C
    <3>1. CASE u \in Worker /\ stack[u] = << >> /\ stack'[u] = << >>
      BY <3>1
    <3>2. CASE u \in Worker /\ stack[u] = << >> /\ stack'[u] = <<f>>
      <4>1. DOMAIN <<f>> = {1} /\ <<f>>[1] = f /\ DOMAIN << >> = {}
        OBVIOUS
      <4> QED BY <1>10, <3>2, <4>1
    <3>3. CASE stack'[u] = << >> /\ stack[u] # << >> /\ Last(stack[u]).kind = "owner"
      <4>1. \A j \in DOMAIN stack[u] : stack[u][j] \notin C
        BY <1>10, <3>3, OwnerFacts
      <4>2. DOMAIN << >> = {}
        OBVIOUS
      <4> QED BY <3>3, <4>1, <4>2
    <3>4. CASE stack'[u] = stack[u]
      BY <3>4
    <3> QED BY <1>8, <3>1, <3>2, <3>3, <3>4
  <2> QED BY <2>1 DEF At
<1>11. stack' \in [Thread -> Seq(FrameType)]
  <2>1. \A u \in Thread : stack'[u] \in Seq(FrameType)
    BY <1>9 DEF Shape
  <2> QED BY <1>1, <2>1
<1>12. StacksInv(plan, begun, threads', stack')
  BY <1>1, <1>9, <1>11 DEF StacksInv
<1>13. CountsInv(plan, stack', queue, num, active)
  <2>1. \A g \in OwnerFrames : g \notin Busy /\ \A a : g \notin Executions(plan, a)
    BY FrameKinds DEF Busy, Executions
  <2>2. At(stack', Busy) = At(stack, Busy) /\ \A a : At(stack', Executions(plan, a)) = At(stack, Executions(plan, a))
    BY <1>7, <1>10, <2>1
  <2> QED BY <1>2, <2>2 DEF CountsInv, Count
<1>14. DepthInv(stack', depth', failed = {}) /\ depth' \in [Thread -> Nat] /\ is_leaf' \in [Thread -> BOOLEAN]
  <2>1. depth' \in [Thread -> Nat] /\ is_leaf' \in [Thread -> BOOLEAN]
    BY <1>1, <1>2 DEF TypeOK
  <2>2. ASSUME NEW u \in Thread
        PROVE  /\ depth'[u] >= HowMany(stack'[u], Inside)
               /\ (failed = {}) => depth'[u] = HowMany(stack'[u], Inside)
    <3>1. CASE u \in Worker
      <4>1. HowMany(stack'[u], Inside) = 0 /\ depth'[u] = 0
        BY <1>1, <1>4, <1>9, <3>1, CountNone
      <4> QED BY <4>1
    <3>2. CASE u \notin Worker
      <4>1. HowMany(stack'[u], Inside) = HowMany(stack[u], Inside) /\ depth'[u] = depth[u]
        BY <1>1, <1>9, <3>2
      <4> QED BY <1>2, <4>1 DEF DepthInv
    <3> QED BY <3>1, <3>2
  <2> QED BY <2>1, <2>2 DEF DepthInv
<1>15. TypeOK'
  BY <1>1, <1>2, <1>3, <1>11, <1>14 DEF TypeOK
<1> QED BY <1>1, <1>2, <1>12, <1>13, <1>14, <1>15 DEF PoolInv

(* StepPool: every step keeps the invariant.                               *)
LEMMA StepPool == PoolInv /\ [Next]_vars => PoolInv'
<1> SUFFICES ASSUME PoolInv, [Next]_vars PROVE PoolInv'
  OBVIOUS
<1>1. ASSUME NEW t \in Thread, Step(t) PROVE PoolInv'
  <2>1. CASE SubmitFromLeaf(t) \/ CallWait(t) \/ WaitReturns(t) \/ DestroyWaiter(t) \/ WaiterDestroyed(t)
    BY <2>1, QuietSteps
  <2>2. CASE SubmitInline(t)
    BY <2>2, InlineBegins
  <2>3. CASE SubmitQueued(t)
    BY <2>3, Queued
  <2>4. CASE InlineEnds(t)
    BY <2>4, InlineReturns
  <2>5. CASE TaskEnds(t)
    BY <2>5, CountedOff
  <2>6. CASE CallerEnds(t)
    BY <2>6, CallersEnd
  <2>7. CASE RunLoop(t)
    <3>1. running \in BOOLEAN
      BY DEF PoolInv, TypeOK
    <3> QED BY <2>7, <3>1, Idles, Taken
  <2>8. CASE Stop(t)
    BY <2>8, Stopped
  <2>9. CASE Join(t)
    BY <2>9, Joined
  <2>10. CASE Create(t)
    BY <2>10, Recreated
  <2> QED BY <1>1, <2>1, <2>2, <2>3, <2>4, <2>5, <2>6, <2>7, <2>8, <2>9, <2>10 DEF Step
<1>2. ASSUME NEW t \in Thread, SpuriousWake(t) PROVE PoolInv'
  BY <1>2, Awake
<1>3. ASSUME UNCHANGED vars PROVE PoolInv'
  <2>1. UNCHANGED <<plan, queue, active, running, threads, stack, depth, is_leaf, num, error, verdict,
                    begun, ended, failed, crashed>>
    BY <1>3 DEF vars
  <2>2. TypeOK'
    BY <2>1 DEF PoolInv, TypeOK
  <2> QED BY <2>1, <2>2 DEF PoolInv
<1> QED BY <1>1, <1>2, <1>3 DEF Next, Quiet

(* PoolInvariant: in every state of every behaviour the stacks have their  *)
(* shape and the counters count them.                                      *)
THEOREM PoolInvariant == Spec => []PoolInv
BY InitPool, StepPool, PTL DEF Spec

(* PoolTypes: every variable of the pool has its type, so no counter goes  *)
(* below zero (threadpool.cpp: active, num, depth).                        *)
THEOREM PoolTypes == Spec => []TypeOK
<1>1. PoolInv => TypeOK
  BY DEF PoolInv
<1> QED BY <1>1, PoolInvariant, PTL

(* CountersExact: whatever the callers do and however their steps and the  *)
(* workers' interleave, a waiter counts its tasks that are queued or being *)
(* run, "active" the executions begun and not counted off, and while no    *)
(* task throws, "depth" the tasks a thread is inside of.                   *)
THEOREM CountersExact == Spec => []CountsExact
BY CountsAreExact, PoolInvariant, PTL

-----------------------------------------------------------------------------
(***************************************************************************)
(* Every step of the pool is one that fork and join allows: the counters   *)
(* are exact, and each task is in one place, from its submit to its end.   *)
(***************************************************************************)

(* The bodies on the stacks, each with its thread and its place. *)
On(s) == {x \in UNION {{<<t, i, s[t][i]>> : i \in DOMAIN s[t]} : t \in Thread} : x[3] \in BodyFrames}

Bodies == On(stack)

(* An actor has one body, and it has it from its beginning to its end. *)
OneBody == \A x, y \in Bodies : x[3].actor = y[3].actor => x = y
Alive ==
  /\ \A x \in Bodies : x[3].actor \in begun /\ x[3].actor \notin ended
  /\ \A a \in begun \ ended : \E x \in Bodies : x[3].actor = a

(* No task is handed in before its turn: nothing of an actor that has not  *)
(* begun, and of a body that submits only what comes before, or the task   *)
(* that it is running inside submit.                                       *)
Handed == Range(queue) \cup (begun \cap Task)
RunsInline(F, c) == \E y \in F : y[3].actor = c /\ y[3].via = "inline"
InTurn ==
  /\ \A a \in Actor \ begun : \A k \in DOMAIN plan.submits[a] : plan.submits[a][k] \notin Handed
  /\ \A x \in Bodies : x[3].at = "submitting" =>
       \A k \in DOMAIN plan.submits[x[3].actor] : plan.submits[x[3].actor][k] \in Handed =>
         \/ k < x[3].next
         \/ k = x[3].next /\ RunsInline(Bodies, plan.submits[x[3].actor][k])

(* A task is queued once, and before it begins. *)
QueuedOnce ==
  /\ \A i, j \in DOMAIN queue : queue[i] = queue[j] => i = j
  /\ \A i \in DOMAIN queue : queue[i] \notin begun

(* An actor is told once, a failure is noted until it is, and a body ends  *)
(* when its waiter counts nothing.                                         *)
Told ==
  /\ \A x \in Bodies : x[3].at \in {"submitting", "waiting"} =>
       /\ verdict[x[3].actor] = "none"
       /\ \A c \in CountedBy(plan, x[3].actor) : c \in failed => error[x[3].actor]
  /\ \A x \in Bodies : x[3].at = "ending" => num[x[3].actor] = 0
  /\ \A a \in Actor \ begun : verdict[a] = "none"
  /\ \A a \in Actor : error[a] => \E c \in CountedBy(plan, a) : c \in failed

LifeInv == OneBody /\ Alive /\ InTurn /\ QueuedOnce /\ Told

-----------------------------------------------------------------------------
(* Mine: the bodies on the stack q of the thread t, and those elsewhere. *)
Mine(t, q) == {x \in {<<t, i, q[i]>> : i \in DOMAIN q} : x[3] \in BodyFrames}
Others(s, t) == {x \in On(s) : x[1] # t}

(* OnIs: what is in the set.                                               *)
LEMMA OnIs ==
  ASSUME NEW s
  PROVE  /\ \A t \in Thread : \A i \in DOMAIN s[t] : s[t][i] \in BodyFrames => <<t, i, s[t][i]>> \in On(s)
         /\ \A x \in On(s) : /\ x[1] \in Thread /\ x[2] \in DOMAIN s[x[1]] /\ x[3] = s[x[1]][x[2]]
                             /\ x[3] \in BodyFrames /\ x = <<x[1], x[2], x[3]>>
BY DEF On

(* OnStack: replacing the stack of one thread replaces its bodies.         *)
LEMMA OnStack ==
  ASSUME NEW s \in [Thread -> Seq(FrameType)], NEW t \in Thread, NEW q
  PROVE  /\ On(s) = Others(s, t) \cup Mine(t, s[t])
         /\ On([s EXCEPT ![t] = q]) = Others(s, t) \cup Mine(t, q)
<1> DEFINE s2 == [s EXCEPT ![t] = q]
<1>1. s2[t] = q /\ \A u \in Thread : u # t => s2[u] = s[u]
  OBVIOUS
<1> HIDE DEF s2
<1>2. ASSUME NEW r PROVE On(r) = Others(r, t) \cup Mine(t, r[t])
  <2>1. On(r) \subseteq Others(r, t) \cup Mine(t, r[t])
    BY DEF On, Others, Mine
  <2>2. Others(r, t) \cup Mine(t, r[t]) \subseteq On(r)
    BY DEF On, Others, Mine
  <2> QED BY <2>1, <2>2
<1>3. Others(s2, t) = Others(s, t)
  BY <1>1 DEF On, Others
<1>4. On(s2) = Others(s, t) \cup Mine(t, q)
  BY <1>1, <1>2, <1>3
<1> QED BY <1>2, <1>4 DEF s2

(* MineAppend: a frame on top adds its body, if it is one.                 *)
LEMMA MineAppend ==
  ASSUME NEW t \in Thread, NEW q \in Seq(FrameType), NEW f \in FrameType
  PROVE  /\ Mine(t, Append(q, f)) = Mine(t, q) \cup (IF f \in BodyFrames THEN {<<t, Len(q) + 1, f>>} ELSE {})
         /\ \A g : <<t, Len(q) + 1, g>> \notin Mine(t, q)
<1>1. /\ DOMAIN Append(q, f) = (1 .. Len(q)) \cup {Len(q) + 1} /\ DOMAIN q = 1 .. Len(q)
      /\ Append(q, f)[Len(q) + 1] = f /\ \A i \in 1 .. Len(q) : Append(q, f)[i] = q[i]
      /\ Len(q) \in Nat /\ Len(q) + 1 \notin 1 .. Len(q)
  BY AppendProperties
<1> DEFINE n == Len(q) + 1
           r == Append(q, f)
<1>2. Mine(t, r) = {x \in {<<t, i, r[i]>> : i \in 1 .. Len(q)} : x[3] \in BodyFrames}
                     \cup {x \in {<<t, n, r[n]>>} : x[3] \in BodyFrames}
  BY <1>1 DEF Mine
<1>3. {x \in {<<t, i, r[i]>> : i \in 1 .. Len(q)} : x[3] \in BodyFrames} = Mine(t, q)
  BY <1>1 DEF Mine
<1>4. {x \in {<<t, n, r[n]>>} : x[3] \in BodyFrames} = IF f \in BodyFrames THEN {<<t, n, f>>} ELSE {}
  BY <1>1
<1>5. \A g : <<t, n, g>> \notin Mine(t, q)
  BY <1>1 DEF Mine
<1> QED BY <1>2, <1>3, <1>4, <1>5

(* MineFront: the bodies of a stack, and those without its top.            *)
LEMMA MineFront ==
  ASSUME NEW t \in Thread, NEW q \in Seq(FrameType), q # << >>
  PROVE  /\ Mine(t, q) = Mine(t, Front(q)) \cup (IF Last(q) \in BodyFrames THEN {<<t, Len(q), Last(q)>>} ELSE {})
         /\ \A g : <<t, Len(q), g>> \notin Mine(t, Front(q))
<1>1. /\ Front(q) \in Seq(FrameType) /\ Last(q) \in FrameType /\ q = Append(Front(q), Last(q))
      /\ Len(q) = Len(Front(q)) + 1
  <2>1. /\ Front(q) \in Seq(FrameType) /\ Last(q) \in FrameType /\ q = Append(Front(q), Last(q))
        /\ Len(q) \in Nat /\ Len(Front(q)) = Len(q) - 1
    BY FrontLast
  <2> DEFINE m == Len(Front(q))
             n == Len(q)
  <2>2. n = m + 1
    <3>1. n \in Nat /\ m = n - 1
      BY <2>1
    <3> HIDE DEF m, n
    <3> QED BY <3>1
  <2> QED BY <2>1, <2>2
<1> DEFINE F == Front(q)
           l == Last(q)
<1>2. F \in Seq(FrameType) /\ l \in FrameType
  BY <1>1
<1> HIDE DEF F, l
<1>3. /\ Mine(t, Append(F, l)) = Mine(t, F) \cup (IF l \in BodyFrames THEN {<<t, Len(F) + 1, l>>} ELSE {})
      /\ \A g : <<t, Len(F) + 1, g>> \notin Mine(t, F)
  BY <1>2, MineAppend
<1>4. q = Append(F, l) /\ Len(q) = Len(F) + 1
  BY <1>1 DEF F, l
<1> QED BY <1>3, <1>4 DEF F, l

(* OnWoken: waking sleepers changes no body.                               *)
LEMMA OnWoken ==
  ASSUME NEW s \in [Thread -> Seq(FrameType)], NEW S, S \subseteq {t \in Thread : Asleep(t, s)}
  PROVE  On(Woken(S, s)) = On(s)
<1> DEFINE s2 == Woken(S, s)
           r == RunFrame(FALSE)
<1>1. r \in FrameType /\ r \notin BodyFrames
  BY FrameKinds DEF RunFrame, RunFrames
<1>2. ASSUME NEW t \in Thread PROVE Mine(t, s2[t]) = Mine(t, s[t])
  <2>1. CASE t \in S
    <3>1. s[t] \in Seq(FrameType) /\ s[t] # << >> /\ Last(s[t]).at = "asleep"
      BY <2>1 DEF Asleep
    <3>2. Last(s[t]) \notin BodyFrames
      BY <3>1 DEF BodyFrames
    <3>3. Front(s[t]) \in Seq(FrameType)
      BY <3>1, FrontLast
    <3>4. Mine(t, s[t]) = Mine(t, Front(s[t]))
      <4> DEFINE q == s[t]
      <4>1. q \in Seq(FrameType) /\ q # << >> /\ Last(q) \notin BodyFrames
        BY <3>1, <3>2
      <4> HIDE DEF q
      <4>2. Mine(t, q) = Mine(t, Front(q))
        <5>1. Mine(t, q) = Mine(t, Front(q)) \cup (IF Last(q) \in BodyFrames THEN {<<t, Len(q), Last(q)>>} ELSE {})
          BY <4>1, MineFront
        <5> QED BY <4>1, <5>1
      <4> QED BY <4>2 DEF q
    <3>5. Mine(t, Append(Front(s[t]), r)) = Mine(t, Front(s[t]))
      <4> HIDE DEF r
      <4> QED BY <1>1, <3>3, MineAppend, ZenonT(60)
    <3> QED BY <2>1, <3>4, <3>5 DEF Woken
  <2>2. CASE t \notin S
    BY <2>2 DEF Woken
  <2> QED BY <2>1, <2>2
<1>3. ASSUME NEW z PROVE On(z) = UNION {Mine(t, z[t]) : t \in Thread}
  <2>1. On(z) \subseteq UNION {Mine(t, z[t]) : t \in Thread}
    BY DEF On, Mine
  <2>2. UNION {Mine(t, z[t]) : t \in Thread} \subseteq On(z)
    BY DEF On, Mine
  <2> QED BY <2>1, <2>2
<1>4. On(s2) = UNION {Mine(t, s2[t]) : t \in Thread} /\ On(s) = UNION {Mine(t, s[t]) : t \in Thread}
  BY <1>3
<1> HIDE DEF s2
<1>5. On(s2) = On(s)
  BY <1>2, <1>4
<1> QED BY <1>5 DEF s2

(* Here: the body a frame is, and Rest: the bodies below it and elsewhere. *)
Here(t, n, f) == IF f \in BodyFrames THEN {<<t, n, f>>} ELSE {}
Rest(s, t) == On([s EXCEPT ![t] = Front(s[t])])

(* OnTop: the body on top of a stack and the rest.                         *)
LEMMA OnTop ==
  ASSUME NEW s \in [Thread -> Seq(FrameType)], NEW t \in Thread, s[t] # << >>
  PROVE  /\ On(s) = Rest(s, t) \cup Here(t, Len(s[t]), Last(s[t]))
         /\ \A g : <<t, Len(s[t]), g>> \notin Rest(s, t)
         /\ \A f \in FrameType :
              On([s EXCEPT ![t] = Append(Front(s[t]), f)]) = Rest(s, t) \cup Here(t, Len(s[t]), f)
<1> DEFINE q == s[t]
           r == Front(q)
<1>1. q \in Seq(FrameType) /\ q # << >>
  OBVIOUS
<1>2. r \in Seq(FrameType) /\ Len(r) + 1 = Len(q)
  <2> HIDE DEF q
  <2>1. r \in Seq(FrameType) /\ Len(q) \in Nat /\ Len(r) = Len(q) - 1
    BY <1>1, FrontLast
  <2> HIDE DEF r
  <2> QED BY <2>1
<1>3. On(s) = Others(s, t) \cup Mine(t, q) /\ Rest(s, t) = Others(s, t) \cup Mine(t, r)
  BY OnStack DEF Rest
<1>4. Mine(t, q) = Mine(t, r) \cup Here(t, Len(q), Last(q)) /\ \A g : <<t, Len(q), g>> \notin Mine(t, r)
  <2> HIDE DEF q
  <2> QED BY <1>1, MineFront DEF Here
<1>5. \A g : <<t, Len(q), g>> \notin Others(s, t)
  BY DEF Others
<1>6. ASSUME NEW f \in FrameType
      PROVE On([s EXCEPT ![t] = Append(r, f)]) = Rest(s, t) \cup Here(t, Len(q), f)
  <2>1. On([s EXCEPT ![t] = Append(r, f)]) = Others(s, t) \cup Mine(t, Append(r, f))
    BY OnStack
  <2>2. Mine(t, Append(r, f)) = Mine(t, r) \cup Here(t, Len(q), f)
    <3> HIDE DEF q, r
    <3>1. Mine(t, Append(r, f)) = Mine(t, r) \cup Here(t, Len(r) + 1, f)
      BY <1>2, MineAppend DEF Here
    <3> QED BY <1>2, <3>1
  <2> QED BY <1>3, <2>1, <2>2
<1> HIDE DEF q
<1>7. On(s) = Rest(s, t) \cup Here(t, Len(q), Last(q)) /\ \A g : <<t, Len(q), g>> \notin Rest(s, t)
  BY <1>3, <1>4, <1>5
<1> QED BY <1>6, <1>7 DEF q

(* OnPush: a body more on a stack.                                         *)
LEMMA OnPush ==
  ASSUME NEW s \in [Thread -> Seq(FrameType)], NEW t \in Thread, NEW q \in Seq(FrameType),
         NEW g \in FrameType
  PROVE  /\ On([s EXCEPT ![t] = Append(q, g)]) = On([s EXCEPT ![t] = q]) \cup Here(t, Len(q) + 1, g)
         /\ \A f : <<t, Len(q) + 1, f>> \notin On([s EXCEPT ![t] = q])
<1>1. /\ On([s EXCEPT ![t] = Append(q, g)]) = Others(s, t) \cup Mine(t, Append(q, g))
      /\ On([s EXCEPT ![t] = q]) = Others(s, t) \cup Mine(t, q)
  BY OnStack
<1>2. Mine(t, Append(q, g)) = Mine(t, q) \cup Here(t, Len(q) + 1, g) /\ \A f : <<t, Len(q) + 1, f>> \notin Mine(t, q)
  BY MineAppend DEF Here
<1>3. \A f : <<t, Len(q) + 1, f>> \notin Others(s, t)
  BY DEF Others
<1> QED BY <1>1, <1>2, <1>3

-----------------------------------------------------------------------------
(* BodyFacts: a body is a body of an actor.                                *)
LEMMA BodyFacts ==
  /\ \A x \in Bodies : x[3] \in BodyFrames /\ x[3].actor \in Actor
  /\ \A x \in Bodies' : x[3] \in BodyFrames /\ x[3].actor \in Actor
<1>1. \A f \in BodyFrames : f.actor \in Actor
  BY DEF BodyFrames
<1>2. \A s : \A x \in On(s) : x[3] \in BodyFrames
  BY DEF On
<1> QED BY <1>1, <1>2 DEF Bodies

(* Edited: a body moves on, and its actor may be told.                     *)
LEMMA Edited ==
  ASSUME LifeInv, NEW x \in Bodies, NEW y,
         y[3].actor = x[3].actor, y[3].via = x[3].via,
         Bodies' = (Bodies \ {x}) \cup {y},
         y[3].at # "submitting", y[3].at = "waiting" => x[3].at = "submitting",
         y[3].at = "ending" => num[x[3].actor] = 0,
         UNCHANGED <<plan, queue, begun, ended, failed, num, error>>,
         \A a \in Actor : verdict'[a] # verdict[a] => a = x[3].actor /\ y[3].at = "leaving"
  PROVE  LifeInv'
<1>1. \A z \in Bodies' : z = y \/ (z \in Bodies /\ z[3].actor # x[3].actor)
  BY DEF LifeInv, OneBody
<1>2. x[3].actor \in Actor /\ x[3].actor \in begun /\ x[3].actor \notin ended
  BY BodyFacts DEF LifeInv, Alive
<1>3. OneBody'
  BY <1>1 DEF LifeInv, OneBody
<1>4. Alive'
  <2>1. \A z \in Bodies' : z[3].actor \in begun' /\ z[3].actor \notin ended'
    BY <1>1, <1>2 DEF LifeInv, Alive
  <2>2. ASSUME NEW a \in begun' \ ended' PROVE \E z \in Bodies' : z[3].actor = a
    <3>1. PICK z \in Bodies : z[3].actor = a
      BY DEF LifeInv, Alive
    <3> QED BY <3>1
  <2> QED BY <2>1, <2>2 DEF Alive
<1>5. Handed' = Handed
  BY DEF Handed
<1>6. \A c : RunsInline(Bodies, c) => RunsInline(Bodies', c)
  <2> SUFFICES ASSUME NEW c, RunsInline(Bodies, c) PROVE RunsInline(Bodies', c)
    OBVIOUS
  <2>1. PICK z \in Bodies : z[3].actor = c /\ z[3].via = "inline"
    BY DEF RunsInline
  <2>2. z \in Bodies' \/ (z = x /\ y[3].actor = c /\ y[3].via = "inline" /\ y \in Bodies')
    BY <2>1
  <2> QED BY <2>1, <2>2 DEF RunsInline
<1>7. InTurn'
  <2>1. \A a \in Actor \ begun' : \A k \in DOMAIN plan'.submits[a] : plan'.submits[a][k] \notin Handed'
    BY <1>5 DEF LifeInv, InTurn
  <2>2. ASSUME NEW z \in Bodies', z[3].at = "submitting",
               NEW k \in DOMAIN plan'.submits[z[3].actor], plan'.submits[z[3].actor][k] \in Handed'
        PROVE  \/ k < z[3].next
               \/ k = z[3].next /\ RunsInline(Bodies', plan'.submits[z[3].actor][k])
    <3>1. z \in Bodies /\ k \in DOMAIN plan.submits[z[3].actor] /\ plan.submits[z[3].actor][k] \in Handed
      BY <1>1, <1>5, <2>2
    <3>2. \/ k < z[3].next
          \/ k = z[3].next /\ RunsInline(Bodies, plan.submits[z[3].actor][k])
      BY <2>2, <3>1 DEF LifeInv, InTurn
    <3>3. plan' = plan
      OBVIOUS
    <3> QED BY <1>6, <3>2, <3>3
  <2> QED BY <2>1, <2>2 DEF InTurn
<1>8. QueuedOnce'
  BY DEF LifeInv, QueuedOnce
<1>9. Told'
  <2>1. ASSUME NEW z \in Bodies', z[3].at \in {"submitting", "waiting"}
        PROVE  /\ verdict'[z[3].actor] = "none"
               /\ \A c \in CountedBy(plan', z[3].actor) : c \in failed' => error'[z[3].actor]
    <3>1. z[3].actor \in Actor
      BY BodyFacts
    <3>2. verdict'[z[3].actor] = verdict[z[3].actor]
      BY <1>1, <2>1, <3>1
    <3>3. CASE z = y
      BY <2>1, <3>2, <3>3 DEF LifeInv, Told
    <3>4. CASE z # y
      BY <1>1, <2>1, <3>2, <3>4 DEF LifeInv, Told
    <3> QED BY <3>3, <3>4
  <2>2. ASSUME NEW z \in Bodies', z[3].at = "ending" PROVE num'[z[3].actor] = 0
    BY <1>1, <2>2 DEF LifeInv, Told
  <2>3. \A a \in Actor \ begun' : verdict'[a] = "none"
    BY <1>2 DEF LifeInv, Told
  <2>4. \A a \in Actor : error'[a] => \E c \in CountedBy(plan', a) : c \in failed'
    BY DEF LifeInv, Told
  <2> QED BY <2>1, <2>2, <2>3, <2>4 DEF Told
<1> QED BY <1>3, <1>4, <1>7, <1>8, <1>9 DEF LifeInv

(* Unmoved: nothing that the invariant is about changes.                   *)
LEMMA Unmoved ==
  ASSUME LifeInv, Bodies' = Bodies,
         UNCHANGED <<plan, queue, begun, ended, failed, num, error, verdict>>
  PROVE  LifeInv'
<1>1. Handed' = Handed /\ \A c : RunsInline(Bodies', c) <=> RunsInline(Bodies, c)
  BY DEF Handed, RunsInline
<1>2. InTurn'
  BY <1>1 DEF LifeInv, InTurn
<1> QED BY <1>2 DEF LifeInv, OneBody, Alive, QueuedOnce, Told

(* Once: who submits a task, and when, is in the plan.                     *)
LEMMA Once ==
  ASSUME plan \in Plans
  PROVE  /\ \A a, b \in Actor : \A i \in DOMAIN plan.submits[a], j \in DOMAIN plan.submits[b] :
              plan.submits[a][i] = plan.submits[b][j] => a = b /\ i = j
         /\ \A a \in Actor : /\ plan.submits[a] \in Seq(Task)
                             /\ \A i \in DOMAIN plan.submits[a] : plan.submits[a][i] \in Task
         /\ \A a, c : c \in CountedBy(plan, a) <=>
              c \notin plan.unwaited /\ \E i \in DOMAIN plan.submits[a] : plan.submits[a][i] = c
<1>1. SubmittedOnce(plan) /\ \A a \in Actor : plan.submits[a] \in Seq(Task)
  BY PlanFacts
<1>2. \A a \in Actor : \A i \in DOMAIN plan.submits[a] : plan.submits[a][i] \in Task
  BY <1>1
<1>3. \A a, c : c \in CountedBy(plan, a) <=>
        c \notin plan.unwaited /\ \E i \in DOMAIN plan.submits[a] : plan.submits[a][i] = c
  BY DEF CountedBy, Range
<1> QED BY <1>1, <1>2, <1>3 DEF SubmittedOnce

(* Submitting task c is what a does at place k.                            *)
IsTurn(a, k, c) == k \in DOMAIN plan.submits[a] /\ plan.submits[a][k] = c

(* OneTurn: a task is submitted by one actor, at one place.                *)
LEMMA OneTurn ==
  ASSUME plan \in Plans, NEW a \in Actor, NEW b \in Actor, NEW i, NEW j, NEW c,
         IsTurn(a, i, c), IsTurn(b, j, c)
  PROVE  a = b /\ i = j
BY Once DEF IsTurn

(* HandedOver: a task is queued in its turn.                               *)
LEMMA HandedOver ==
  ASSUME LifeInv, plan \in Plans, NEW x \in Bodies, NEW y,
         y[3].actor = x[3].actor, y[3].via = x[3].via, x[3].at = "submitting", y[3].at = "submitting",
         x[3].next \in Nat, y[3].next = x[3].next + 1, x[3].next \in DOMAIN plan.submits[x[3].actor],
         Bodies' = (Bodies \ {x}) \cup {y},
         Handed' = Handed \cup {plan.submits[x[3].actor][x[3].next]}, QueuedOnce',
         UNCHANGED <<plan, begun, ended, failed, error, verdict>>,
         \A a \in Actor : num'[a] # num[a] => a = x[3].actor
  PROVE  LifeInv'
<1> DEFINE c == plan.submits[x[3].actor][x[3].next]
<1>1. \A z \in Bodies' : z = y \/ (z \in Bodies /\ z[3].actor # x[3].actor)
  BY DEF LifeInv, OneBody
<1>2. x[3].actor \in Actor /\ x[3].actor \in begun /\ x[3].actor \notin ended
  BY BodyFacts DEF LifeInv, Alive
<1>3. OneBody'
  BY <1>1 DEF LifeInv, OneBody
<1>4. Alive'
  <2>1. \A z \in Bodies' : z[3].actor \in begun' /\ z[3].actor \notin ended'
    BY <1>1, <1>2 DEF LifeInv, Alive
  <2>2. ASSUME NEW a \in begun' \ ended' PROVE \E z \in Bodies' : z[3].actor = a
    <3>1. PICK z \in Bodies : z[3].actor = a
      BY DEF LifeInv, Alive
    <3> QED BY <3>1
  <2> QED BY <2>1, <2>2 DEF Alive
<1>5. \A d : RunsInline(Bodies, d) => RunsInline(Bodies', d)
  <2> SUFFICES ASSUME NEW d, RunsInline(Bodies, d) PROVE RunsInline(Bodies', d)
    OBVIOUS
  <2>1. PICK z \in Bodies : z[3].actor = d /\ z[3].via = "inline"
    BY DEF RunsInline
  <2>2. z \in Bodies' \/ (z = x /\ y[3].actor = d /\ y[3].via = "inline" /\ y \in Bodies')
    BY <2>1
  <2> QED BY <2>1, <2>2 DEF RunsInline
<1>6. InTurn'
  <2>0. plan' = plan
    OBVIOUS
  <2>1. ASSUME NEW a \in Actor \ begun', NEW k \in DOMAIN plan'.submits[a]
        PROVE  plan'.submits[a][k] \notin Handed'
    <3>1. plan.submits[a][k] \notin Handed
      BY DEF LifeInv, InTurn
    <3>2. plan.submits[a][k] # c
      BY <1>2, Once
    <3> QED BY <3>1, <3>2
  <2>2. ASSUME NEW z \in Bodies', z[3].at = "submitting",
               NEW k \in DOMAIN plan'.submits[z[3].actor], plan'.submits[z[3].actor][k] \in Handed'
        PROVE  \/ k < z[3].next
               \/ k = z[3].next /\ RunsInline(Bodies', plan'.submits[z[3].actor][k])
    <3>1. CASE z = y
      <4>1. k \in DOMAIN plan.submits[x[3].actor] /\ k \in Nat
        BY <1>2, <2>0, <3>1, Once
      <4>2. k = x[3].next \/ plan.submits[x[3].actor][k] \in Handed
        <5>1. plan.submits[x[3].actor][k] \in Handed \cup {c}
          BY <2>0, <2>2, <3>1
        <5>2. ASSUME plan.submits[x[3].actor][k] = c PROVE k = x[3].next
          <6>1. IsTurn(x[3].actor, k, c) /\ IsTurn(x[3].actor, x[3].next, c)
            BY <4>1, <5>2 DEF IsTurn
          <6> HIDE DEF c
          <6> QED BY <1>2, <6>1, OneTurn
        <5> QED BY <5>1, <5>2
      <4>3. k = x[3].next \/ k < x[3].next
        BY <4>1, <4>2 DEF LifeInv, InTurn
      <4> QED BY <3>1, <4>1, <4>3
    <3>2. CASE z # y
      <4>1. z \in Bodies /\ z[3].actor # x[3].actor /\ z[3].actor \in Actor
        BY <1>1, <3>2, BodyFacts
      <4>2. plan.submits[z[3].actor][k] \in Handed
        <5>1. plan.submits[z[3].actor][k] \in Handed \cup {c}
          BY <2>0, <2>2
        <5>2. ASSUME plan.submits[z[3].actor][k] = c PROVE FALSE
          <6>1. IsTurn(z[3].actor, k, c) /\ IsTurn(x[3].actor, x[3].next, c)
            BY <2>0, <5>2 DEF IsTurn
          <6> HIDE DEF c
          <6> QED BY <1>2, <4>1, <6>1, OneTurn
        <5> QED BY <5>1, <5>2
      <4>3. \/ k < z[3].next
            \/ k = z[3].next /\ RunsInline(Bodies, plan.submits[z[3].actor][k])
        BY <2>0, <2>2, <4>1, <4>2 DEF LifeInv, InTurn
      <4> QED BY <1>5, <2>0, <4>3
    <3> QED BY <3>1, <3>2
  <2> QED BY <2>1, <2>2 DEF InTurn
<1>7. Told'
  <2>1. ASSUME NEW z \in Bodies', z[3].at \in {"submitting", "waiting"}
        PROVE  /\ verdict'[z[3].actor] = "none"
               /\ \A d \in CountedBy(plan', z[3].actor) : d \in failed' => error'[z[3].actor]
    <3>1. CASE z = y
      BY <3>1 DEF LifeInv, Told
    <3>2. CASE z # y
      BY <1>1, <2>1, <3>2 DEF LifeInv, Told
    <3> QED BY <3>1, <3>2
  <2>2. ASSUME NEW z \in Bodies', z[3].at = "ending" PROVE num'[z[3].actor] = 0
    BY <1>1, <2>2, BodyFacts DEF LifeInv, Told
  <2> QED BY <2>1, <2>2 DEF LifeInv, Told
<1> QED BY <1>3, <1>4, <1>6, <1>7 DEF LifeInv

(* Starts: a task begins that was queued, or whose turn it is.             *)
LEMMA Starts ==
  ASSUME LifeInv, plan \in Plans, ended \subseteq begun, failed \subseteq begun, NEW y,
         y[3].actor \in Task, y[3].actor \notin begun,
         y[3].at \in {"submitting", "ending"}, y[3].at = "ending" => num[y[3].actor] = 0,
         Bodies' = Bodies \cup {y}, begun' = begun \cup {y[3].actor}, QueuedOnce',
         Handed' = Handed \cup {y[3].actor},
         \/ y[3].actor \in Handed
         \/ y[3].via = "inline" /\ \E x \in Bodies :
              /\ x[3].at = "submitting" /\ x[3].next \in DOMAIN plan.submits[x[3].actor]
              /\ plan.submits[x[3].actor][x[3].next] = y[3].actor,
         UNCHANGED <<plan, ended, failed, num, error, verdict>>
  PROVE  LifeInv'
<1> DEFINE c == y[3].actor
<1>1. c \in Actor /\ c \notin ended
  BY DEF Actor
<1>2. \A z \in Bodies : z[3].actor # c /\ z[3].actor \in begun /\ z[3].actor \in Actor
  BY BodyFacts DEF LifeInv, Alive
<1>3. OneBody'
  BY <1>2 DEF LifeInv, OneBody
<1>4. Alive'
  <2>1. \A z \in Bodies' : z[3].actor \in begun' /\ z[3].actor \notin ended'
    BY <1>1 DEF LifeInv, Alive
  <2>2. ASSUME NEW a \in begun' \ ended' PROVE \E z \in Bodies' : z[3].actor = a
    <3>1. CASE a = c
      BY <3>1
    <3>2. CASE a # c
      <4>1. PICK z \in Bodies : z[3].actor = a
        BY <3>2 DEF LifeInv, Alive
      <4> QED BY <4>1
    <3> QED BY <3>1, <3>2
  <2> QED BY <2>1, <2>2 DEF Alive
<1>5. ASSUME NEW a \in Actor \ begun, NEW k \in DOMAIN plan.submits[a]
      PROVE  plan.submits[a][k] \notin Handed /\ plan.submits[a][k] # c
  <2>1. plan.submits[a][k] \notin Handed
    BY DEF LifeInv, InTurn
  <2>2. CASE c \in Handed
    BY <2>1, <2>2
  <2>3. CASE c \notin Handed
    <3>1. PICK x \in Bodies : /\ x[3].next \in DOMAIN plan.submits[x[3].actor]
                              /\ plan.submits[x[3].actor][x[3].next] = c
      BY <2>3
    <3>2. x[3].actor \in begun /\ x[3].actor \in Actor
      BY <1>2
    <3>3. ASSUME plan.submits[a][k] = c PROVE FALSE
      <4>1. IsTurn(a, k, c) /\ IsTurn(x[3].actor, x[3].next, c)
        BY <3>1, <3>3 DEF IsTurn
      <4>2. a = x[3].actor
        BY <3>2, <4>1, OneTurn
      <4> QED BY <3>2, <4>2
    <3> QED BY <2>1, <3>3
  <2> QED BY <2>2, <2>3
<1>6. InTurn'
  <2>0. plan' = plan
    OBVIOUS
  <2>1. \A a \in Actor \ begun' : \A k \in DOMAIN plan'.submits[a] : plan'.submits[a][k] \notin Handed'
    BY <1>5
  <2>2. ASSUME NEW z \in Bodies', z[3].at = "submitting",
               NEW k \in DOMAIN plan'.submits[z[3].actor], plan'.submits[z[3].actor][k] \in Handed'
        PROVE  \/ k < z[3].next
               \/ k = z[3].next /\ RunsInline(Bodies', plan'.submits[z[3].actor][k])
    <3>1. CASE z = y
      BY <1>1, <1>5, <2>0, <2>2, <3>1
    <3>2. CASE z \in Bodies /\ plan.submits[z[3].actor][k] \in Handed
      <4>1. \/ k < z[3].next
            \/ k = z[3].next /\ RunsInline(Bodies, plan.submits[z[3].actor][k])
        BY <2>0, <2>2, <3>2 DEF LifeInv, InTurn
      <4> QED BY <2>0, <4>1 DEF RunsInline
    <3>3. CASE z \in Bodies /\ plan.submits[z[3].actor][k] \notin Handed
      <4>1. plan.submits[z[3].actor][k] = c
        BY <2>0, <2>2, <3>3
      <4>2. PICK x \in Bodies : /\ x[3].next \in DOMAIN plan.submits[x[3].actor]
                                /\ plan.submits[x[3].actor][x[3].next] = c
        BY <3>3, <4>1
      <4>3. z[3].actor = x[3].actor /\ k = x[3].next
        <5> DEFINE a == z[3].actor
                   b == x[3].actor
                   j == x[3].next
        <5>1. a \in Actor /\ b \in Actor
          BY <1>2, <3>3, <4>2
        <5>2. k \in DOMAIN plan.submits[a] /\ j \in DOMAIN plan.submits[b]
          BY <2>0, <4>2
        <5>3. plan.submits[a][k] = plan.submits[b][j]
          BY <4>1, <4>2
        <5> HIDE DEF a, b, j, c
        <5>4. a = b /\ k = j
          <6>1. IsTurn(a, k, plan.submits[b][j]) /\ IsTurn(b, j, plan.submits[b][j])
            BY <5>2, <5>3 DEF IsTurn
          <6> QED BY <5>1, <6>1, OneTurn
        <5> QED BY <5>4 DEF a, b, j
      <4>4. z = x /\ y[3].via = "inline"
        BY <3>3, <4>1, <4>3 DEF LifeInv, OneBody
      <4>5. y \in Bodies'
        OBVIOUS
      <4> QED BY <2>0, <4>1, <4>3, <4>4, <4>5 DEF RunsInline
    <3> QED BY <3>1, <3>2, <3>3
  <2> QED BY <2>1, <2>2 DEF InTurn
<1>7. Told'
  <2>1. ASSUME NEW z \in Bodies', z[3].at \in {"submitting", "waiting"}
        PROVE  /\ verdict'[z[3].actor] = "none"
               /\ \A d \in CountedBy(plan', z[3].actor) : d \in failed' => error'[z[3].actor]
    <3>1. CASE z = y
      <4>1. verdict[c] = "none"
        BY <1>1 DEF LifeInv, Told
      <4>2. ASSUME NEW d \in CountedBy(plan, c), d \in failed PROVE FALSE
        <5>1. PICK k \in DOMAIN plan.submits[c] : plan.submits[c][k] = d
          <6>1. d \in CountedBy(plan, c)
            OBVIOUS
          <6> HIDE DEF c
          <6> QED BY <6>1, Once
        <5>2. d \in begun \cap Task
          BY <1>1, <4>2, <5>1, Once
        <5> QED BY <1>1, <1>5, <5>1, <5>2 DEF Handed
      <4> QED BY <3>1, <4>1, <4>2
    <3>2. CASE z \in Bodies
      BY <2>1, <3>2 DEF LifeInv, Told
    <3> QED BY <3>1, <3>2
  <2>2. ASSUME NEW z \in Bodies', z[3].at = "ending" PROVE num'[z[3].actor] = 0
    BY <2>2 DEF LifeInv, Told
  <2> QED BY <2>1, <2>2 DEF LifeInv, Told
<1> QED BY <1>3, <1>4, <1>6, <1>7 DEF LifeInv

(* Leaves: an actor ends that did not run inside submit; a failure is      *)
(* noted by the waiter that counts it.                                     *)
LEMMA Leaves ==
  ASSUME LifeInv, NEW x \in Bodies, x[3].via # "inline", Bodies' = Bodies \ {x},
         begun' = begun, ended' = ended \cup {x[3].actor},
         failed' = failed \/ failed' = failed \cup {x[3].actor},
         UNCHANGED <<plan, queue, verdict>>,
         \A a \in Actor : num[a] = 0 => num'[a] = 0,
         \A a \in Actor : error[a] => error'[a],
         \A a \in Actor : error'[a] => error[a] \/ (x[3].actor \in CountedBy(plan, a) /\ x[3].actor \in failed'),
         \A a \in Actor : x[3].actor \in CountedBy(plan, a) /\ x[3].actor \in failed' => error'[a]
  PROVE  LifeInv'
<1> DEFINE c == x[3].actor
<1>1. \A z \in Bodies' : z \in Bodies /\ z[3].actor # c /\ z[3].actor \in Actor
  BY BodyFacts DEF LifeInv, OneBody
<1>2. OneBody'
  BY DEF LifeInv, OneBody
<1>3. Alive'
  <2>1. \A z \in Bodies' : z[3].actor \in begun' /\ z[3].actor \notin ended'
    BY <1>1 DEF LifeInv, Alive
  <2>2. ASSUME NEW a \in begun' \ ended' PROVE \E z \in Bodies' : z[3].actor = a
    <3>1. PICK z \in Bodies : z[3].actor = a
      BY DEF LifeInv, Alive
    <3> QED BY <3>1
  <2> QED BY <2>1, <2>2 DEF Alive
<1>4. Handed' = Handed /\ \A d : RunsInline(Bodies, d) => RunsInline(Bodies', d)
  BY DEF Handed, RunsInline
<1>5. InTurn'
  <2>0. plan' = plan
    OBVIOUS
  <2>1. \A a \in Actor \ begun' : \A k \in DOMAIN plan'.submits[a] : plan'.submits[a][k] \notin Handed'
    BY <1>4 DEF LifeInv, InTurn
  <2>2. ASSUME NEW z \in Bodies', z[3].at = "submitting",
               NEW k \in DOMAIN plan'.submits[z[3].actor], plan'.submits[z[3].actor][k] \in Handed'
        PROVE  \/ k < z[3].next
               \/ k = z[3].next /\ RunsInline(Bodies', plan'.submits[z[3].actor][k])
    <3>1. \/ k < z[3].next
          \/ k = z[3].next /\ RunsInline(Bodies, plan.submits[z[3].actor][k])
      BY <1>1, <1>4, <2>0, <2>2 DEF LifeInv, InTurn
    <3> QED BY <1>4, <2>0, <3>1
  <2> QED BY <2>1, <2>2 DEF InTurn
<1>6. QueuedOnce'
  BY DEF LifeInv, QueuedOnce
<1>7. Told'
  <2>0. plan' = plan /\ verdict' = verdict /\ begun' = begun
    OBVIOUS
  <2>1. ASSUME NEW z \in Bodies', z[3].at \in {"submitting", "waiting"}
        PROVE  /\ verdict'[z[3].actor] = "none"
               /\ \A d \in CountedBy(plan', z[3].actor) : d \in failed' => error'[z[3].actor]
    <3>1. verdict[z[3].actor] = "none" /\ z[3].actor \in Actor
      BY <1>1, <2>1 DEF LifeInv, Told
    <3>2. ASSUME NEW d \in CountedBy(plan, z[3].actor), d \in failed' PROVE error'[z[3].actor]
      <4>1. CASE d \in failed
        BY <1>1, <2>1, <4>1 DEF LifeInv, Told
      <4>2. CASE d \notin failed
        BY <3>1, <3>2, <4>2
      <4> QED BY <4>1, <4>2
    <3> QED BY <2>0, <3>1, <3>2
  <2>2. ASSUME NEW z \in Bodies', z[3].at = "ending" PROVE num'[z[3].actor] = 0
    BY <1>1, <2>2 DEF LifeInv, Told
  <2>3. \A a \in Actor \ begun' : verdict'[a] = "none"
    BY <2>0 DEF LifeInv, Told
  <2>4. ASSUME NEW a \in Actor, error'[a] PROVE \E d \in CountedBy(plan', a) : d \in failed'
    <3>1. CASE error[a]
      <4>1. PICK d \in CountedBy(plan, a) : d \in failed
        BY <3>1 DEF LifeInv, Told
      <4> QED BY <2>0, <4>1
    <3>2. CASE ~error[a]
      BY <2>0, <2>4, <3>2
    <3> QED BY <3>1, <3>2
  <2> QED BY <2>1, <2>2, <2>3, <2>4 DEF Told
<1> QED BY <1>2, <1>3, <1>5, <1>6, <1>7 DEF LifeInv

(* LeavesInline: an actor ends that ran inside the submit of another, which *)
(* goes on to its next task, or leaves if the task failed.                 *)
LEMMA LeavesInline ==
  ASSUME LifeInv, plan \in Plans, NEW x \in Bodies, NEW z \in Bodies, x # z, NEW y,
         z[3].at = "submitting", z[3].next \in Nat, z[3].next \in DOMAIN plan.submits[z[3].actor],
         plan.submits[z[3].actor][z[3].next] = x[3].actor,
         y[3].actor = z[3].actor, y[3].via = z[3].via,
         Bodies' = (Bodies \ {x, z}) \cup {y},
         begun' = begun, ended' = ended \cup {x[3].actor},
         failed' = failed \/ failed' = failed \cup {x[3].actor},
         \/ y[3].at = "leaving"
         \/ y[3].at = "submitting" /\ y[3].next = z[3].next + 1 /\ failed' = failed,
         UNCHANGED <<plan, queue, num, error, verdict>>
  PROVE  LifeInv'
<1> DEFINE c == x[3].actor
           a == z[3].actor
<1>1. /\ a \in Actor /\ a # c
      /\ \A w \in Bodies : w[3].actor = a => w = z
      /\ \A w \in Bodies' : w = y \/ (w \in Bodies /\ w[3].actor # c /\ w[3].actor # a /\ w[3].actor \in Actor)
  BY BodyFacts DEF LifeInv, OneBody
<1>2. OneBody'
  BY <1>1 DEF LifeInv, OneBody
<1>3. Alive'
  <2>1. \A w \in Bodies' : w[3].actor \in begun' /\ w[3].actor \notin ended'
    BY <1>1 DEF LifeInv, Alive
  <2>2. ASSUME NEW b \in begun' \ ended' PROVE \E w \in Bodies' : w[3].actor = b
    <3>1. PICK w \in Bodies : w[3].actor = b
      BY DEF LifeInv, Alive
    <3>2. w # x
      BY <2>2, <3>1
    <3> QED BY <3>1, <3>2
  <2> QED BY <2>1, <2>2 DEF Alive
<1>4. Handed' = Handed /\ \A d : d # c /\ RunsInline(Bodies, d) => RunsInline(Bodies', d)
  <2>1. ASSUME NEW d, d # c, RunsInline(Bodies, d) PROVE RunsInline(Bodies', d)
    <3>1. PICK w \in Bodies : w[3].actor = d /\ w[3].via = "inline"
      BY <2>1 DEF RunsInline
    <3>2. w \in Bodies' \/ (w = z /\ y[3].actor = d /\ y[3].via = "inline" /\ y \in Bodies')
      BY <2>1, <3>1
    <3> QED BY <3>1, <3>2 DEF RunsInline
  <2> QED BY <2>1 DEF Handed
<1>5. InTurn'
  <2>0. plan' = plan
    OBVIOUS
  <2>1. \A b \in Actor \ begun' : \A k \in DOMAIN plan'.submits[b] : plan'.submits[b][k] \notin Handed'
    BY <1>4 DEF LifeInv, InTurn
  <2>2. ASSUME NEW w \in Bodies', w[3].at = "submitting",
               NEW k \in DOMAIN plan'.submits[w[3].actor], plan'.submits[w[3].actor][k] \in Handed'
        PROVE  \/ k < w[3].next
               \/ k = w[3].next /\ RunsInline(Bodies', plan'.submits[w[3].actor][k])
    <3>1. CASE w = y
      <4>1. k \in DOMAIN plan.submits[a] /\ plan.submits[a][k] \in Handed /\ k \in Nat
        <5>1. k \in DOMAIN plan.submits[a] /\ plan.submits[a][k] \in Handed
          BY <1>4, <2>0, <2>2, <3>1
        <5>2. plan.submits[a] \in Seq(Task)
          BY <1>1, Once
        <5> QED BY <5>1, <5>2
      <4>2. k = z[3].next \/ k < z[3].next
        BY <4>1 DEF LifeInv, InTurn
      <4>3. y[3].next = z[3].next + 1
        BY <2>2, <3>1
      <4> QED BY <3>1, <4>1, <4>2, <4>3
    <3>2. CASE w # y
      <4>1. w \in Bodies /\ w[3].actor \in Actor /\ w[3].actor # a
        BY <1>1, <3>2
      <4>2. \/ k < w[3].next
            \/ k = w[3].next /\ RunsInline(Bodies, plan.submits[w[3].actor][k])
        BY <1>4, <2>0, <2>2, <4>1 DEF LifeInv, InTurn
      <4>3. plan.submits[w[3].actor][k] # c
        BY <1>1, <2>0, <2>2, <4>1, Once
      <4> QED BY <1>4, <2>0, <4>2, <4>3
    <3> QED BY <3>1, <3>2
  <2> QED BY <2>1, <2>2 DEF InTurn
<1>6. QueuedOnce'
  BY DEF LifeInv, QueuedOnce
<1>7. Told'
  <2>0. plan' = plan /\ verdict' = verdict /\ begun' = begun /\ error' = error /\ num' = num
    OBVIOUS
  <2>1. ASSUME NEW w \in Bodies', w[3].at \in {"submitting", "waiting"}
        PROVE  /\ verdict'[w[3].actor] = "none"
               /\ \A d \in CountedBy(plan', w[3].actor) : d \in failed' => error'[w[3].actor]
    <3>1. CASE w = y
      <4>1. failed' = failed
        BY <2>1, <3>1
      <4> QED BY <2>0, <3>1, <4>1 DEF LifeInv, Told
    <3>2. CASE w # y
      <4>1. w \in Bodies /\ w[3].actor \in Actor /\ w[3].actor # a
        BY <1>1, <3>2
      <4>2. c \notin CountedBy(plan, w[3].actor)
        BY <1>1, <4>1, Once
      <4> QED BY <2>0, <2>1, <4>1, <4>2 DEF LifeInv, Told
    <3> QED BY <3>1, <3>2
  <2>2. ASSUME NEW w \in Bodies', w[3].at = "ending" PROVE num'[w[3].actor] = 0
    BY <1>1, <2>0, <2>2 DEF LifeInv, Told
  <2>3. \A b \in Actor \ begun' : verdict'[b] = "none"
    BY <2>0 DEF LifeInv, Told
  <2>4. ASSUME NEW b \in Actor, error'[b] PROVE \E d \in CountedBy(plan', b) : d \in failed'
    <3>1. PICK d \in CountedBy(plan, b) : d \in failed
      BY <2>0, <2>4 DEF LifeInv, Told
    <3> QED BY <2>0, <3>1
  <2> QED BY <2>1, <2>2, <2>3, <2>4 DEF Told
<1> QED BY <1>2, <1>3, <1>5, <1>6, <1>7 DEF LifeInv

-----------------------------------------------------------------------------
(* Below: what is known of a body from where it stands.                    *)
LEMMA Below ==
  ASSUME PoolInv, NEW x \in Bodies
  PROVE  /\ x[3].via = "main" => x[3].actor \in External
         /\ x[3].via # "main" => x[3].actor \in Task
         /\ x[3].via \in {"main", "run", "inline"}
         /\ x[3].via = "inline" =>
              \E z \in Bodies : /\ z # x /\ z[1] = x[1] /\ z[2] = x[2] - 1
                                /\ z[3].at = "submitting"
                                /\ z[3].next \in DOMAIN plan.submits[z[3].actor]
                                /\ plan.submits[z[3].actor][z[3].next] = x[3].actor
<1> DEFINE t == x[1]
           n == x[2]
           f == x[3]
           q == stack[t]
<1>1. t \in Thread /\ n \in DOMAIN q /\ f = q[n] /\ f \in BodyFrames
  BY OnIs DEF Bodies
<1>2. Shape(plan, t, q) /\ q \in Seq(FrameType) /\ stack \in [Thread -> Seq(FrameType)]
  BY <1>1 DEF PoolInv, TypeOK, StacksInv
<1>3. f.via \in {"main", "run", "inline"}
  BY <1>1 DEF BodyFrames
<1>4. f.via # "main" => f.actor \in Task
  BY <1>1, <1>2 DEF Shape, Standing, IsSubmitted
<1>5. n \in 1 .. Len(q) /\ Len(q) \in Nat /\ DOMAIN q = 1 .. Len(q)
  BY <1>1, <1>2
<1> HIDE DEF n, q
<1>6. ASSUME n # 1 PROVE n - 1 \in DOMAIN q /\ Above(plan, q[n - 1], f)
  <2>1. n - 1 \in 1 .. Len(q) - 1 /\ (n - 1) + 1 = n /\ n - 1 \in 1 .. Len(q)
    BY <1>5, <1>6
  <2>2. Above(plan, q[n - 1], q[(n - 1) + 1])
    BY <1>2, <2>1 DEF Shape
  <2> QED BY <1>1, <1>5, <2>1, <2>2
<1>7. n = 1 => Bottom(plan, t, f)
  <2>1. q # << >>
    BY <1>5
  <2> QED BY <1>1, <1>2, <2>1 DEF Shape
<1>8. f \notin RunFrames /\ f \notin OwnerFrames
  BY <1>1, FrameKinds
<1>9. f.via = "main" => f.actor \in External
  BY <1>1, <1>6, <1>7, <1>8 DEF Above, Bottom
<1>10. ASSUME f.via = "inline"
       PROVE  \E z \in Bodies : /\ z # x /\ z[1] = x[1] /\ z[2] = x[2] - 1
                                /\ z[3].at = "submitting"
                                /\ z[3].next \in DOMAIN plan.submits[z[3].actor]
                                /\ plan.submits[z[3].actor][z[3].next] = x[3].actor
  <2>1. n # 1
    BY <1>1, <1>7, <1>8, <1>10 DEF Bottom
  <2>2. /\ n - 1 \in DOMAIN q /\ q[n - 1] \in BodyFrames /\ q[n - 1].at = "submitting"
        /\ q[n - 1].next \in DOMAIN plan.submits[q[n - 1].actor]
        /\ f.actor = plan.submits[q[n - 1].actor][q[n - 1].next]
    BY <1>1, <1>6, <1>8, <1>10, <2>1 DEF Above
  <2>3. <<t, n - 1, q[n - 1]>> \in Bodies
    BY <1>1, <2>2, OnIs DEF Bodies, q
  <2>4. n - 1 # n
    BY <1>5
  <2> WITNESS <<t, n - 1, q[n - 1]>> \in Bodies
  <2> QED BY <2>2, <2>4 DEF n
<1> QED BY <1>3, <1>4, <1>9, <1>10

(* TopBody: the body on top of a stack, and what is made of it.            *)
LEMMA TopBody ==
  ASSUME PoolInv, NEW t \in Thread, stack[t] # << >>, Last(stack[t]) \in BodyFrames
  PROVE  /\ <<t, Len(stack[t]), Last(stack[t])>> \in Bodies
         /\ On([stack EXCEPT ![t] = Front(stack[t])]) = Bodies \ {<<t, Len(stack[t]), Last(stack[t])>>}
         /\ \A f \in BodyFrames :
              /\ On(Replace(t, <<f>>)) = (Bodies \ {<<t, Len(stack[t]), Last(stack[t])>>})
                                           \cup {<<t, Len(stack[t]), f>>}
              /\ On(Replace(t, <<f, RunFrame(TRUE)>>)) = On(Replace(t, <<f>>))
         /\ \A y \in Bodies : y[1] = t => y[2] <= Len(stack[t])
<1> DEFINE q == stack[t]
           n == Len(q)
           l == Last(q)
           R == Rest(stack, t)
<1>1. stack \in [Thread -> Seq(FrameType)] /\ q \in Seq(FrameType) /\ Front(q) \in Seq(FrameType)
  BY TopFacts
<1>2. /\ Bodies = R \cup Here(t, n, l) /\ \A g : <<t, n, g>> \notin R
      /\ \A f \in FrameType : On([stack EXCEPT ![t] = Append(Front(q), f)]) = R \cup Here(t, n, f)
  BY <1>1, OnTop DEF Bodies
<1>3. Here(t, n, l) = {<<t, n, l>>}
  BY DEF Here
<1>4. On([stack EXCEPT ![t] = Front(q)]) = R
  BY DEF Rest
<1>5. ASSUME NEW f \in BodyFrames
      PROVE  /\ On(Replace(t, <<f>>)) = R \cup {<<t, n, f>>}
             /\ On(Replace(t, <<f, RunFrame(TRUE)>>)) = On(Replace(t, <<f>>))
  <2> DEFINE r == RunFrame(TRUE)
             p == Append(Front(q), f)
  <2>1. f \in FrameType /\ r \in FrameType /\ r \notin BodyFrames
    BY FrameKinds DEF RunFrame, RunFrames
  <2> HIDE DEF r
  <2>2. Front(q) \o <<f>> = p /\ p \in Seq(FrameType)
    BY <1>1, <2>1, AppendIsConcat
  <2>3. Front(q) \o <<f, r>> = Append(p, r)
    <3>1. <<f>> \in Seq(FrameType) /\ <<r>> \in Seq(FrameType) /\ <<f, r>> = <<f>> \o <<r>>
      BY <2>1, PairIsConcat
    <3>2. Front(q) \o (<<f>> \o <<r>>) = (Front(q) \o <<f>>) \o <<r>>
      BY <1>1, <3>1, ConcatAssociative
    <3> HIDE DEF p
    <3>3. p \o <<r>> = Append(p, r)
      BY <2>1, <2>2, AppendIsConcat
    <3> QED BY <2>2, <3>1, <3>2, <3>3
  <2>4. Replace(t, <<f>>) = [stack EXCEPT ![t] = p] /\ Replace(t, <<f, r>>) = [stack EXCEPT ![t] = Append(p, r)]
    BY <2>2, <2>3 DEF Replace
  <2>5. On([stack EXCEPT ![t] = p]) = R \cup {<<t, n, f>>}
    BY <1>2, <2>1 DEF Here
  <2>6. On([stack EXCEPT ![t] = Append(p, r)]) = On([stack EXCEPT ![t] = p])
    <3> HIDE DEF p
    <3>1. /\ On([stack EXCEPT ![t] = Append(p, r)]) = Others(stack, t) \cup Mine(t, Append(p, r))
          /\ On([stack EXCEPT ![t] = p]) = Others(stack, t) \cup Mine(t, p)
      BY <1>1, OnStack
    <3>2. Mine(t, Append(p, r)) = Mine(t, p) \cup Here(t, Len(p) + 1, r)
      BY <2>1, <2>2, MineAppend DEF Here
    <3> QED BY <2>1, <3>1, <3>2 DEF Here
  <2> QED BY <2>4, <2>5, <2>6 DEF r
<1>6. \A y \in Bodies : y[1] = t => y[2] <= n
  <2> SUFFICES ASSUME NEW y \in Bodies, y[1] = t PROVE y[2] <= n
    OBVIOUS
  <2>1. y[2] \in DOMAIN q
    BY OnIs DEF Bodies
  <2> QED BY <1>1, <2>1
<1> HIDE DEF R, q, n, l
<1>7. <<t, n, l>> \in Bodies /\ R = Bodies \ {<<t, n, l>>}
  BY <1>2, <1>3
<1> QED BY <1>4, <1>5, <1>6, <1>7 DEF n, l, q

(* NoBody: a frame that is no body comes or goes.                          *)
LEMMA NoBody ==
  ASSUME PoolInv, NEW t \in Thread, stack[t] # << >>, Last(stack[t]) \notin BodyFrames
  PROVE  /\ On(Replace(t, << >>)) = Bodies
         /\ \A f \in FrameType : f \notin BodyFrames => /\ On(Replace(t, <<f>>)) = Bodies
                                                        /\ Replace(t, <<f>>) \in [Thread -> Seq(FrameType)]
<1> DEFINE q == stack[t]
           R == Rest(stack, t)
<1>1. stack \in [Thread -> Seq(FrameType)] /\ q \in Seq(FrameType) /\ Front(q) \in Seq(FrameType)
  BY TopFacts
<1>2. /\ Bodies = R \cup Here(t, Len(q), Last(q))
      /\ \A f \in FrameType : On([stack EXCEPT ![t] = Append(Front(q), f)]) = R \cup Here(t, Len(q), f)
  BY <1>1, OnTop DEF Bodies
<1>3. Bodies = R
  BY <1>2 DEF Here
<1>4. Front(q) \o << >> = Front(q)
  BY <1>1
<1>5. Replace(t, << >>) = [stack EXCEPT ![t] = Front(q)]
  BY <1>4 DEF Replace
<1>6. ASSUME NEW f \in FrameType, f \notin BodyFrames
      PROVE  On(Replace(t, <<f>>)) = Bodies /\ Replace(t, <<f>>) \in [Thread -> Seq(FrameType)]
  <2>1. Front(q) \o <<f>> = Append(Front(q), f) /\ Append(Front(q), f) \in Seq(FrameType)
    BY <1>1, AppendIsConcat
  <2>2. Replace(t, <<f>>) = [stack EXCEPT ![t] = Append(Front(q), f)]
    BY <2>1 DEF Replace
  <2>3. Here(t, Len(q), f) = {}
    BY <1>6 DEF Here
  <2> QED BY <1>1, <1>2, <1>3, <2>1, <2>2, <2>3
<1> QED BY <1>3, <1>5, <1>6 DEF Rest

-----------------------------------------------------------------------------
(* NoTask: the steps that take no task and touch no body.                  *)
NoTask(t) ==
  \/ RunLoop(t) /\ (~running \/ queue = << >>)
  \/ Stop(t) \/ Join(t) \/ Create(t) \/ SpuriousWake(t)

(* BodiesStay: they change nothing that fork and join is about.            *)
LEMMA BodiesStay ==
  ASSUME PoolInv, NEW t \in Thread, NoTask(t)
  PROVE  /\ Bodies' = Bodies
         /\ UNCHANGED <<plan, queue, begun, ended, failed, num, error, verdict>>
<1>0. stack \in [Thread -> Seq(FrameType)]
  BY DEF PoolInv, TypeOK
<1>1. CASE RunLoop(t) /\ (~running \/ queue = << >>)
  <2> DEFINE f == [Last(stack[t]) EXCEPT !.at = "asleep"]
  <2>1. /\ stack[t] # << >> /\ Last(stack[t]) \in RunFrames
        /\ RunFrom(t, active - Weight(Last(stack[t]), Busy))
        /\ UNCHANGED <<plan, num, error, verdict, ended, failed>>
    BY <1>1, LoopFacts
  <2>2. f \in FrameType /\ f \notin BodyFrames /\ Last(stack[t]) \notin BodyFrames
    <3>1. f \in RunFrames
      BY <2>1 DEF RunFrames
    <3> HIDE DEF f
    <3> QED BY <2>1, <3>1, FrameKinds
  <2>3. /\ stack' = Replace(t, << >>) \/ stack' = Replace(t, <<f>>)
        /\ UNCHANGED <<queue, begun>>
    BY <1>1, <2>1 DEF RunFrom
  <2> HIDE DEF f
  <2>4. On(stack') = Bodies
    BY <2>1, <2>2, <2>3, NoBody
  <2> QED BY <2>1, <2>3, <2>4 DEF Bodies
<1>2. CASE Stop(t)
  <2> DEFINE f == [OwnerFrame EXCEPT !.at = "joining"]
             s == Replace(t, <<f>>)
  <2>1. stack[t] # << >> /\ Last(stack[t]).kind = "owner"
    BY <1>2 DEF Stop, Top
  <2>2. f \in FrameType /\ f \notin BodyFrames /\ Last(stack[t]) \notin BodyFrames
    <3>1. f \in OwnerFrames
      BY DEF OwnerFrame, OwnerFrames
    <3>2. Last(stack[t]) \notin BodyFrames
      BY <2>1 DEF BodyFrames
    <3> HIDE DEF f
    <3> QED BY <3>1, <3>2 DEF FrameType, OwnerFrames, BodyFrames
  <2>3. /\ stack' = Woken({u \in Thread : Asleep(u, s)}, s)
        /\ UNCHANGED <<plan, queue, begun, ended, failed, num, error, verdict>>
    BY <1>2 DEF Stop, NotifyAll, history, waiters
  <2> HIDE DEF f
  <2>4. On(s) = Bodies /\ s \in [Thread -> Seq(FrameType)]
    BY <2>1, <2>2, NoBody
  <2> HIDE DEF s
  <2>5. On(stack') = On(s)
    BY <2>3, <2>4, OnWoken
  <2> QED BY <2>3, <2>4, <2>5 DEF Bodies
<1>3. CASE Join(t)
  <2> DEFINE f == [OwnerFrame EXCEPT !.at = "creating"]
  <2>1. stack[t] # << >> /\ Last(stack[t]).kind = "owner"
    BY <1>3 DEF Join, Top
  <2>2. f \in FrameType /\ f \notin BodyFrames /\ Last(stack[t]) \notin BodyFrames
    <3>1. f \in OwnerFrames
      BY DEF OwnerFrame, OwnerFrames
    <3>2. Last(stack[t]) \notin BodyFrames
      BY <2>1 DEF BodyFrames
    <3> HIDE DEF f
    <3> QED BY <3>1, <3>2 DEF FrameType, OwnerFrames, BodyFrames
  <2>3. /\ stack' = Replace(t, << >>) \/ stack' = Replace(t, <<f>>)
        /\ UNCHANGED <<plan, queue, begun, ended, failed, num, error, verdict>>
    BY <1>3 DEF Join, history, waiters
  <2> HIDE DEF f
  <2>4. On(stack') = Bodies
    BY <2>1, <2>2, <2>3, NoBody
  <2> QED BY <2>3, <2>4 DEF Bodies
<1>4. CASE Create(t)
  <2>1. /\ stack[t] # << >> /\ Last(stack[t]).kind = "owner" /\ Last(stack[t]).at = "creating"
        /\ stack' = [w \in Thread |-> IF w \in Worker THEN Fresh(w)
                                      ELSE IF Top(w, "owner", "creating") THEN << >>
                                      ELSE stack[w]]
        /\ UNCHANGED <<plan, queue, begun, ended, failed, num, error, verdict>>
    BY <1>4 DEF Create, NewWorkers, Top, history, waiters
  <2>2. \A w \in Worker : stack[w] = << >>
    <3>1. Creates(stack[t])
      BY <2>1, OwnerFacts DEF Creates
    <3> QED BY <3>1 DEF PoolInv, StacksInv, Thread
  <2>3. ASSUME NEW u \in Thread, NEW i
        PROVE  i \in DOMAIN stack'[u] /\ stack'[u][i] \in BodyFrames
                 <=> i \in DOMAIN stack[u] /\ stack[u][i] \in BodyFrames
    <3>1. CASE u \in Worker
      <4>1. RunFrame(FALSE) \notin BodyFrames
        BY DEF RunFrame, BodyFrames
      <4>2. DOMAIN << >> = {} /\ \A f : DOMAIN <<f>> = {1} /\ <<f>>[1] = f
        OBVIOUS
      <4>3. stack[u] = << >> /\ (stack'[u] = << >> \/ stack'[u] = <<RunFrame(FALSE)>>)
        BY <2>1, <2>2, <3>1 DEF Fresh
      <4> QED BY <4>1, <4>2, <4>3
    <3>2. CASE u \notin Worker /\ Top(u, "owner", "creating")
      <4>1. \A j \in DOMAIN stack[u] : stack[u][j] \notin BodyFrames
        <5>1. \A f \in OwnerFrames : f \notin BodyFrames
          BY FrameKinds
        <5>2. stack[u] # << >> /\ Last(stack[u]).kind = "owner"
          BY <3>2 DEF Top
        <5> QED BY <5>1, <5>2, OwnerFacts
      <4>2. stack'[u] = << >> /\ DOMAIN << >> = {}
        BY <2>1, <3>2
      <4> QED BY <4>1, <4>2
    <3>3. CASE u \notin Worker /\ ~Top(u, "owner", "creating")
      BY <2>1, <3>3
    <3> QED BY <3>1, <3>2, <3>3
  <2>4. ASSUME NEW u \in Thread, NEW i, i \in DOMAIN stack[u], stack[u][i] \in BodyFrames
        PROVE stack'[u] = stack[u]
    <3>1. u \notin Worker
      <4>1. DOMAIN << >> = {}
        OBVIOUS
      <4> QED BY <2>2, <2>4, <4>1
    <3>2. ~Top(u, "owner", "creating")
      <4>1. \A f \in OwnerFrames : f \notin BodyFrames
        BY FrameKinds
      <4>2. stack[u] # << >> /\ Last(stack[u]).kind = "owner" => \A j \in DOMAIN stack[u] : stack[u][j] \notin BodyFrames
        BY <4>1, OwnerFacts
      <4> QED BY <2>4, <4>2 DEF Top
    <3> QED BY <2>1, <3>1, <3>2
  <2>5. On(stack') = On(stack)
    <3>1. On(stack) \subseteq On(stack')
      <4> SUFFICES ASSUME NEW x \in On(stack) PROVE x \in On(stack')
        OBVIOUS
      <4>1. /\ x[1] \in Thread /\ x[2] \in DOMAIN stack[x[1]] /\ x[3] = stack[x[1]][x[2]]
            /\ x[3] \in BodyFrames /\ x = <<x[1], x[2], x[3]>>
        BY OnIs
      <4>2. stack'[x[1]] = stack[x[1]]
        BY <2>4, <4>1
      <4> QED BY <4>1, <4>2, OnIs
    <3>2. On(stack') \subseteq On(stack)
      <4> SUFFICES ASSUME NEW x \in On(stack') PROVE x \in On(stack)
        OBVIOUS
      <4>1. /\ x[1] \in Thread /\ x[2] \in DOMAIN stack'[x[1]] /\ x[3] = stack'[x[1]][x[2]]
            /\ x[3] \in BodyFrames /\ x = <<x[1], x[2], x[3]>>
        BY OnIs
      <4>2. x[2] \in DOMAIN stack[x[1]] /\ stack[x[1]][x[2]] \in BodyFrames
        BY <2>3, <4>1
      <4>3. stack'[x[1]] = stack[x[1]]
        BY <2>4, <4>1, <4>2
      <4> QED BY <4>1, <4>2, <4>3, OnIs
    <3> QED BY <3>1, <3>2
  <2> QED BY <2>1, <2>5 DEF Bodies
<1>5. CASE SpuriousWake(t)
  <2> DEFINE S == {t}
  <2>1. /\ S \subseteq {u \in Thread : Asleep(u, stack)} /\ stack' = Woken(S, stack)
        /\ UNCHANGED <<plan, queue, begun, ended, failed, num, error, verdict>>
    BY <1>5 DEF SpuriousWake, history, waiters
  <2> HIDE DEF S
  <2> QED BY <1>0, <2>1, OnWoken DEF Bodies
<1> QED BY <1>1, <1>2, <1>3, <1>4, <1>5 DEF NoTask

(* BodyAt: a body that moves on is a body of its actor, run the same way.  *)
LEMMA BodyAt ==
  ASSUME NEW f \in BodyFrames, NEW at \in Places
  PROVE  /\ [f EXCEPT !.at = at] \in BodyFrames
         /\ [f EXCEPT !.at = at].actor = f.actor /\ [f EXCEPT !.at = at].via = f.via
         /\ [f EXCEPT !.at = at].at = at
         /\ [f EXCEPT !.at = at, !.thrown = TRUE] \in BodyFrames
         /\ [f EXCEPT !.at = at, !.thrown = TRUE].actor = f.actor
         /\ [f EXCEPT !.at = at, !.thrown = TRUE].via = f.via
         /\ [f EXCEPT !.at = at, !.thrown = TRUE].at = at
BY DEF BodyFrames, Places

(* NextBody: and so is one that goes on to its next task.                  *)
LEMMA NextBody ==
  ASSUME NEW f \in BodyFrames
  PROVE  /\ [f EXCEPT !.next = @ + 1] \in BodyFrames /\ f.next \in Nat
         /\ [f EXCEPT !.next = @ + 1].actor = f.actor /\ [f EXCEPT !.next = @ + 1].via = f.via
         /\ [f EXCEPT !.next = @ + 1].at = f.at /\ [f EXCEPT !.next = @ + 1].next = f.next + 1
BY DEF BodyFrames

(* MovesOn: the body of an actor that submits nothing in this step.        *)
MovesOn(t) ==
  SubmitFromLeaf(t) \/ CallWait(t) \/ WaitReturns(t) \/ DestroyWaiter(t) \/ WaiterDestroyed(t)

(* MovedOn: such a step keeps the invariant.                               *)
LEMMA MovedOn ==
  ASSUME PoolInv, LifeInv, NEW t \in Thread, MovesOn(t)
  PROVE  LifeInv'
<1> DEFINE l == Last(stack[t])
           n == Len(stack[t])
           x == <<t, n, l>>
<1>1. stack[t] # << >> /\ l.kind = "body"
  BY DEF MovesOn, SubmitFromLeaf, Submits, CallWait, WaitReturns, DestroyWaiter, WaiterDestroyed, Top
<1>2. l \in BodyFrames /\ l.actor \in Actor
  <2>1. l \in BodyFrames
    BY <1>1, TopFacts, FrameKinds
  <2> QED BY <2>1 DEF BodyFrames
<1>3. UNCHANGED <<plan, queue, begun, ended, failed, num, error>>
  BY DEF MovesOn, SubmitFromLeaf, CallWait, WaitReturns, DestroyWaiter, WaiterDestroyed, waiters, history
<1>4. /\ x \in Bodies
      /\ \A f \in BodyFrames :
           /\ On(Replace(t, <<f>>)) = (Bodies \ {x}) \cup {<<t, n, f>>}
           /\ On(Replace(t, <<f, RunFrame(TRUE)>>)) = On(Replace(t, <<f>>))
  BY <1>1, <1>2, TopBody
<1>5. \A f : <<t, n, f>>[3] = f
  OBVIOUS
<1>6. \E f \in BodyFrames :
        /\ stack' = Replace(t, <<f>>) \/ stack' = Replace(t, <<f, RunFrame(TRUE)>>)
        /\ f.actor = l.actor /\ f.via = l.via /\ f.at # "submitting"
        /\ f.at = "waiting" => l.at = "submitting"
        /\ f.at = "ending" => num[l.actor] = 0
        /\ \A a \in Actor : verdict'[a] # verdict[a] => a = l.actor /\ f.at = "leaving"
  <2> HIDE DEF l, n, x
  <2>1. \A at \in Places :
          /\ [l EXCEPT !.at = at] \in BodyFrames
          /\ [l EXCEPT !.at = at].actor = l.actor /\ [l EXCEPT !.at = at].via = l.via
          /\ [l EXCEPT !.at = at].at = at
          /\ [l EXCEPT !.at = at, !.thrown = TRUE] \in BodyFrames
          /\ [l EXCEPT !.at = at, !.thrown = TRUE].actor = l.actor
          /\ [l EXCEPT !.at = at, !.thrown = TRUE].via = l.via
          /\ [l EXCEPT !.at = at, !.thrown = TRUE].at = at
    BY <1>2, BodyAt
  <2>2. "leaving" \in Places /\ "waiting" \in Places /\ "destroying" \in Places /\ "ending" \in Places
    BY DEF Places
  <2>3. CASE SubmitFromLeaf(t)
    <3>1. stack' = Replace(t, <<[l EXCEPT !.at = "leaving", !.thrown = TRUE]>>) /\ verdict' = verdict
      BY <2>3 DEF SubmitFromLeaf, waiters, l
    <3> QED BY <2>1, <2>2, <3>1
  <2>4. CASE CallWait(t)
    <3>1. /\ stack' = Replace(t, <<[l EXCEPT !.at = "waiting"], RunFrame(TRUE)>>) /\ verdict' = verdict
          /\ l.at = "submitting"
      BY <2>4 DEF CallWait, Top, waiters, l
    <3> QED BY <2>1, <2>2, <3>1
  <2>5. CASE WaitReturns(t)
    <3>1. /\ stack' = Replace(t, <<[l EXCEPT !.at = "leaving"]>>)
          /\ verdict' = [verdict EXCEPT ![l.actor] = IF error[l.actor] THEN "false" ELSE "true"]
      BY <2>5 DEF WaitReturns, l
    <3>2. verdict \in [Actor -> {"none", "true", "false"}]
      BY DEF PoolInv, TypeOK
    <3>3. \A a \in Actor : verdict'[a] # verdict[a] => a = l.actor
      BY <1>2, <3>1, <3>2
    <3> DEFINE f == [l EXCEPT !.at = "leaving"]
    <3>4. f \in BodyFrames /\ f.actor = l.actor /\ f.via = l.via /\ f.at = "leaving"
      BY <2>1, <2>2
    <3>5. stack' = Replace(t, <<f>>)
      BY <3>1
    <3> HIDE DEF f
    <3> QED BY <3>3, <3>4, <3>5
  <2>6. CASE DestroyWaiter(t)
    <3>1. stack' = Replace(t, <<[l EXCEPT !.at = "destroying"], RunFrame(TRUE)>>) /\ verdict' = verdict
      BY <2>6 DEF DestroyWaiter, waiters, l
    <3> QED BY <2>1, <2>2, <3>1
  <2>7. CASE WaiterDestroyed(t)
    <3>1. /\ stack' = Replace(t, <<[l EXCEPT !.at = "ending"]>>) /\ verdict' = verdict
          /\ num[l.actor] = 0
      BY <2>7 DEF WaiterDestroyed, waiters, l
    <3> QED BY <2>1, <2>2, <3>1
  <2> QED BY <2>3, <2>4, <2>5, <2>6, <2>7 DEF MovesOn
<1>7. PICK f \in BodyFrames :
        /\ stack' = Replace(t, <<f>>) \/ stack' = Replace(t, <<f, RunFrame(TRUE)>>)
        /\ f.actor = l.actor /\ f.via = l.via /\ f.at # "submitting"
        /\ f.at = "waiting" => l.at = "submitting"
        /\ f.at = "ending" => num[l.actor] = 0
        /\ \A a \in Actor : verdict'[a] # verdict[a] => a = l.actor /\ f.at = "leaving"
  BY <1>6
<1> DEFINE y == <<t, n, f>>
<1>8. Bodies' = (Bodies \ {x}) \cup {y}
  BY <1>4, <1>7 DEF Bodies
<1>9. x[3] = l /\ y[3] = f
  BY <1>5
<1> HIDE DEF x, y, l
<1>10. /\ y[3].actor = x[3].actor /\ y[3].via = x[3].via /\ y[3].at # "submitting"
       /\ y[3].at = "waiting" => x[3].at = "submitting"
       /\ y[3].at = "ending" => num[x[3].actor] = 0
       /\ \A a \in Actor : verdict'[a] # verdict[a] => a = x[3].actor /\ y[3].at = "leaving"
  BY <1>7, <1>9
<1> QED BY <1>3, <1>4, <1>8, <1>10, Edited

(* NextIsNew: the task a body is about to submit was not handed in before. *)
LEMMA NextIsNew ==
  ASSUME PoolInv, LifeInv, NEW t \in Thread, Submits(t)
  PROVE  Submitted(t) \in Task /\ Submitted(t) \notin Handed
<1> DEFINE l == Last(stack[t])
           n == Len(stack[t])
           x == <<t, n, l>>
           c == Submitted(t)
<1>1. /\ stack[t] # << >> /\ l \in BodyFrames /\ l.at = "submitting" /\ l.actor \in Actor
      /\ l.next \in DOMAIN plan.submits[l.actor]
      /\ c = plan.submits[l.actor][l.next] /\ c \in Task
  BY SubmitFacts
<1>2. x \in Bodies /\ \A y \in Bodies : y[1] = t => y[2] <= n
  BY <1>1, TopBody
<1>3. x[1] = t /\ x[2] = n /\ x[3] = l
  OBVIOUS
<1>4. n \in Nat
  BY <1>1, TopFacts, LenProperties
<1>5. plan \in Plans
  BY DEF PoolInv, TypeOK
<1> HIDE DEF x, l, n, c
<1>6. ASSUME c \in Handed PROVE FALSE
  <2>1. l.next \in Nat
    <3>1. plan.submits[l.actor] \in Seq(Task)
      BY <1>1, <1>5, Once
    <3> QED BY <1>1, <3>1
  <2>2. RunsInline(Bodies, c)
    <3>1. \/ l.next < l.next
          \/ RunsInline(Bodies, plan.submits[l.actor][l.next])
      BY <1>1, <1>2, <1>3, <1>6 DEF LifeInv, InTurn
    <3> QED BY <1>1, <2>1, <3>1
  <2>3. PICK y \in Bodies : y[3].actor = c /\ y[3].via = "inline"
    BY <2>2 DEF RunsInline
  <2>4. PICK z \in Bodies : /\ z[1] = y[1] /\ z[2] = y[2] - 1
                            /\ z[3].next \in DOMAIN plan.submits[z[3].actor]
                            /\ plan.submits[z[3].actor][z[3].next] = y[3].actor
    BY <2>3, Below
  <2>5. z[3].actor \in Actor
    BY BodyFacts
  <2>6. z[3].actor = l.actor
    BY <1>1, <1>5, <2>3, <2>4, <2>5, Once
  <2>7. z = x
    BY <1>2, <1>3, <2>6 DEF LifeInv, OneBody
  <2>8. y[1] = t /\ y[2] - 1 = n /\ y[2] <= n
    BY <1>2, <1>3, <2>4, <2>7
  <2>9. y[2] \in Nat
    <3>1. y[1] \in Thread /\ y[2] \in DOMAIN stack[y[1]]
      BY OnIs DEF Bodies
    <3>2. stack[y[1]] \in Seq(FrameType)
      BY <3>1 DEF PoolInv, TypeOK
    <3> QED BY <3>1, <3>2
  <2> QED BY <1>4, <2>8, <2>9
<1> QED BY <1>1, <1>6 DEF c

(* Distinct: no task is twice in a queue. *)
Distinct(q) == \A i, j \in DOMAIN q : q[i] = q[j] => i = j

(* QueueMore: a queue with a new task in it, at either end.                *)
LEMMA QueueMore ==
  ASSUME NEW q \in Seq(Task), Distinct(q), NEW c \in Task, c \notin Range(q)
  PROVE  /\ Distinct(<<c>> \o q) /\ Range(<<c>> \o q) = Range(q) \cup {c}
         /\ Distinct(Append(q, c)) /\ Range(Append(q, c)) = Range(q) \cup {c}
<1>1. /\ DOMAIN q = 1 .. Len(q) /\ Len(q) \in Nat
      /\ \A i \in DOMAIN q : q[i] # c
  BY DEF Range
<1>2. Distinct(<<c>> \o q) /\ Range(<<c>> \o q) = Range(q) \cup {c}
  <2> DEFINE r == <<c>> \o q
  <2>1. <<c>> \in Seq(Task) /\ Len(<<c>>) = 1 /\ <<c>>[1] = c
    OBVIOUS
  <2>2. /\ DOMAIN r = 1 .. 1 + Len(q)
        /\ \A i \in 1 .. 1 + Len(q) : r[i] = IF i <= 1 THEN c ELSE q[i - 1]
    BY <2>1, ConcatProperties
  <2> HIDE DEF r
  <2>3. r[1] = c /\ 1 \in DOMAIN r
    BY <1>1, <2>2
  <2>4. ASSUME NEW i \in DOMAIN r, i # 1 PROVE i - 1 \in DOMAIN q /\ r[i] = q[i - 1]
    BY <1>1, <2>2, <2>4
  <2>5. ASSUME NEW i \in DOMAIN q PROVE i + 1 \in DOMAIN r /\ r[i + 1] = q[i]
    BY <1>1, <2>2
  <2>6. ASSUME NEW i \in DOMAIN r, NEW j \in DOMAIN r, r[i] = r[j] PROVE i = j
    <3>1. CASE i = 1
      BY <1>1, <2>3, <2>4, <2>6, <3>1
    <3>2. CASE j = 1
      BY <1>1, <2>3, <2>4, <2>6, <3>2
    <3>3. CASE i # 1 /\ j # 1
      <4>1. i - 1 = j - 1
        BY <2>4, <2>6, <3>3 DEF Distinct
      <4> QED BY <1>1, <2>2, <4>1
    <3> QED BY <3>1, <3>2, <3>3
  <2>7. Range(r) \subseteq Range(q) \cup {c}
    BY <2>3, <2>4 DEF Range
  <2>8. Range(q) \cup {c} \subseteq Range(r)
    BY <2>3, <2>5 DEF Range
  <2> QED BY <2>6, <2>7, <2>8 DEF Distinct, r
<1>3. Distinct(Append(q, c)) /\ Range(Append(q, c)) = Range(q) \cup {c}
  <2> DEFINE r == Append(q, c)
  <2>1. /\ DOMAIN r = (1 .. Len(q)) \cup {Len(q) + 1} /\ r[Len(q) + 1] = c
        /\ \A i \in 1 .. Len(q) : r[i] = q[i]
    BY AppendProperties
  <2> HIDE DEF r
  <2>2. \A i, j \in DOMAIN r : r[i] = r[j] => i = j
    BY <1>1, <2>1 DEF Distinct
  <2>3. Range(r) = Range(q) \cup {c}
    BY <1>1, <2>1 DEF Range
  <2> QED BY <2>2, <2>3 DEF Distinct, r
<1> QED BY <1>2, <1>3

(* QueueLess: a queue without its first task.                              *)
LEMMA QueueLess ==
  ASSUME NEW q \in Seq(Task), Distinct(q), q # << >>
  PROVE  /\ Distinct(Tail(q)) /\ Range(q) = Range(Tail(q)) \cup {Head(q)}
         /\ Head(q) \notin Range(Tail(q)) /\ Head(q) \in Task
<1> DEFINE r == Tail(q)
           h == Head(q)
<1>1. /\ Len(q) \in Nat \ {0} /\ DOMAIN q = 1 .. Len(q)
      /\ r \in Seq(Task) /\ Len(r) = Len(q) - 1 /\ h = q[1]
      /\ \A i \in 1 .. Len(r) : r[i] = q[i + 1]
  BY EmptySeq, HeadTailProperties
<1>2. DOMAIN r = 1 .. Len(q) - 1
  BY <1>1
<1> HIDE DEF r, h
<1>3. 1 \in DOMAIN q
  BY <1>1
<1>4. ASSUME NEW i \in DOMAIN r PROVE i + 1 \in DOMAIN q /\ r[i] = q[i + 1] /\ i + 1 # 1
  BY <1>1, <1>2
<1>5. ASSUME NEW i \in DOMAIN q, i # 1 PROVE i - 1 \in DOMAIN r /\ r[i - 1] = q[i]
  <2>1. i - 1 \in 1 .. Len(q) - 1 /\ (i - 1) + 1 = i
    BY <1>1, <1>5
  <2> QED BY <1>1, <1>2, <2>1
<1>6. Distinct(r)
  <2> SUFFICES ASSUME NEW i \in DOMAIN r, NEW j \in DOMAIN r, r[i] = r[j] PROVE i = j
    BY DEF Distinct
  <2>1. i + 1 = j + 1
    BY <1>4 DEF Distinct
  <2> QED BY <1>1, <1>2, <2>1
<1>7. h \notin Range(r)
  BY <1>1, <1>3, <1>4 DEF Distinct, Range
<1>8. Range(q) \subseteq Range(r) \cup {h}
  BY <1>1, <1>5 DEF Range
<1>9. Range(r) \cup {h} \subseteq Range(q)
  BY <1>1, <1>3, <1>4 DEF Range
<1>10. h \in Task
  BY <1>1, <1>3
<1> QED BY <1>6, <1>7, <1>8, <1>9, <1>10 DEF r, h

(* QueuedInTurn: a task is queued, and a worker may be woken for it.       *)
LEMMA QueuedInTurn ==
  ASSUME PoolInv, LifeInv, NEW t \in Thread, SubmitQueued(t)
  PROVE  LifeInv' /\ Range(queue') = Range(queue) \cup {Submitted(t)}
<1> DEFINE l == Last(stack[t])
           n == Len(stack[t])
           x == <<t, n, l>>
           c == Submitted(t)
           f == [l EXCEPT !.next = @ + 1]
           y == <<t, n, f>>
           s == Replace(t, <<f>>)
<1>1. /\ stack[t] # << >> /\ l \in BodyFrames /\ l.at = "submitting" /\ l.actor \in Actor
      /\ l.next \in DOMAIN plan.submits[l.actor] /\ c = plan.submits[l.actor][l.next]
  BY SubmitFacts DEF SubmitQueued
<1>2. c \in Task /\ c \notin Handed
  BY NextIsNew DEF SubmitQueued
<1>3. /\ x \in Bodies
      /\ \A g \in BodyFrames : On(Replace(t, <<g>>)) = (Bodies \ {x}) \cup {<<t, n, g>>}
  BY <1>1, TopBody
<1>4. /\ f \in BodyFrames /\ l.next \in Nat /\ f.actor = l.actor /\ f.via = l.via
      /\ f.at = l.at /\ f.next = l.next + 1
  <2> HIDE DEF l
  <2> QED BY <1>1, NextBody
<1>5. /\ queue' = Enqueued(c) /\ num' = Incremented(c, l.actor) /\ NotifyOne(s)
      /\ UNCHANGED <<plan, begun, ended, failed, error, verdict>>
  BY DEF SubmitQueued, history
<1>6. plan \in Plans /\ queue \in Seq(Task) /\ num \in [Actor -> Nat]
  BY DEF PoolInv, TypeOK
<1>7. x[3] = l /\ y[3] = f
  OBVIOUS
<1>8. s \in [Thread -> Seq(FrameType)]
  <2>1. KeepsCounts(t, Append(Front(stack[t]), f)) /\ s = [stack EXCEPT ![t] = Append(Front(stack[t]), f)]
    <3>1. Alike(f, l)
      BY <1>1, <1>4 DEF Alike
    <3> HIDE DEF f
    <3> QED BY <1>1, <1>4, <3>1, SwapTop
  <2>2. stack \in [Thread -> Seq(FrameType)]
    BY DEF PoolInv, TypeOK
  <2> QED BY <2>1, <2>2 DEF KeepsCounts, Shape
<1>9. Bodies' = (Bodies \ {x}) \cup {y}
  <2> HIDE DEF s
  <2>1. On(stack') = On(s)
    BY <1>5, <1>8, OneWoken, OnWoken DEF Wakes
  <2> QED BY <1>3, <1>4, <2>1 DEF Bodies, s
<1>10. Distinct(queue') /\ Range(queue') = Range(queue) \cup {c}
  <2>1. Distinct(queue) /\ c \notin Range(queue)
    BY <1>2 DEF LifeInv, QueuedOnce, Distinct, Handed
  <2>2. queue' = <<c>> \o queue \/ queue' = Append(queue, c)
    BY <1>5 DEF Enqueued
  <2> HIDE DEF c
  <2> QED BY <1>2, <1>6, <2>1, <2>2, QueueMore
<1>11. QueuedOnce'
  <2>1. \A i \in DOMAIN queue' : queue'[i] \notin begun
    <3>1. \A d \in Range(queue) : d \notin begun
      BY DEF LifeInv, QueuedOnce, Range
    <3>2. c \notin begun
      BY <1>2 DEF Handed
    <3>3. \A i \in DOMAIN queue' : queue'[i] \in Range(queue')
      BY DEF Range
    <3> QED BY <1>10, <3>1, <3>2, <3>3
  <2>2. begun' = begun
    BY <1>5
  <2> QED BY <1>10, <2>1, <2>2 DEF QueuedOnce, Distinct
<1>12. Handed' = Handed \cup {c}
  BY <1>5, <1>10 DEF Handed
<1>13. \A a \in Actor : num'[a] # num[a] => a = l.actor
  <2> HIDE DEF l, c
  <2> QED BY <1>1, <1>5, <1>6 DEF Incremented
<1> HIDE DEF x, y, l, f, c
<1>14. /\ y[3].actor = x[3].actor /\ y[3].via = x[3].via /\ x[3].at = "submitting" /\ y[3].at = "submitting"
       /\ x[3].next \in Nat /\ y[3].next = x[3].next + 1 /\ x[3].next \in DOMAIN plan.submits[x[3].actor]
       /\ Handed' = Handed \cup {plan.submits[x[3].actor][x[3].next]}
       /\ \A a \in Actor : num'[a] # num[a] => a = x[3].actor
  BY <1>1, <1>4, <1>7, <1>12, <1>13
<1>15. LifeInv'
  BY <1>3, <1>5, <1>6, <1>9, <1>11, <1>14, HandedOver
<1> QED BY <1>10, <1>15 DEF c

(* NothingCounted: the waiter of an actor that submits nothing is at zero. *)
LEMMA NothingCounted ==
  ASSUME PoolInv, NEW a \in Actor, plan.submits[a] = << >>
  PROVE  num[a] = 0
<1>1. CountedBy(plan, a) = {}
  BY DEF CountedBy, Range
<1>2. Executions(plan, a) = {}
  BY <1>1 DEF Executions
<1>3. In(queue, CountedBy(plan, a)) = {} /\ At(stack, Executions(plan, a)) = {}
  BY <1>1, <1>2 DEF In, At
<1>4. HowMany(queue, CountedBy(plan, a)) = 0 /\ Count(stack, Executions(plan, a)) = 0
  BY <1>3, FS_EmptySet DEF HowMany, Count
<1>5. num[a] = HowMany(queue, CountedBy(plan, a)) + Count(stack, Executions(plan, a))
  BY DEF PoolInv, CountsInv
<1> QED BY <1>4, <1>5

(* NewBody: how the body of a task begins.                                 *)
LEMMA NewBody ==
  ASSUME PoolInv, NEW c \in Task, NEW via \in {"run", "inline"}
  PROVE  /\ Body(c, via) \in BodyFrames /\ Body(c, via).actor = c /\ Body(c, via).via = via
         /\ Body(c, via).at \in {"submitting", "ending"}
         /\ Body(c, via).at = "ending" => num[c] = 0
<1>1. c \in Actor
  BY DEF Actor
<1>2. /\ Body(c, via) \in BodyFrames /\ Body(c, via).actor = c /\ Body(c, via).via = via
      /\ Body(c, via).at = IF plan.submits[c] = << >> THEN "ending" ELSE "submitting"
  BY <1>1, BodyNew
<1> QED BY <1>1, <1>2, NothingCounted

(* BegunInline: a task begins inside the submit of another actor.          *)
LEMMA BegunInline ==
  ASSUME PoolInv, LifeInv, NEW t \in Thread, SubmitInline(t)
  PROVE  LifeInv'
<1> DEFINE l == Last(stack[t])
           q == stack[t]
           n == Len(q)
           x == <<t, n, l>>
           c == Submitted(t)
           g == Body(c, "inline")
           y == <<t, n + 1, g>>
<1>1. /\ stack[t] # << >> /\ l \in BodyFrames /\ l.at = "submitting" /\ l.actor \in Actor
      /\ l.next \in DOMAIN plan.submits[l.actor] /\ c = plan.submits[l.actor][l.next]
  BY SubmitFacts DEF SubmitInline
<1>2. c \in Task /\ c \notin Handed
  BY NextIsNew DEF SubmitInline
<1>3. x \in Bodies
  BY <1>1, TopBody
<1>4. /\ g \in BodyFrames /\ g.actor = c /\ g.via = "inline"
      /\ g.at \in {"submitting", "ending"} /\ (g.at = "ending" => num[c] = 0)
  <2> HIDE DEF c
  <2> QED BY <1>2, NewBody
<1>5. /\ stack' = [stack EXCEPT ![t] = Append(q, g)] /\ begun' = begun \cup {c}
      /\ UNCHANGED <<plan, queue, ended, failed, num, error, verdict>>
  <2>1. stack' = [stack EXCEPT ![t] = Append(@, Body(Submitted(t), "inline"))]
    BY DEF SubmitInline
  <2>2. begun' = begun \cup {c} /\ UNCHANGED <<plan, queue, ended, failed, num, error, verdict>>
    BY DEF SubmitInline, waiters
  <2> QED BY <2>1, <2>2
<1>6. /\ plan \in Plans /\ stack \in [Thread -> Seq(FrameType)] /\ q \in Seq(FrameType)
      /\ ended \subseteq begun /\ failed \subseteq begun
  BY DEF PoolInv, TypeOK
<1>7. x[3] = l /\ y[3] = g
  OBVIOUS
<1>8. Bodies' = Bodies \cup {y}
  <2> HIDE DEF g
  <2>1. On(stack) = Others(stack, t) \cup Mine(t, stack[t])
    BY <1>6, OnStack
  <2>2. On([stack EXCEPT ![t] = Append(q, g)]) = Others(stack, t) \cup Mine(t, Append(q, g))
    BY <1>6, OnStack
  <2>3. g \in FrameType
    BY <1>4, FrameKinds
  <2>4. Mine(t, Append(q, g)) = Mine(t, q) \cup {<<t, n + 1, g>>}
    <3> HIDE DEF q
    <3>1. Mine(t, Append(q, g)) = Mine(t, q) \cup (IF g \in BodyFrames THEN {<<t, Len(q) + 1, g>>} ELSE {})
      BY <1>6, <2>3, MineAppend
    <3> QED BY <1>4, <3>1
  <2> QED BY <1>5, <2>1, <2>2, <2>4 DEF Bodies
<1>9. QueuedOnce'
  <2>1. queue' = queue
    BY <1>5
  <2>2. \A i \in DOMAIN queue : queue[i] # c
    BY <1>2 DEF Handed, Range
  <2> QED BY <1>5, <2>1, <2>2 DEF LifeInv, QueuedOnce
<1>10. Handed' = Handed \cup {c}
  BY <1>2, <1>5 DEF Handed
<1>11. c \notin begun
  BY <1>2 DEF Handed
<1> HIDE DEF x, y, l, g, c
<1>12. /\ y[3].actor \in Task /\ y[3].actor \notin begun
       /\ y[3].at \in {"submitting", "ending"} /\ (y[3].at = "ending" => num[y[3].actor] = 0)
       /\ begun' = begun \cup {y[3].actor} /\ Handed' = Handed \cup {y[3].actor}
       /\ y[3].via = "inline" /\ \E z \in Bodies :
              /\ z[3].at = "submitting" /\ z[3].next \in DOMAIN plan.submits[z[3].actor]
              /\ plan.submits[z[3].actor][z[3].next] = y[3].actor
  <2>1. /\ x[3].at = "submitting" /\ x[3].next \in DOMAIN plan.submits[x[3].actor]
        /\ plan.submits[x[3].actor][x[3].next] = y[3].actor
    BY <1>1, <1>4, <1>7
  <2> QED BY <1>2, <1>3, <1>4, <1>5, <1>7, <1>10, <1>11, <2>1
<1> QED BY <1>5, <1>6, <1>8, <1>9, <1>12, Starts

(* BegunInRun: run takes the first task of the queue and begins it.        *)
LEMMA BegunInRun ==
  ASSUME PoolInv, LifeInv, NEW t \in Thread, RunLoop(t), running, queue # << >>
  PROVE  /\ LifeInv'
         /\ Head(queue) \in Task \ begun /\ begun' = begun \cup {Head(queue)}
         /\ Range(queue) = Range(queue') \cup {Head(queue)}
<1> DEFINE l == Last(stack[t])
           p == Front(stack[t])
           c == Head(queue)
           f == [l EXCEPT !.at = "task"]
           g == Body(c, "run")
           n == Len(Append(p, f))
           y == <<t, n + 1, g>>
<1>1. /\ stack[t] # << >> /\ l \in RunFrames
      /\ RunFrom(t, active - Weight(l, Busy))
      /\ UNCHANGED <<plan, num, error, verdict, ended, failed>>
  BY LoopFacts
<1>2. /\ queue' = Tail(queue) /\ begun' = begun \cup {c} /\ stack' = Replace(t, <<f, g>>)
  BY <1>1 DEF RunFrom
<1>3. /\ plan \in Plans /\ stack \in [Thread -> Seq(FrameType)] /\ stack[t] \in Seq(FrameType)
      /\ ended \subseteq begun /\ failed \subseteq begun /\ queue \in Seq(Task)
  BY DEF PoolInv, TypeOK
<1>4. f \in FrameType /\ f \notin BodyFrames /\ l \notin BodyFrames
  <2>1. f \in RunFrames
    BY <1>1 DEF RunFrames
  <2> HIDE DEF f
  <2> QED BY <1>1, <2>1, FrameKinds
<1>5. Distinct(queue)
  BY DEF LifeInv, QueuedOnce, Distinct
<1>6. /\ Distinct(Tail(queue)) /\ Range(queue) = Range(Tail(queue)) \cup {c}
      /\ c \notin Range(Tail(queue)) /\ c \in Task
  BY <1>3, <1>5, QueueLess
<1>7. c \in Handed /\ \A d \in Range(queue) : d \notin begun
  BY <1>6 DEF LifeInv, QueuedOnce, Handed, Range
<1>8. /\ g \in BodyFrames /\ g.actor = c /\ g.via = "run"
      /\ g.at \in {"submitting", "ending"} /\ (g.at = "ending" => num[c] = 0)
  <2> HIDE DEF c
  <2> QED BY <1>6, NewBody
<1>9. y[3] = g
  OBVIOUS
<1>10. Bodies' = Bodies \cup {y}
  <2> HIDE DEF f, g
  <2>1. g \in FrameType
    BY <1>8, FrameKinds
  <2>2. p \in Seq(FrameType)
    BY <1>1, <1>3, FrontLast
  <2>3. On(Replace(t, <<f>>)) = Bodies /\ Replace(t, <<f>>) = [stack EXCEPT ![t] = Append(p, f)] /\ Append(p, f) \in Seq(FrameType)
    <3>1. On(Replace(t, <<f>>)) = Bodies
      BY <1>1, <1>4, NoBody
    <3>2. p \o <<f>> = Append(p, f) /\ Append(p, f) \in Seq(FrameType)
      <4> HIDE DEF p
      <4> QED BY <1>4, <2>2, AppendIsConcat
    <3> QED BY <3>1, <3>2 DEF Replace
  <2>4. stack' = [stack EXCEPT ![t] = Append(Append(p, f), g)]
    <3> HIDE DEF p
    <3>1. <<f>> \in Seq(FrameType) /\ <<g>> \in Seq(FrameType) /\ <<f, g>> = <<f>> \o <<g>>
      BY <1>4, <2>1, PairIsConcat
    <3>2. p \o (<<f>> \o <<g>>) = (p \o <<f>>) \o <<g>>
      BY <2>2, <3>1, ConcatAssociative
    <3>3. p \o <<f>> = Append(p, f)
      BY <1>4, <2>2, AppendIsConcat
    <3>4. Append(p, f) \o <<g>> = Append(Append(p, f), g)
      BY <2>1, <2>3, AppendIsConcat
    <3> QED BY <1>2, <3>1, <3>2, <3>3, <3>4 DEF Replace, p
  <2> DEFINE r == Append(p, f)
  <2>5. /\ On([stack EXCEPT ![t] = Append(r, g)]) = Others(stack, t) \cup Mine(t, Append(r, g))
        /\ On([stack EXCEPT ![t] = r]) = Others(stack, t) \cup Mine(t, r)
    BY <1>3, OnStack
  <2>6. r \in Seq(FrameType) /\ On([stack EXCEPT ![t] = r]) = Bodies /\ n = Len(r)
    BY <2>3
  <2> HIDE DEF r
  <2>7. Mine(t, Append(r, g)) = Mine(t, r) \cup (IF g \in BodyFrames THEN {<<t, Len(r) + 1, g>>} ELSE {})
    BY <2>1, <2>6, MineAppend
  <2>8. On(stack') = Bodies \cup {<<t, n + 1, g>>}
    <3>1. stack' = [stack EXCEPT ![t] = Append(r, g)]
      BY <2>4 DEF r
    <3> QED BY <1>8, <2>5, <2>6, <2>7, <3>1
  <2> QED BY <2>8 DEF Bodies
<1>11. QueuedOnce'
  <2>1. \A i \in DOMAIN queue' : queue'[i] \in Range(Tail(queue))
    BY <1>2 DEF Range
  <2>2. \A d \in Range(Tail(queue)) : d \notin begun /\ d # c
    BY <1>6, <1>7
  <2>3. \A i \in DOMAIN queue' : queue'[i] \notin begun'
    BY <1>2, <2>1, <2>2
  <2> QED BY <1>2, <1>6, <2>3 DEF QueuedOnce, Distinct
<1>12. Handed' = Handed \cup {c}
  BY <1>2, <1>6 DEF Handed
<1>13. c \notin begun
  BY <1>6, <1>7
<1> HIDE DEF y, g, c
<1>14. /\ y[3].actor \in Task /\ y[3].actor \notin begun
       /\ y[3].at \in {"submitting", "ending"} /\ (y[3].at = "ending" => num[y[3].actor] = 0)
       /\ begun' = begun \cup {y[3].actor} /\ Handed' = Handed \cup {y[3].actor}
       /\ y[3].actor \in Handed
  BY <1>2, <1>6, <1>7, <1>8, <1>9, <1>12, <1>13
<1>15. LifeInv'
  BY <1>1, <1>3, <1>10, <1>11, <1>14, Starts
<1> QED BY <1>2, <1>6, <1>13, <1>15 DEF c

(* ReturnBodies: a body ends and what is below it goes on.                 *)
LEMMA ReturnBodies ==
  ASSUME PoolInv, NEW t \in Thread, stack[t] # << >>, Front(stack[t]) # << >>,
         Last(stack[t]) \in BodyFrames
  PROVE  /\ Beneath(t) \notin BodyFrames => \A g \in FrameType : g \notin BodyFrames =>
              On(ReturnTo(t, g)) = Bodies \ {<<t, Len(stack[t]), Last(stack[t])>>}
         /\ Beneath(t) \in BodyFrames =>
              /\ <<t, Len(Front(stack[t])), Beneath(t)>> \in Bodies
              /\ <<t, Len(Front(stack[t])), Beneath(t)>> # <<t, Len(stack[t]), Last(stack[t])>>
              /\ \A g \in BodyFrames : On(ReturnTo(t, g)) =
                   (Bodies \ {<<t, Len(stack[t]), Last(stack[t])>>, <<t, Len(Front(stack[t])), Beneath(t)>>})
                     \cup {<<t, Len(Front(stack[t])), g>>}
<1> DEFINE q == stack[t]
           r == Front(q)
           m == Len(r)
           b == Beneath(t)
           x == <<t, Len(q), Last(q)>>
           s == [stack EXCEPT ![t] = r]
           R == Rest(s, t)
<1>1. stack \in [Thread -> Seq(FrameType)] /\ q \in Seq(FrameType) /\ r \in Seq(FrameType) /\ Last(r) = b
  BY TopFacts
<1>2. x \in Bodies /\ On(s) = Bodies \ {x}
  BY TopBody
<1>3. s \in [Thread -> Seq(FrameType)] /\ s[t] = r /\ r # << >>
  BY <1>1
<1>4. \A g : [s EXCEPT ![t] = g] = [stack EXCEPT ![t] = g]
  BY <1>1
<1>5. \A g : ReturnTo(t, g) = [stack EXCEPT ![t] = Append(Front(r), g)]
  BY DEF ReturnTo
<1>6. Len(q) # m
  <2>1. Len(q) \in Nat \ {0} /\ m = Len(q) - 1
    <3> HIDE DEF q
    <3>1. q \in Seq(FrameType) /\ q # << >>
      BY <1>1 DEF q
    <3> QED BY <3>1, FrontLast
  <2> HIDE DEF q, m
  <2> QED BY <2>1
<1> HIDE DEF s
<1>7. /\ On(s) = R \cup Here(t, m, b) /\ \A g : <<t, m, g>> \notin R
      /\ \A g \in FrameType : On([s EXCEPT ![t] = Append(Front(r), g)]) = R \cup Here(t, m, g)
  <2> HIDE DEF r
  <2>1. s[t] # << >>
    BY <1>3
  <2>2. /\ On(s) = Rest(s, t) \cup Here(t, Len(s[t]), Last(s[t]))
        /\ \A g : <<t, Len(s[t]), g>> \notin Rest(s, t)
        /\ \A f \in FrameType :
              On([s EXCEPT ![t] = Append(Front(s[t]), f)]) = Rest(s, t) \cup Here(t, Len(s[t]), f)
    BY <1>3, <2>1, OnTop
  <2> QED BY <1>1, <1>3, <2>2
<1>8. \A g \in FrameType : On(ReturnTo(t, g)) = R \cup Here(t, m, g)
  BY <1>4, <1>5, <1>7
<1> HIDE DEF R, m, r, b
<1>9. ASSUME b \notin BodyFrames, NEW g \in FrameType, g \notin BodyFrames
      PROVE  On(ReturnTo(t, g)) = Bodies \ {x}
  BY <1>2, <1>7, <1>8, <1>9 DEF Here
<1>10. ASSUME b \in BodyFrames
       PROVE  /\ <<t, m, b>> \in Bodies /\ <<t, m, b>> # x
              /\ \A g \in BodyFrames : On(ReturnTo(t, g)) = (Bodies \ {x, <<t, m, b>>}) \cup {<<t, m, g>>}
  <2>1. Bodies \ {x} = R \cup {<<t, m, b>>} /\ <<t, m, b>> \notin R
    BY <1>2, <1>7, <1>10 DEF Here
  <2>2. <<t, m, b>> # x
    BY <1>6
  <2>3. ASSUME NEW g \in BodyFrames PROVE On(ReturnTo(t, g)) = R \cup {<<t, m, g>>}
    <3>1. g \in FrameType
      BY FrameKinds
    <3> QED BY <1>8, <3>1 DEF Here
  <2>4. R = Bodies \ {x, <<t, m, b>>}
    BY <2>1
  <2> QED BY <2>1, <2>2, <2>3, <2>4
<1> QED BY <1>9, <1>10 DEF q, r, m, b, x

(* EndedInline: a task ends that ran inside submit.                        *)
LEMMA EndedInline ==
  ASSUME PoolInv, LifeInv, NEW t \in Thread, InlineEnds(t)
  PROVE  LifeInv'
<1> DEFINE l == Last(stack[t])
           b == Beneath(t)
           m == Len(Front(stack[t]))
           g == IF Throws(t) THEN [b EXCEPT !.at = "leaving", !.thrown = TRUE] ELSE [b EXCEPT !.next = @ + 1]
           x == <<t, Len(stack[t]), l>>
           z == <<t, m, b>>
           y == <<t, m, g>>
<1>1. /\ stack[t] # << >> /\ l \in BodyFrames /\ l.via = "inline" /\ l \notin RunFrames
      /\ Front(stack[t]) # << >> /\ Above(plan, b, l)
  BY EndFacts DEF InlineEnds
<1>2. /\ b \in BodyFrames /\ b.at = "submitting" /\ b.next \in DOMAIN plan.submits[b.actor]
      /\ l.actor = plan.submits[b.actor][b.next]
  BY <1>1 DEF Above
<1>3. /\ stack' = ReturnTo(t, g)
      /\ UNCHANGED <<plan, queue, num, error, verdict>>
      /\ begun' = begun /\ ended' = ended \cup {l.actor}
      /\ failed' = IF Throws(t) THEN failed \cup {l.actor} ELSE failed
  BY DEF InlineEnds, Ends, waiters
<1>4. x \in Bodies
  BY <1>1, TopBody
<1>5. z \in Bodies /\ z # x /\ \A h \in BodyFrames : On(ReturnTo(t, h)) = (Bodies \ {x, z}) \cup {<<t, m, h>>}
  BY <1>1, <1>2, ReturnBodies
<1>6. /\ g \in BodyFrames /\ g.actor = b.actor /\ g.via = b.via /\ b.next \in Nat
      /\ \/ g.at = "leaving"
         \/ g.at = "submitting" /\ g.next = b.next + 1 /\ ~Throws(t)
  <2> HIDE DEF b
  <2>1. "leaving" \in Places
    BY DEF Places
  <2>2. CASE Throws(t)
    <3> DEFINE h == [b EXCEPT !.at = "leaving", !.thrown = TRUE]
    <3>1. h \in BodyFrames /\ h.actor = b.actor /\ h.via = b.via /\ h.at = "leaving" /\ b.next \in Nat
      BY <1>2, <2>1, BodyAt, NextBody
    <3>2. g = h
      BY <2>2
    <3> HIDE DEF g, h
    <3> QED BY <3>1, <3>2
  <2>3. CASE ~Throws(t)
    <3> DEFINE h == [b EXCEPT !.next = @ + 1]
    <3>1. h \in BodyFrames /\ h.actor = b.actor /\ h.via = b.via /\ h.at = b.at /\ h.next = b.next + 1 /\ b.next \in Nat
      BY <1>2, NextBody
    <3>2. g = h
      BY <2>3
    <3> HIDE DEF g, h
    <3> QED BY <1>2, <2>3, <3>1, <3>2
  <2> QED BY <2>2, <2>3
<1>7. x[3] = l /\ y[3] = g /\ z[3] = b
  OBVIOUS
<1>8. plan \in Plans
  BY DEF PoolInv, TypeOK
<1> HIDE DEF g
<1>9. Bodies' = (Bodies \ {x, z}) \cup {y}
  BY <1>3, <1>5, <1>6 DEF Bodies
<1> HIDE DEF x, y, z, l, b
<1>10. /\ z[3].at = "submitting" /\ z[3].next \in Nat /\ z[3].next \in DOMAIN plan.submits[z[3].actor]
       /\ plan.submits[z[3].actor][z[3].next] = x[3].actor
       /\ y[3].actor = z[3].actor /\ y[3].via = z[3].via
       /\ begun' = begun /\ ended' = ended \cup {x[3].actor}
       /\ failed' = failed \/ failed' = failed \cup {x[3].actor}
       /\ \/ y[3].at = "leaving"
          \/ y[3].at = "submitting" /\ y[3].next = z[3].next + 1 /\ failed' = failed
  BY <1>2, <1>3, <1>6, <1>7
<1> QED BY <1>3, <1>4, <1>5, <1>8, <1>9, <1>10, LeavesInline

(* EndedInRun: a task ends that run executed; its waiter is told of a      *)
(* failure before it counts the task off.                                  *)
LEMMA EndedInRun ==
  ASSUME PoolInv, LifeInv, NEW t \in Thread, TaskEnds(t)
  PROVE  LifeInv'
<1> DEFINE l == Last(stack[t])
           c == l.actor
           b == Beneath(t)
           g == [b EXCEPT !.at = "after"]
           x == <<t, Len(stack[t]), l>>
<1>1. /\ stack[t] # << >> /\ l \in BodyFrames /\ l.via = "run" /\ c \in Actor /\ l \notin RunFrames
      /\ Front(stack[t]) # << >> /\ Above(plan, b, l) /\ IsSubmitted(plan, c)
  BY EndFacts DEF TaskEnds
<1>2. b \in RunFrames
  BY <1>1 DEF Above
<1>3. /\ stack' = ReturnTo(t, g)
      /\ UNCHANGED <<plan, queue, verdict>>
      /\ begun' = begun /\ ended' = ended \cup {c}
      /\ failed' = IF Throws(t) THEN failed \cup {c} ELSE failed
      /\ c \in plan.unwaited => num' = num /\ error' = error
      /\ c \notin plan.unwaited => /\ num' = [num EXCEPT ![Submitter(c)] = @ - 1]
                                   /\ error' = [error EXCEPT ![Submitter(c)] = @ \/ Throws(t)]
  BY DEF TaskEnds, Ends, Noted
<1>4. g \in FrameType /\ g \notin BodyFrames /\ b \notin BodyFrames
  <2>1. g \in RunFrames
    BY <1>2 DEF RunFrames
  <2> HIDE DEF g, b
  <2> QED BY <1>2, <2>1, FrameKinds
<1>5. x \in Bodies
  BY <1>1, TopBody
<1>6. Bodies' = Bodies \ {x}
  <2> HIDE DEF g
  <2> QED BY <1>1, <1>3, <1>4, ReturnBodies DEF Bodies
<1>7. TypeOK /\ TypeOK'
  BY CountedOff DEF PoolInv
<1>8. /\ plan \in Plans /\ num \in [Actor -> Nat] /\ num' \in [Actor -> Nat]
      /\ error \in [Actor -> BOOLEAN] /\ error' \in [Actor -> BOOLEAN] /\ failed \subseteq ended
  BY <1>7 DEF TypeOK
<1>9. x[3] = l
  OBVIOUS
<1>10. c \notin failed
  BY <1>5, <1>8, <1>9 DEF LifeInv, Alive
<1> HIDE DEF g, b, x, l, c
<1>11. /\ Submitter(c) \in Actor
       /\ \A a \in Actor : c \in CountedBy(plan, a) <=> a = Submitter(c) /\ c \notin plan.unwaited
  <2>1. \E a \in Actor : \E i \in DOMAIN plan.submits[a] : plan.submits[a][i] = c
    BY <1>1 DEF IsSubmitted
  <2>2. Submitter(c) \in Actor /\ \E i \in DOMAIN plan.submits[Submitter(c)] : plan.submits[Submitter(c)][i] = c
    BY <2>1 DEF Submitter
  <2>3. PICK i \in DOMAIN plan.submits[Submitter(c)] : plan.submits[Submitter(c)][i] = c
    BY <2>2
  <2> QED BY <1>8, <2>2, <2>3, OnlySubmitter
<1>12. ASSUME NEW a \in Actor, num[a] = 0 PROVE num'[a] = 0
  <2>1. num'[a] = num[a] \/ num'[a] = num[a] - 1
    BY <1>3, <1>8, <1>11
  <2>2. num'[a] \in Nat
    BY <1>8
  <2> QED BY <1>12, <2>1, <2>2
<1>13. ASSUME NEW a \in Actor
       PROVE  /\ error[a] => error'[a]
              /\ error'[a] => error[a] \/ (c \in CountedBy(plan, a) /\ c \in failed')
              /\ c \in CountedBy(plan, a) /\ c \in failed' => error'[a]
  <2>1. c \in failed' <=> Throws(t)
    BY <1>3, <1>10
  <2>2. CASE c \in plan.unwaited
    BY <1>3, <1>11, <2>2
  <2>3. CASE c \notin plan.unwaited /\ a # Submitter(c)
    <3>1. error'[a] = error[a]
      BY <1>3, <1>8, <2>3
    <3> QED BY <1>11, <2>3, <3>1
  <2>4. CASE c \notin plan.unwaited /\ a = Submitter(c)
    <3>1. error'[a] = (error[a] \/ Throws(t))
      BY <1>3, <1>8, <1>11, <2>4
    <3>2. c \in CountedBy(plan, a)
      BY <1>11, <2>4
    <3> QED BY <2>1, <3>1, <3>2
  <2> QED BY <2>2, <2>3, <2>4
<1>14. /\ x[3].via # "inline" /\ ended' = ended \cup {x[3].actor}
       /\ failed' = failed \/ failed' = failed \cup {x[3].actor}
       /\ \A a \in Actor : error'[a] => error[a] \/ (x[3].actor \in CountedBy(plan, a) /\ x[3].actor \in failed')
       /\ \A a \in Actor : x[3].actor \in CountedBy(plan, a) /\ x[3].actor \in failed' => error'[a]
  BY <1>1, <1>3, <1>9, <1>13 DEF c
<1> QED BY <1>3, <1>5, <1>6, <1>12, <1>13, <1>14, Leaves

(* EndedMain: the body of a caller ends, which no waiter counts.           *)
LEMMA EndedMain ==
  ASSUME PoolInv, LifeInv, NEW t \in Thread, CallerEnds(t)
  PROVE  LifeInv'
<1> DEFINE l == Last(stack[t])
           x == <<t, Len(stack[t]), l>>
<1>1. /\ stack[t] # << >> /\ l \in BodyFrames /\ l.via = "main" /\ l.actor = t /\ t \in External
      /\ Front(stack[t]) = << >>
  BY EndFacts DEF CallerEnds
<1>2. /\ stack' = Replace(t, << >>) \/ stack' = Replace(t, <<OwnerFrame>>)
      /\ UNCHANGED <<plan, queue, num, error, verdict>>
      /\ begun' = begun /\ ended' = ended \cup {l.actor}
      /\ failed' = failed \/ failed' = failed \cup {l.actor}
  BY DEF CallerEnds, Ends, waiters
<1>3. x \in Bodies /\ On([stack EXCEPT ![t] = Front(stack[t])]) = Bodies \ {x}
  BY <1>1, TopBody
<1>4. stack \in [Thread -> Seq(FrameType)] /\ plan \in Plans
  BY DEF PoolInv, TypeOK
<1>5. Bodies' = Bodies \ {x}
  <2> DEFINE o == OwnerFrame
  <2>1. o \in FrameType /\ o \notin BodyFrames
    BY FrameKinds DEF OwnerFrame, OwnerFrames
  <2> HIDE DEF o
  <2>2. << >> \in Seq(FrameType) /\ Append(<< >>, o) = <<o>> /\ << >> \o << >> = << >> /\ << >> \o <<o>> = <<o>>
    <3>1. << >> \in Seq(FrameType)
      OBVIOUS
    <3> QED BY <2>1, <3>1
  <2>3. Replace(t, << >>) = [stack EXCEPT ![t] = << >>] /\ Replace(t, <<o>>) = [stack EXCEPT ![t] = Append(<< >>, o)]
    BY <1>1, <2>2 DEF Replace
  <2>4. On([stack EXCEPT ![t] = Append(<< >>, o)]) = On([stack EXCEPT ![t] = << >>])
    <3>1. On([stack EXCEPT ![t] = << >>]) = Others(stack, t) \cup Mine(t, << >>)
      BY <1>4, OnStack
    <3>2. On([stack EXCEPT ![t] = Append(<< >>, o)]) = Others(stack, t) \cup Mine(t, Append(<< >>, o))
      BY <1>4, OnStack
    <3>3. Mine(t, Append(<< >>, o)) = Mine(t, << >>)
      <4>1. Mine(t, Append(<< >>, o)) = Mine(t, << >>) \cup (IF o \in BodyFrames THEN {<<t, Len(<< >>) + 1, o>>} ELSE {})
        BY <2>1, <2>2, MineAppend
      <4> QED BY <2>1, <4>1
    <3> QED BY <3>1, <3>2, <3>3
  <2> QED BY <1>1, <1>2, <1>3, <2>3, <2>4 DEF Bodies, o
<1>6. x[3] = l
  OBVIOUS
<1>7. \A a \in Actor : l.actor \notin CountedBy(plan, a)
  <2>1. l.actor \notin Task
    BY <1>1, TasksAssumption
  <2> QED BY <1>4, <2>1, Once
<1> HIDE DEF x, l
<1>8. /\ x[3].via # "inline" /\ ended' = ended \cup {x[3].actor}
      /\ failed' = failed \/ failed' = failed \cup {x[3].actor}
      /\ \A a \in Actor : error'[a] => error[a] \/ (x[3].actor \in CountedBy(plan, a) /\ x[3].actor \in failed')
      /\ \A a \in Actor : x[3].actor \in CountedBy(plan, a) /\ x[3].actor \in failed' => error'[a]
      /\ \A a \in Actor : num[a] = 0 => num'[a] = 0
      /\ \A a \in Actor : error[a] => error'[a]
  BY <1>1, <1>2, <1>6, <1>7
<1> QED BY <1>2, <1>3, <1>5, <1>8, Leaves

(* InitLife: at first the callers have their bodies, and nobody else has   *)
(* one.                                                                    *)
LEMMA InitLife == Init => LifeInv
<1> SUFFICES ASSUME Init PROVE LifeInv
  OBVIOUS
<1>1. /\ plan \in Plans /\ stack = [t \in Thread |-> IF t \in External THEN <<Body(t, "main")>> ELSE Fresh(t)]
      /\ queue = << >> /\ num = [a \in Actor |-> 0] /\ error = [a \in Actor |-> FALSE]
      /\ verdict = [a \in Actor |-> "none"] /\ begun = External /\ ended = {} /\ failed = {}
  BY DEF Init
<1>2. ASSUME NEW e \in External
      PROVE  /\ Body(e, "main") \in BodyFrames /\ Body(e, "main").actor = e
             /\ Body(e, "main").next = 1
  BY BodyNew DEF Actor
<1>3. Bodies = {<<e, 1, Body(e, "main")>> : e \in External}
  <2>1. \A f : DOMAIN <<f>> = {1} /\ <<f>>[1] = f
    OBVIOUS
  <2>2. DOMAIN << >> = {}
    OBVIOUS
  <2>3. RunFrame(FALSE) \notin BodyFrames
    BY DEF RunFrame, BodyFrames
  <2>4. ASSUME NEW t \in Thread
        PROVE  /\ t \in External => stack[t] = <<Body(t, "main")>>
               /\ t \notin External => stack[t] = <<RunFrame(FALSE)>> \/ stack[t] = << >>
    BY <1>1 DEF Fresh
  <2>5. ASSUME NEW x \in Bodies PROVE \E e \in External : x = <<e, 1, Body(e, "main")>>
    <3>1. /\ x[1] \in Thread /\ x[2] \in DOMAIN stack[x[1]] /\ x[3] = stack[x[1]][x[2]]
          /\ x[3] \in BodyFrames /\ x = <<x[1], x[2], x[3]>>
      BY OnIs DEF Bodies
    <3>2. x[1] \in External
      <4> DEFINE r == RunFrame(FALSE)
                 q == stack[x[1]]
      <4>1. DOMAIN <<r>> = {1} /\ <<r>>[1] = r /\ r \notin BodyFrames
        BY <2>1, <2>3
      <4>2. x[1] \notin External => q = <<r>> \/ q = << >>
        BY <2>4, <3>1
      <4>3. x[2] \in DOMAIN q /\ q[x[2]] \in BodyFrames
        BY <3>1
      <4> HIDE DEF r, q
      <4>4. ASSUME q = <<r>> PROVE FALSE
        <5>1. x[2] = 1
          BY <4>1, <4>3, <4>4
        <5> QED BY <4>1, <4>3, <4>4, <5>1
      <4> QED BY <2>2, <4>2, <4>3, <4>4
    <3>3. x[2] = 1 /\ x[3] = Body(x[1], "main")
      <4> DEFINE r == Body(x[1], "main")
                 q == stack[x[1]]
      <4>1. DOMAIN <<r>> = {1} /\ <<r>>[1] = r /\ q = <<r>>
        BY <2>1, <2>4, <3>1, <3>2
      <4>2. x[2] \in DOMAIN q /\ x[3] = q[x[2]]
        BY <3>1
      <4> HIDE DEF r, q
      <4>3. x[2] = 1
        BY <4>1, <4>2
      <4>4. x[3] = r
        BY <4>1, <4>2, <4>3
      <4> QED BY <4>3, <4>4 DEF r
    <3> QED BY <3>1, <3>2, <3>3
  <2>6. ASSUME NEW e \in External PROVE <<e, 1, Body(e, "main")>> \in Bodies
    <3>1. e \in Thread
      BY DEF Thread
    <3>2. 1 \in DOMAIN stack[e] /\ stack[e][1] = Body(e, "main")
      BY <2>1, <2>4, <3>1
    <3> QED BY <1>2, <3>1, <3>2, OnIs DEF Bodies
  <2> QED BY <2>5, <2>6
<1>4. ASSUME NEW x \in Bodies
      PROVE  x[3].actor \in External /\ x = <<x[3].actor, 1, Body(x[3].actor, "main")>>
             /\ x[3] = Body(x[3].actor, "main") /\ x[3].next = 1
  <2>1. PICK e \in External : x = <<e, 1, Body(e, "main")>>
    BY <1>3
  <2>2. x[3] = Body(e, "main")
    BY <2>1
  <2> QED BY <1>2, <2>1, <2>2
<1>5. OneBody
  BY <1>4 DEF OneBody
<1>6. Alive
  <2>1. ASSUME NEW e \in External PROVE \E x \in Bodies : x[3].actor = e
    <3>1. <<e, 1, Body(e, "main")>> \in Bodies
      BY <1>3
    <3>2. <<e, 1, Body(e, "main")>>[3].actor = e
      BY <1>2
    <3> QED BY <3>1, <3>2
  <2> QED BY <1>1, <1>4, <2>1 DEF Alive
<1>7. Handed = {}
  <2>1. Range(queue) = {}
    BY <1>1 DEF Range
  <2> QED BY <1>1, <2>1, TasksAssumption DEF Handed
<1>8. InTurn
  BY <1>7 DEF InTurn
<1>9. QueuedOnce
  BY <1>1 DEF QueuedOnce
<1>10. Told
  <2>1. \A x \in Bodies : x[3].actor \in Actor
    BY BodyFacts
  <2> QED BY <1>1, <2>1 DEF Told
<1> QED BY <1>5, <1>6, <1>8, <1>9, <1>10 DEF LifeInv

(* StepLife: every step keeps the invariant.                               *)
LEMMA StepLife == PoolInv /\ LifeInv /\ [Next]_vars => LifeInv'
<1> SUFFICES ASSUME PoolInv, LifeInv, [Next]_vars PROVE LifeInv'
  OBVIOUS
<1>1. ASSUME NEW t \in Thread, NoTask(t) PROVE LifeInv'
  BY <1>1, BodiesStay, Unmoved
<1>2. ASSUME NEW t \in Thread, Step(t) PROVE LifeInv'
  <2>1. CASE MovesOn(t)
    BY <2>1, MovedOn
  <2>2. CASE SubmitInline(t)
    BY <2>2, BegunInline
  <2>3. CASE SubmitQueued(t)
    BY <2>3, QueuedInTurn
  <2>4. CASE InlineEnds(t)
    BY <2>4, EndedInline
  <2>5. CASE TaskEnds(t)
    BY <2>5, EndedInRun
  <2>6. CASE CallerEnds(t)
    BY <2>6, EndedMain
  <2>7. CASE RunLoop(t) /\ running /\ queue # << >>
    BY <2>7, BegunInRun
  <2>8. CASE NoTask(t)
    BY <1>1, <2>8
  <2>9. running \in BOOLEAN
    BY DEF PoolInv, TypeOK
  <2> QED BY <1>2, <2>1, <2>2, <2>3, <2>4, <2>5, <2>6, <2>7, <2>8, <2>9 DEF Step, MovesOn, NoTask
<1>3. ASSUME NEW t \in Thread, SpuriousWake(t) PROVE LifeInv'
  BY <1>1, <1>3 DEF NoTask
<1>4. ASSUME UNCHANGED vars PROVE LifeInv'
  <2>1. UNCHANGED <<plan, queue, begun, ended, failed, num, error, verdict, stack>>
    BY <1>4 DEF vars
  <2>2. Bodies' = Bodies
    BY <2>1 DEF Bodies
  <2> QED BY <2>1, <2>2, Unmoved
<1> QED BY <1>2, <1>3, <1>4 DEF Next, Quiet

-----------------------------------------------------------------------------
(* Stages: how far an actor has got, by what it has behind it.             *)
LEMMA Stages ==
  /\ ended \subseteq begun /\ failed \subseteq ended => \A a :
       /\ Progress(a) = "failed" <=> a \in failed
       /\ Progress(a) = "finished" <=> a \in ended \ failed
       /\ Progress(a) = "busy" <=> a \in begun \ ended
       /\ Progress(a) = "given" <=> a \in Range(queue) \ begun
       /\ Progress(a) = "idle" <=> a \notin Range(queue) \cup begun
       /\ Progress(a) \in {"idle", "given", "busy", "finished", "failed"}
  /\ ended' \subseteq begun' /\ failed' \subseteq ended' => \A a :
       /\ Progress(a)' = "failed" <=> a \in failed'
       /\ Progress(a)' = "finished" <=> a \in ended' \ failed'
       /\ Progress(a)' = "busy" <=> a \in begun' \ ended'
       /\ Progress(a)' = "given" <=> a \in Range(queue') \ begun'
       /\ Progress(a)' = "idle" <=> a \notin Range(queue') \cup begun'
       /\ Progress(a)' \in {"idle", "given", "busy", "finished", "failed"}
<1>1. ASSUME ended \subseteq begun, failed \subseteq ended, NEW a
      PROVE  /\ Progress(a) = "failed" <=> a \in failed
             /\ Progress(a) = "finished" <=> a \in ended \ failed
             /\ Progress(a) = "busy" <=> a \in begun \ ended
             /\ Progress(a) = "given" <=> a \in Range(queue) \ begun
             /\ Progress(a) = "idle" <=> a \notin Range(queue) \cup begun
             /\ Progress(a) \in {"idle", "given", "busy", "finished", "failed"}
  BY <1>1 DEF Progress
<1>2. ASSUME ended' \subseteq begun', failed' \subseteq ended', NEW a
      PROVE  /\ Progress(a)' = "failed" <=> a \in failed'
             /\ Progress(a)' = "finished" <=> a \in ended' \ failed'
             /\ Progress(a)' = "busy" <=> a \in begun' \ ended'
             /\ Progress(a)' = "given" <=> a \in Range(queue') \ begun'
             /\ Progress(a)' = "idle" <=> a \notin Range(queue') \cup begun'
             /\ Progress(a)' \in {"idle", "given", "busy", "finished", "failed"}
  BY <1>2 DEF Progress
<1> QED BY <1>1, <1>2

(* NothingLeft: when the waiter of a body that has submitted its tasks     *)
(* counts nothing, each of them is over, or was never handed in.           *)
LEMMA NothingLeft ==
  ASSUME PoolInv, LifeInv, NEW x \in Bodies, x[3].at # "submitting", num[x[3].actor] = 0,
         NEW c \in Counted(x[3].actor)
  PROVE  c \notin Range(queue) /\ c \notin begun \ ended
<1> DEFINE a == x[3].actor
           E == Executions(plan, a)
<1>1. a \in Actor
  BY BodyFacts
<1>2. /\ plan \in Plans /\ queue \in Seq(Task) /\ stack \in [Thread -> Seq(FrameType)]
      /\ num \in [Actor -> Nat]
  BY DEF PoolInv, TypeOK
<1>3. c \in CountedBy(plan, a)
  BY DEF Counted, CountedBy
<1>4. PICK k \in DOMAIN plan.submits[a] : plan.submits[a][k] = c
  BY <1>2, <1>3, Once
<1>5. c \in Task
  BY <1>1, <1>2, <1>4, Once
<1>6. /\ IsFiniteSet(At(stack, E))
      /\ num[a] = HowMany(queue, CountedBy(plan, a)) + Count(stack, E)
  BY <1>1 DEF PoolInv, CountsInv
<1>7. HowMany(queue, CountedBy(plan, a)) \in Nat /\ Count(stack, E) \in Nat
  <2>1. x[1] \in Thread /\ << >> \in Seq(FrameType)
    <3>1. << >> \in Seq(FrameType)
      OBVIOUS
    <3> QED BY <3>1, OnIs DEF Bodies
  <2>2. Count(stack, E) \in Nat
    <3> HIDE DEF E
    <3> QED BY <1>2, <1>6, <2>1, CountOneThread
  <2> QED BY <1>2, <2>2, CountType
<1>8. HowMany(queue, CountedBy(plan, a)) = 0 /\ Count(stack, E) = 0
  <2> HIDE DEF E
  <2> DEFINE h == HowMany(queue, CountedBy(plan, a))
             k2 == Count(stack, E)
  <2>1. h \in Nat /\ k2 \in Nat /\ 0 = h + k2
    BY <1>6, <1>7
  <2> HIDE DEF h, k2
  <2>2. h = 0 /\ k2 = 0
    BY <2>1
  <2> QED BY <2>2 DEF h, k2
<1>9. c \notin Range(queue)
  <2> SUFFICES ASSUME c \in Range(queue) PROVE FALSE
    OBVIOUS
  <2>1. PICK i \in DOMAIN queue : queue[i] = c
    BY DEF Range
  <2>2. HowMany(queue, CountedBy(plan, a)) > 0
    BY <1>2, <1>3, <2>1, CountOne
  <2> QED BY <1>8, <2>2
<1>10. c \notin begun \ ended
  <2> SUFFICES ASSUME c \in begun \ ended PROVE FALSE
    OBVIOUS
  <2>1. PICK w \in Bodies : w[3].actor = c
    BY DEF LifeInv, Alive
  <2>2. w[3].via = "run" \/ w[3].via = "inline"
    <3>1. c \notin External
      BY <1>5, TasksAssumption
    <3> QED BY <2>1, <3>1, Below
  <2>3. CASE w[3].via = "run"
    <3>1. w[1] \in Thread /\ w[2] \in DOMAIN stack[w[1]] /\ w[3] = stack[w[1]][w[2]] /\ w[3] \in BodyFrames
      BY OnIs DEF Bodies
    <3>2. w[3] \in E
      BY <1>3, <2>1, <2>3, <3>1 DEF Executions
    <3>3. stack[w[1]] \in Seq(FrameType)
      BY <1>2, <3>1
    <3> HIDE DEF E
    <3>4. HowMany(stack[w[1]], E) > 0
      <4> DEFINE q == stack[w[1]]
                 i == w[2]
      <4>1. q \in Seq(FrameType) /\ i \in DOMAIN q /\ q[i] \in E
        BY <3>1, <3>2, <3>3
      <4> HIDE DEF q, i
      <4>2. HowMany(q, E) > 0
        BY <4>1, CountOne
      <4> QED BY <4>2 DEF q
    <3>5. HowMany(stack[w[1]], E) <= Count(stack, E) /\ HowMany(stack[w[1]], E) \in Nat
      <4>1. << >> \in Seq(FrameType)
        OBVIOUS
      <4> DEFINE u == w[1]
      <4>2. u \in Thread
        BY <3>1
      <4> HIDE DEF u
      <4>3. HowMany(stack[u], E) <= Count(stack, E) /\ HowMany(stack[u], E) \in Nat
        BY <1>2, <1>6, <4>1, <4>2, CountOneThread DEF E
      <4> QED BY <4>3 DEF u
    <3> QED BY <1>8, <3>4, <3>5
  <2>4. CASE w[3].via = "inline"
    <3>1. PICK z \in Bodies : /\ z[3].at = "submitting"
                              /\ z[3].next \in DOMAIN plan.submits[z[3].actor]
                              /\ plan.submits[z[3].actor][z[3].next] = c
      BY <2>1, <2>4, Below
    <3>2. z[3].actor \in Actor
      BY BodyFacts
    <3>3. z[3].actor = a
      <4>1. IsTurn(a, k, c) /\ IsTurn(z[3].actor, z[3].next, c)
        BY <1>4, <3>1 DEF IsTurn
      <4> HIDE DEF a
      <4> QED BY <1>1, <1>2, <3>2, <4>1, OneTurn
    <3>4. z = x
      BY <3>3 DEF LifeInv, OneBody
    <3> QED BY <3>1, <3>4
  <2> QED BY <2>2, <2>3, <2>4
<1> QED BY <1>9, <1>10

-----------------------------------------------------------------------------
(* What fork and join sees of the pool: who waits for what, and how far    *)
(* everyone has got.                                                       *)
Waits == [a \in Actor |-> Counted(a)]
State == [a \in Actor |-> Progress(a)]

(* StateIs: who is at which stage, before and after a step.                *)
LEMMA StateIs ==
  ASSUME PoolInv, PoolInv', LifeInv
  PROVE  /\ \A a \in Actor :
              /\ State'[a] = "busy" <=> a \in begun' \ ended'
              /\ State'[a] = "given" <=> a \in Range(queue') \ begun'
              /\ State'[a] \in {"finished", "failed"} <=> a \in ended'
         /\ \A a \in Actor :
              /\ State[a] = "failed" <=> a \in failed
              /\ State[a] = "busy" <=> a \in begun \ ended
              /\ State[a] = "given" <=> a \in Range(queue)
              /\ State[a] = "idle" <=> a \notin Range(queue) \cup begun
              /\ State[a] \in {"finished", "failed"} <=> a \in ended
         /\ State \in [Actor -> {"idle", "given", "busy", "finished", "failed"}]
         /\ State' \in [Actor -> {"idle", "given", "busy", "finished", "failed"}]
         /\ DOMAIN Waits = Actor /\ \A a \in Actor : Waits[a] = Counted(a)
<1>1. /\ ended \subseteq begun /\ failed \subseteq ended
      /\ ended' \subseteq begun' /\ failed' \subseteq ended'
  BY DEF PoolInv, TypeOK
<1>2. \A a \in Range(queue) : a \notin begun
  BY DEF LifeInv, QueuedOnce, Range
<1>3. \A a : /\ Progress(a) = "failed" <=> a \in failed
             /\ Progress(a) = "finished" <=> a \in ended \ failed
             /\ Progress(a) = "busy" <=> a \in begun \ ended
             /\ Progress(a) = "given" <=> a \in Range(queue) \ begun
             /\ Progress(a) = "idle" <=> a \notin Range(queue) \cup begun
             /\ Progress(a) \in {"idle", "given", "busy", "finished", "failed"}
             /\ Progress(a)' = "failed" <=> a \in failed'
             /\ Progress(a)' = "finished" <=> a \in ended' \ failed'
             /\ Progress(a)' = "busy" <=> a \in begun' \ ended'
             /\ Progress(a)' = "given" <=> a \in Range(queue') \ begun'
             /\ Progress(a)' \in {"idle", "given", "busy", "finished", "failed"}
  BY <1>1, Stages
<1>4. \A a \in Actor : State[a] = Progress(a) /\ State'[a] = Progress(a)'
  BY DEF State
<1>5. /\ State \in [Actor -> {"idle", "given", "busy", "finished", "failed"}]
      /\ State' \in [Actor -> {"idle", "given", "busy", "finished", "failed"}]
  BY <1>3 DEF State
<1>6. DOMAIN Waits = Actor /\ \A a \in Actor : Waits[a] = Counted(a)
  BY DEF Waits
<1>7. \A a \in Actor :
              /\ State[a] = "failed" <=> a \in failed
              /\ State[a] = "busy" <=> a \in begun \ ended
              /\ State[a] = "given" <=> a \in Range(queue)
              /\ State[a] = "idle" <=> a \notin Range(queue) \cup begun
              /\ State[a] \in {"finished", "failed"} <=> a \in ended
  BY <1>1, <1>2, <1>3, <1>4
<1>8. \A a \in Actor :
              /\ State'[a] = "busy" <=> a \in begun' \ ended'
              /\ State'[a] = "given" <=> a \in Range(queue') \ begun'
              /\ State'[a] \in {"finished", "failed"} <=> a \in ended'
  BY <1>1, <1>3, <1>4
<1> QED BY <1>5, <1>6, <1>7, <1>8

(* Stutters: a step that hands in, begins and ends nothing.                *)
LEMMA Stutters ==
  ASSUME UNCHANGED <<plan, queue, begun, ended, failed>>
  PROVE  State' = State /\ Waits' = Waits
<1>1. \A a : Progress(a)' = Progress(a)
  BY DEF Progress
<1>2. \A a : Counted(a)' = Counted(a)
  BY DEF Counted
<1> QED BY <1>1, <1>2 DEF State, Waits

(* Advances: a step in which one actor advances.                           *)
LEMMA Advances ==
  ASSUME PoolInv, PoolInv', NEW c \in Actor, plan' = plan,
         \A a \in Actor : a # c => /\ a \in Range(queue') <=> a \in Range(queue)
                                   /\ a \in begun' <=> a \in begun
                                   /\ a \in ended' <=> a \in ended
                                   /\ a \in failed' <=> a \in failed
  PROVE  State' = [State EXCEPT ![c] = State'[c]] /\ Waits' = Waits
<1>1. \A a : Counted(a)' = Counted(a)
  BY DEF Counted
<1>2. ASSUME NEW a \in Actor, a # c PROVE Progress(a)' = Progress(a)
  BY <1>2 DEF Progress
<1>3. State' = [State EXCEPT ![c] = State'[c]]
  <2>1. \A a \in Actor : a # c => State'[a] = State[a]
    BY <1>2 DEF State
  <2>2. State' = [a \in Actor |-> State'[a]] /\ State = [a \in Actor |-> State[a]]
    BY DEF State
  <2> QED BY <2>1, <2>2
<1> QED BY <1>1, <1>3 DEF Waits

(* SeenAs: the pool's steps in terms of what fork and join sees.           *)
LEMMA SeenAs ==
  /\ Promise!vars = <<Waits, State, verdict>>
  /\ Promise!Actor = Actor
  /\ \A c : Promise!Give(c) <=>
       /\ State[c] = "idle"
       /\ \E a \in Actor : State[a] = "busy"
       /\ State' = [State EXCEPT ![c] = "given"]
       /\ UNCHANGED <<Waits, verdict>>
  /\ \A c : Promise!Begin(c) <=>
       /\ State[c] = "given" \/ (State[c] = "idle" /\ \E a \in Actor : State[a] = "busy")
       /\ State' = [State EXCEPT ![c] = "busy"]
       /\ UNCHANGED <<Waits, verdict>>
  /\ \A a : Promise!Joined(a) <=> \A j \in Waits[a] : State[j] = "idle" \/ State[j] \in {"finished", "failed"}
  /\ \A a : Promise!Answer(a) <=>
       /\ State[a] = "busy"
       /\ verdict[a] = "none"
       /\ Promise!Joined(a)
       /\ verdict' = [verdict EXCEPT ![a] = IF \E j \in Waits[a] : State[j] = "failed" THEN "false" ELSE "true"]
       /\ UNCHANGED <<Waits, State>>
  /\ \A a : Promise!Finish(a) <=>
       /\ State[a] = "busy"
       /\ Promise!Joined(a)
       /\ \E outcome \in {"finished", "failed"} : State' = [State EXCEPT ![a] = outcome]
       /\ UNCHANGED <<Waits, verdict>>
<1>1. Promise!vars = <<Waits, State, verdict>>
  BY DEF Promise!vars, Waits, State
<1>2. Promise!Actor = Actor
  BY DEF Promise!Actor, Actor
<1>3. ASSUME NEW c
      PROVE  Promise!Give(c) <=>
               /\ State[c] = "idle"
               /\ \E a \in Actor : State[a] = "busy"
               /\ State' = [State EXCEPT ![c] = "given"]
               /\ UNCHANGED <<Waits, verdict>>
  BY <1>2 DEF Promise!Give, Waits, State
<1>4. ASSUME NEW c
      PROVE  Promise!Begin(c) <=>
               /\ State[c] = "given" \/ (State[c] = "idle" /\ \E a \in Actor : State[a] = "busy")
               /\ State' = [State EXCEPT ![c] = "busy"]
               /\ UNCHANGED <<Waits, verdict>>
  BY <1>2 DEF Promise!Begin, Waits, State
<1>5. ASSUME NEW a
      PROVE  Promise!Joined(a) <=> \A j \in Waits[a] : State[j] = "idle" \/ State[j] \in {"finished", "failed"}
  BY DEF Promise!Joined, Promise!Over, Waits, State
<1>6. ASSUME NEW a
      PROVE  Promise!Answer(a) <=>
               /\ State[a] = "busy"
               /\ verdict[a] = "none"
               /\ Promise!Joined(a)
               /\ verdict' = [verdict EXCEPT ![a] = IF \E j \in Waits[a] : State[j] = "failed" THEN "false" ELSE "true"]
               /\ UNCHANGED <<Waits, State>>
  BY DEF Promise!Answer, Waits, State
<1>7. ASSUME NEW a
      PROVE  Promise!Finish(a) <=>
               /\ State[a] = "busy"
               /\ Promise!Joined(a)
               /\ \E outcome \in {"finished", "failed"} : State' = [State EXCEPT ![a] = outcome]
               /\ UNCHANGED <<Waits, verdict>>
  BY DEF Promise!Finish, Waits, State
<1> QED BY <1>1, <1>2, <1>3, <1>4, <1>5, <1>6, <1>7

(* IsJoined: what a body waited for is over when its waiter is at zero.    *)
LEMMA IsJoined ==
  ASSUME PoolInv, PoolInv', LifeInv, NEW x \in Bodies,
         x[3].at # "submitting", num[x[3].actor] = 0
  PROVE  Promise!Joined(x[3].actor) /\ State[x[3].actor] = "busy" /\ x[3].actor \in Actor
<1> DEFINE a == x[3].actor
<1>1. a \in Actor /\ a \in begun /\ a \notin ended
  BY BodyFacts DEF LifeInv, Alive
<1>2. State[a] = "busy"
  BY <1>1, StateIs
<1>3. ASSUME NEW j \in Waits[a] PROVE State[j] = "idle" \/ State[j] \in {"finished", "failed"}
  <2>1. j \in Counted(a)
    BY <1>1, StateIs
  <2>2. j \notin Range(queue) /\ j \notin begun \ ended
    BY <2>1, NothingLeft
  <2>3. j \in Actor
    <3>1. j \in CountedBy(plan, a) /\ plan \in Plans
      BY <2>1 DEF Counted, CountedBy, PoolInv, TypeOK
    <3> QED BY <1>1, <3>1, Once DEF Actor
  <2> QED BY <2>2, <2>3, StateIs
<1> QED BY <1>1, <1>2, <1>3, SeenAs

(* Given: queueing a task gives it.                                        *)
LEMMA Given ==
  ASSUME PoolInv, PoolInv', LifeInv, NEW t \in Thread, SubmitQueued(t)
  PROVE  \E c \in Task : Promise!Give(c)
<1> DEFINE c == Submitted(t)
           l == Last(stack[t])
<1>1. /\ stack[t] # << >> /\ l \in BodyFrames /\ l.actor \in Actor /\ l.at = "submitting"
  BY SubmitFacts DEF SubmitQueued
<1>2. c \in Task /\ c \notin Handed
  BY NextIsNew DEF SubmitQueued
<1>3. Range(queue') = Range(queue) \cup {c}
  BY QueuedInTurn
<1>4. UNCHANGED <<plan, begun, ended, failed, verdict>>
  BY DEF SubmitQueued, history
<1>5. c \in Actor /\ c \notin Range(queue) /\ c \notin begun
  BY <1>2 DEF Handed, Actor
<1> HIDE DEF c
<1>6. State'[c] = "given"
  BY <1>3, <1>4, <1>5, StateIs
<1>7. State' = [State EXCEPT ![c] = State'[c]] /\ Waits' = Waits
  BY <1>3, <1>4, <1>5, Advances
<1>8. State[c] = "idle"
  BY <1>5, StateIs
<1>9. \E a \in Actor : State[a] = "busy"
  <2>1. l.actor \in begun /\ l.actor \notin ended
    <3>1. <<t, Len(stack[t]), l>> \in Bodies
      BY <1>1, TopBody
    <3>2. <<t, Len(stack[t]), l>>[3] = l
      OBVIOUS
    <3> QED BY <3>1, <3>2 DEF LifeInv, Alive
  <2> QED BY <1>1, <2>1, StateIs
<1> QED BY <1>2, <1>4, <1>6, <1>7, <1>8, <1>9, SeenAs

(* BegunAtOnce: running a task inside submit begins it at once.            *)
LEMMA BegunAtOnce ==
  ASSUME PoolInv, PoolInv', LifeInv, NEW t \in Thread, SubmitInline(t)
  PROVE  \E c \in Task : Promise!Begin(c)
<1> DEFINE c == Submitted(t)
           l == Last(stack[t])
<1>1. /\ stack[t] # << >> /\ l \in BodyFrames /\ l.actor \in Actor /\ l.at = "submitting"
  BY SubmitFacts DEF SubmitInline
<1>2. c \in Task /\ c \notin Handed
  BY NextIsNew DEF SubmitInline
<1>3. UNCHANGED <<plan, queue, ended, failed, verdict>> /\ begun' = begun \cup {c}
  BY DEF SubmitInline, waiters
<1>4. c \in Actor /\ c \notin Range(queue) /\ c \notin begun
  BY <1>2 DEF Handed, Actor
<1> HIDE DEF c
<1>5. State'[c] = "busy"
  BY <1>3, <1>4, StateIs
<1>6. State' = [State EXCEPT ![c] = State'[c]] /\ Waits' = Waits
  BY <1>3, <1>4, Advances
<1>7. State[c] = "idle"
  BY <1>4, StateIs
<1>8. \E a \in Actor : State[a] = "busy"
  <2>1. l.actor \in begun /\ l.actor \notin ended
    <3>1. <<t, Len(stack[t]), l>> \in Bodies
      BY <1>1, TopBody
    <3>2. <<t, Len(stack[t]), l>>[3] = l
      OBVIOUS
    <3> QED BY <3>1, <3>2 DEF LifeInv, Alive
  <2> QED BY <1>1, <2>1, StateIs
<1> QED BY <1>2, <1>3, <1>5, <1>6, <1>7, <1>8, SeenAs

(* BegunLater: taking a task from the queue begins what was given.         *)
LEMMA BegunLater ==
  ASSUME PoolInv, PoolInv', LifeInv, NEW t \in Thread, RunLoop(t), running, queue # << >>
  PROVE  \E c \in Task : Promise!Begin(c)
<1> DEFINE c == Head(queue)
<1>1. c \in Task /\ c \notin begun /\ begun' = begun \cup {c} /\ Range(queue) = Range(queue') \cup {c}
  BY BegunInRun
<1>2. UNCHANGED <<plan, ended, failed, verdict>>
  BY LoopFacts
<1>3. c \in Actor
  BY <1>1 DEF Actor
<1> HIDE DEF c
<1>4. State'[c] = "busy"
  BY <1>1, <1>2, <1>3, StateIs
<1>5. State' = [State EXCEPT ![c] = State'[c]] /\ Waits' = Waits
  BY <1>1, <1>2, <1>3, Advances
<1>6. State[c] = "given"
  BY <1>1, <1>3, StateIs
<1> QED BY <1>1, <1>2, <1>4, <1>5, <1>6, SeenAs

(* Finished: an actor's end is one for which it has joined what it awaits. *)
LEMMA Finished ==
  ASSUME PoolInv, PoolInv', LifeInv, NEW t \in Thread, InlineEnds(t) \/ TaskEnds(t) \/ CallerEnds(t)
  PROVE  \E a \in Actor : Promise!Finish(a)
<1> DEFINE l == Last(stack[t])
           a == l.actor
           x == <<t, Len(stack[t]), l>>
<1>1. \E via : Ends(t, via)
  BY DEF InlineEnds, TaskEnds, CallerEnds
<1>2. /\ stack[t] # << >> /\ l \in BodyFrames /\ l.at = "ending" /\ a \in Actor
      /\ begun' = begun /\ ended' = ended \cup {a}
      /\ failed' = failed \/ failed' = failed \cup {a}
  BY <1>1, EndFacts DEF Ends
<1>3. UNCHANGED <<plan, queue, verdict>>
  BY DEF InlineEnds, TaskEnds, CallerEnds, waiters
<1>4. x \in Bodies /\ x[3] = l
  BY <1>2, TopBody
<1>5. num[a] = 0
  BY <1>2, <1>4 DEF LifeInv, Told
<1>6. Promise!Joined(a) /\ State[a] = "busy"
  BY <1>2, <1>4, <1>5, IsJoined
<1> HIDE DEF a
<1>7. State'[a] \in {"finished", "failed"}
  <2>1. a \in ended'
    BY <1>2
  <2> QED BY <1>2, <2>1, StateIs
<1>8. State' = [State EXCEPT ![a] = State'[a]] /\ Waits' = Waits
  BY <1>2, <1>3, Advances
<1> QED BY <1>2, <1>3, <1>6, <1>7, <1>8, SeenAs

(* Answered: wait answers when all is over, and "false" exactly if one of  *)
(* the tasks failed.                                                       *)
LEMMA Answered ==
  ASSUME PoolInv, PoolInv', LifeInv, NEW t \in Thread, WaitReturns(t)
  PROVE  \E a \in Actor : Promise!Answer(a)
<1> DEFINE l == Last(stack[t])
           a == l.actor
           x == <<t, Len(stack[t]), l>>
<1>1. /\ stack[t] # << >> /\ l.kind = "body" /\ l.at = "waiting" /\ num[a] = 0
      /\ verdict' = [verdict EXCEPT ![a] = IF error[a] THEN "false" ELSE "true"]
      /\ UNCHANGED <<plan, queue, begun, ended, failed>>
  BY DEF WaitReturns, Top, history
<1>2. l \in BodyFrames
  BY <1>1, TopFacts, FrameKinds
<1>3. x \in Bodies /\ x[3] = l
  BY <1>1, <1>2, TopBody
<1>4. Promise!Joined(a) /\ State[a] = "busy" /\ a \in Actor
  BY <1>1, <1>3, IsJoined
<1>5. /\ verdict[a] = "none"
      /\ \A c \in CountedBy(plan, a) : c \in failed => error[a]
      /\ error[a] => \E c \in CountedBy(plan, a) : c \in failed
  BY <1>1, <1>3, <1>4 DEF LifeInv, Told
<1>6. State' = State /\ Waits' = Waits
  BY <1>1, Stutters
<1> HIDE DEF a
<1>7. error[a] <=> \E j \in Waits[a] : State[j] = "failed"
  <2>1. Waits[a] = CountedBy(plan, a)
    BY <1>4, StateIs DEF Counted, CountedBy
  <2>2. \A j \in Waits[a] : j \in Actor
    <3>1. plan \in Plans
      BY DEF PoolInv, TypeOK
    <3> QED BY <1>4, <2>1, <3>1, Once DEF Actor
  <2>3. \A j \in Waits[a] : State[j] = "failed" <=> j \in failed
    BY <2>2, StateIs
  <2> QED BY <1>5, <2>1, <2>3
<1>8. (IF error[a] THEN "false" ELSE "true") = IF \E j \in Waits[a] : State[j] = "failed" THEN "false" ELSE "true"
  BY <1>7
<1>9. verdict' = [verdict EXCEPT ![a] = IF \E j \in Waits[a] : State[j] = "failed" THEN "false" ELSE "true"]
  BY <1>1, <1>8
<1> QED BY <1>4, <1>5, <1>6, <1>9, SeenAs

-----------------------------------------------------------------------------
(* InitJoins: at first the callers are busy and the tasks are idle.        *)
LEMMA InitJoins == Init => Promise!Init
<1> SUFFICES ASSUME Init PROVE Promise!Init
  OBVIOUS
<1>1. /\ plan \in Plans /\ queue = << >> /\ begun = External /\ ended = {} /\ failed = {}
      /\ verdict = [a \in Actor |-> "none"]
  BY DEF Init
<1>2. \A a : Progress(a) = IF a \in External THEN "busy" ELSE "idle"
  <2>1. Range(queue) = {}
    BY <1>1 DEF Range
  <2> QED BY <1>1, <2>1 DEF Progress
<1>3. State = [a \in Actor |-> IF a \in External THEN "busy" ELSE "idle"]
  BY <1>2 DEF State
<1>4. Waits \in [Actor -> SUBSET Task]
  <2>1. ASSUME NEW a \in Actor PROVE Counted(a) \subseteq Task
    <3>1. Counted(a) = CountedBy(plan, a)
      BY DEF Counted, CountedBy
    <3> QED BY <1>1, <3>1, Once
  <2> QED BY <2>1 DEF Waits
<1> QED BY <1>1, <1>3, <1>4, SeenAs DEF Promise!Init, State, Waits

(* StepJoins: every step of the pool is a step of fork and join, or one    *)
(* that it does not see.                                                   *)
LEMMA StepJoins ==
  PoolInv /\ PoolInv' /\ LifeInv /\ [Next]_vars => [Promise!Next]_(Promise!vars)
<1> SUFFICES ASSUME PoolInv, PoolInv', LifeInv, [Next]_vars PROVE [Promise!Next]_(Promise!vars)
  OBVIOUS
<1>1. ASSUME UNCHANGED <<plan, queue, begun, ended, failed>>, verdict' = verdict
      PROVE  [Promise!Next]_(Promise!vars)
  <2>1. State' = State /\ Waits' = Waits
    BY <1>1, Stutters
  <2>2. Promise!vars = <<Waits, State, verdict>>
    BY DEF Promise!vars, Waits, State
  <2>3. Promise!vars' = <<Waits, State, verdict>>'
    BY DEF Promise!vars, Waits, State
  <2> QED BY <1>1, <2>1, <2>2, <2>3
<1>2. ASSUME NEW t \in Thread, NoTask(t) PROVE [Promise!Next]_(Promise!vars)
  BY <1>1, <1>2, BodiesStay
<1>3. ASSUME NEW t \in Thread, Step(t) PROVE [Promise!Next]_(Promise!vars)
  <2>1. CASE SubmitFromLeaf(t) \/ CallWait(t) \/ DestroyWaiter(t) \/ WaiterDestroyed(t)
    <3>1. UNCHANGED <<plan, queue, begun, ended, failed>> /\ verdict' = verdict
      BY <2>1 DEF SubmitFromLeaf, CallWait, DestroyWaiter, WaiterDestroyed, waiters, history
    <3> QED BY <1>1, <3>1
  <2>2. CASE WaitReturns(t)
    BY <2>2, Answered, SeenAs DEF Promise!Next
  <2>3. CASE SubmitInline(t)
    BY <2>3, BegunAtOnce DEF Promise!Next
  <2>4. CASE SubmitQueued(t)
    BY <2>4, Given DEF Promise!Next
  <2>5. CASE InlineEnds(t) \/ TaskEnds(t) \/ CallerEnds(t)
    BY <2>5, Finished, SeenAs DEF Promise!Next
  <2>6. CASE RunLoop(t) /\ running /\ queue # << >>
    BY <2>6, BegunLater DEF Promise!Next
  <2>7. CASE NoTask(t)
    BY <1>2, <2>7
  <2>8. running \in BOOLEAN
    BY DEF PoolInv, TypeOK
  <2> QED BY <1>3, <2>1, <2>2, <2>3, <2>4, <2>5, <2>6, <2>7, <2>8 DEF Step, NoTask
<1>4. ASSUME NEW t \in Thread, SpuriousWake(t) PROVE [Promise!Next]_(Promise!vars)
  BY <1>2, <1>4 DEF NoTask
<1>5. ASSUME UNCHANGED vars PROVE [Promise!Next]_(Promise!vars)
  BY <1>1, <1>5 DEF vars
<1> QED BY <1>3, <1>4, <1>5 DEF Next, Quiet

(* LivesInvariant: in every state of every behaviour each task is in one   *)
(* place, from its submit to its end.                                      *)
THEOREM LivesInvariant == Spec => [](PoolInv /\ LifeInv)
<1>1. Init => LifeInv
  BY InitLife
<1>2. PoolInv /\ LifeInv /\ [Next]_vars => LifeInv'
  BY StepLife
<1> QED BY <1>1, <1>2, PoolInvariant, PTL DEF Spec

(* JoinsSafely: whatever the callers do and however their steps and the    *)
(* workers' interleave, wait answers an actor only when every task that it *)
(* waits for is over, "false" exactly if one of them failed, nobody ends   *)
(* before the tasks he waits for, and no task begins twice (submit, wait,  *)
(* run).                                                                   *)
THEOREM JoinsSafely == Spec => Promise!Safety
<1>1. PoolInv /\ LifeInv /\ PoolInv' /\ [Next]_vars => [Promise!Next]_(Promise!vars)
  BY StepJoins
<1> QED BY <1>1, InitJoins, LivesInvariant, PTL DEF Spec, Promise!Safety
=============================================================================
