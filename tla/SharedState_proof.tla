------------------------- MODULE SharedState_proof -------------------------
(***************************************************************************)
(* For any number of threads: the tables of the range proofs are whole     *)
(* when they are used, the generator hands out no block twice, and the     *)
(* hashes that objects keep of themselves are right.                       *)
(***************************************************************************)
EXTENDS SharedState, TLAPS

-----------------------------------------------------------------------------
(* The tables.  Only the thread with the mutex builds, it builds only when *)
(* nobody has, and each part is whole when it goes on to the next.         *)
BuilderAt == {<<"fill", i>> : i \in 0 .. Entries - 1} \union {<<"straus">>, <<"pippenger">>, <<"done">>}
TablesAt == BuilderAt \union {<<"start">>, <<"unlock">>, <<"use">>}

Full == table = Entries /\ caches = [straus |-> Entries, pippenger |-> Entries]

TablesType ==
  /\ tpc \in [Prover -> TablesAt]
  /\ init_done \in BOOLEAN
  /\ table \in 0 .. Entries
  /\ caches \in [straus : 0 .. Entries, pippenger : 0 .. Entries]

OneBuilds == \A t \in Prover : tpc[t][1] \notin {"start", "use"} => init_mutex = {t}
BuiltOnce == \A t \in Prover : tpc[t][1] \in {"fill", "straus", "pippenger", "done"} => ~init_done
UsedWhenDone == \A t \in Prover : tpc[t][1] \in {"unlock", "use"} => init_done
WholeInTurn ==
  \A t \in Prover :
    /\ tpc[t][1] \in {"straus", "pippenger", "done"} => table = Entries
    /\ tpc[t][1] \in {"pippenger", "done"} => caches.straus = Entries
    /\ tpc[t][1] = "done" => caches.pippenger = Entries
DoneIsFull == init_done => Full

TablesInv == TablesType /\ OneBuilds /\ BuiltOnce /\ UsedWhenDone /\ WholeInTurn /\ DoneIsFull

(* TablesInitInv: nothing is built at first, and nobody is building.       *)
LEMMA TablesInitInv == TablesInit => TablesInv
<1> SUFFICES ASSUME TablesInit PROVE TablesInv
  OBVIOUS
<1>1. TablesType
  <2>1. tpc \in [Prover -> TablesAt]
    BY DEF TablesInit, TablesAt
  <2>2. 0 \in 0 .. Entries
    BY EntriesAssumption
  <2> QED
    BY <2>1, <2>2 DEF TablesInit, TablesType
<1>2. \A t \in Prover : tpc[t][1] = "start"
  BY DEF TablesInit
<1> QED
  BY <1>1, <1>2 DEF TablesInit, TablesInv, OneBuilds, BuiltOnce, UsedWhenDone, WholeInTurn, DoneIsFull

(* TablesStepInv: every step of a thread keeps it so.                      *)
LEMMA TablesStepInv == TablesInv /\ [TablesNext]_tablesVars => TablesInv'
<1> SUFFICES ASSUME TablesInv, [TablesNext]_tablesVars PROVE TablesInv'
  OBVIOUS
<1> USE EntriesAssumption
    DEF TablesInv, TablesType, TablesAt, BuilderAt, OneBuilds, BuiltOnce, UsedWhenDone, WholeInTurn, DoneIsFull, Full
<1>1. ASSUME NEW t \in Prover, Lock(t) PROVE TablesInv'
  <2>1. tpc' = [tpc EXCEPT ![t] = <<"unlock">>] \/ tpc' = [tpc EXCEPT ![t] = <<"fill", 0>>]
    BY <1>1 DEF Lock, Goto
  <2>2. TablesType'
    BY <1>1, <2>1 DEF Lock
  <2>3. \A u \in Prover : tpc[u][1] \in {"start", "use"}
    BY <1>1 DEF Lock
  <2> QED
    BY <1>1, <2>2, <2>3 DEF Lock, Goto
<1>2. ASSUME NEW t \in Prover, NEW i \in 0 .. Entries - 1, Fill(t, i) PROVE TablesInv'
  <2>1. TablesType'
    BY <1>2 DEF Fill, Goto
  <2> QED
    BY <1>2, <2>1 DEF Fill, Goto
<1>3. ASSUME NEW t \in Prover, StrausCache(t) PROVE TablesInv'
  BY <1>3 DEF StrausCache, Goto
<1>4. ASSUME NEW t \in Prover, PippengerCache(t) PROVE TablesInv'
  <2>1. TablesType'
    BY <1>4 DEF PippengerCache, Goto
  <2> QED
    BY <1>4, <2>1 DEF PippengerCache, Goto
<1>5. ASSUME NEW t \in Prover, SetDone(t) PROVE TablesInv'
  <2>1. TablesType'
    BY <1>5 DEF SetDone, Goto
  <2>2. Full'
    BY <1>5 DEF SetDone
  <2> QED
    BY <1>5, <2>1, <2>2 DEF SetDone, Goto
<1>6. ASSUME NEW t \in Prover, Unlock(t) PROVE TablesInv'
  BY <1>6 DEF Unlock, Goto
<1>7. ASSUME NEW t \in Prover, Used(t) PROVE TablesInv'
  BY <1>7 DEF Used, Goto
<1>8. CASE UNCHANGED tablesVars
  BY <1>8 DEF tablesVars
<1> QED
  BY <1>1, <1>2, <1>3, <1>4, <1>5, <1>6, <1>7, <1>8 DEF TablesNext

(* TablesInvComplete: who has left the mutex knows that it is done, and    *)
(* then nobody builds any more.                                            *)
LEMMA TablesInvComplete == TablesInv => TablesComplete
<1> SUFFICES ASSUME TablesInv, NEW u \in Prover, tpc[u] = <<"use">>, NEW t \in Prover
             PROVE Full /\ tpc[t] \in {<<"start">>, <<"unlock">>, <<"use">>}
  BY DEF TablesComplete, Full
<1>1. init_done
  BY DEF TablesInv, UsedWhenDone
<1>2. tpc[t] \notin BuilderAt
  BY <1>1 DEF TablesInv, BuiltOnce, BuilderAt
<1> QED
  BY <1>1, <1>2 DEF TablesInv, DoneIsFull, TablesType, TablesAt

(* TablesAreWhole: in every run, whoever proves or verifies has the whole  *)
(* tables and nobody writes them meanwhile (init_exponents).               *)
THEOREM TablesAreWhole == Spec => []TablesComplete
<1>1. Init => TablesInv
  BY TablesInitInv DEF Init
<1>2. TablesInv /\ [Next]_<<part, cacheVars, randomVars, tablesVars>> => TablesInv'
  BY TablesStepInv DEF Next
<1> QED
  BY <1>1, <1>2, TablesInvComplete, PTL DEF Spec

-----------------------------------------------------------------------------
(* The generator.  The thread with the lock is the only one that looks at  *)
(* the state; what has been handed out is of earlier turns than the block  *)
(* that is next, and curstate says whether a thread draws.                 *)
AtWork(t, for) == rpc[t][1] \in {"permute", "write", "block"} /\ rpc[t][2] = for
Drawing(t) == AtWork(t, "draw") \/ rpc[t][1] = "drawn"
Adding(t) == AtWork(t, "add") \/ rpc[t][1] = "added"
Outside(t) == rpc[t][1] \in {"idle", "draw", "add"}

OneInside == \A t \in Drawer : Outside(t) \/ ((Drawing(t) \/ Adding(t)) /\ random_lock = {t})
SeededFirst == curstate = 0 => \A t \in Drawer : rpc[t][1] = "idle"
BusyWhenDrawing ==
  /\ \A t \in Drawer : Drawing(t) => curstate = 2
  /\ curstate = 2 => \E t \in Drawer : Drawing(t)

ControlInv ==
  /\ DOMAIN rpc = Drawer /\ curstate \in 0 .. 2
  /\ OneInside /\ SeededFirst /\ BusyWhenDrawing
  /\ ~failed

(* What is in the state, and in what was handed out.                       *)
Mixtures == SUBSET Nat
States == [turns : Nat, mixed : Mixtures]

RandomType ==
  /\ seeded = [i \in 1 .. SEED |-> IF i <= taken THEN i ELSE 0]
  /\ taken \in 0 .. SEED
  /\ state \in States /\ given \in Nat
  /\ drawn \in Seq(States)
  /\ DOMAIN read = Drawer
SeededWhole == curstate # 0 => taken = SEED
ReadIsState == \A t \in Drawer : rpc[t][1] = "write" => read[t] = state
TurnsAhead ==
  /\ \A i \in 1 .. Len(drawn) : drawn[i].turns <= state.turns
  /\ \A t \in Drawer : rpc[t][1] = "block" /\ rpc[t][2] = "draw" =>
       \A i \in 1 .. Len(drawn) : drawn[i].turns < state.turns
TurnsDiffer == \A i, j \in 1 .. Len(drawn) : i # j => drawn[i].turns # drawn[j].turns
AllMixed == state.mixed = 1 .. given

ContentInv == RandomType /\ SeededWhole /\ ReadIsState /\ TurnsAhead /\ TurnsDiffer /\ AllMixed

RandomInv == ControlInv /\ ContentInv

(* What the theorem is about: all of DrawsDiffer that is not constant.     *)
DrawnApart == BlocksDiffer /\ StateFilled /\ EntropyKept /\ ~failed

(* OnlyOneInside: two threads are not inside at once.                      *)
LEMMA OnlyOneInside ==
  OneInside => \A t, u \in Drawer : Outside(t) \/ Outside(u) \/ t = u
<1> USE DEF Outside
<1> SUFFICES ASSUME OneInside, NEW t \in Drawer, NEW u \in Drawer, ~Outside(t), ~Outside(u) PROVE t = u
  OBVIOUS
<1>1. random_lock = {t} /\ random_lock = {u}
  BY DEF OneInside
<1> QED
  BY <1>1

(* NobodyInside: when nobody has the lock nobody is inside.                *)
LEMMA NobodyInside == OneInside /\ random_lock = {} => \A t \in Drawer : Outside(t)
<1> USE DEF Outside
<1> SUFFICES ASSUME OneInside, random_lock = {}, NEW t \in Drawer, ~Outside(t) PROVE FALSE
  OBVIOUS
<1>1. random_lock = {t}
  BY DEF OneInside
<1> QED
  BY <1>1

(* ControlInit: nobody draws before main.                                  *)
LEMMA ControlInit == RandomInit => ControlInv
<1> SUFFICES ASSUME RandomInit PROVE ControlInv
  OBVIOUS
<1>1. \A t \in Drawer : rpc[t][1] = "idle"
  BY DEF RandomInit
<1> QED
  BY <1>1 DEF RandomInit, ControlInv, OneInside, SeededFirst, BusyWhenDrawing, Outside, Drawing, AtWork

(* ControlStep: the lock keeps them apart, step by step.                   *)
LEMMA ControlStep == ControlInv /\ [RandomNext]_randomVars => ControlInv'
<1> SUFFICES ASSUME ControlInv, [RandomNext]_randomVars PROVE ControlInv'
  OBVIOUS
<1> USE DEF ControlInv, OneInside, SeededFirst, BusyWhenDrawing, Outside, Drawing, Adding, AtWork
<1>1. ASSUME deinit_random PROVE ControlInv'
  BY <1>1 DEF deinit_random
<1>2. ASSUME NEW n \in 1 .. SEED, generate_system_random_bytes(n) PROVE ControlInv'
  BY <1>2 DEF generate_system_random_bytes
<1>3. ASSUME NEW t \in Drawer, NEW n \in 0 .. MaxDraw, generate_random_bytes_thread_safe(t, n) PROVE ControlInv'
  BY <1>3 DEF generate_random_bytes_thread_safe, Asked
<1>4. ASSUME NEW t \in Drawer, NEW n \in 0 .. MaxDraw, add_extra_entropy_thread_safe(t, n) PROVE ControlInv'
  BY <1>4 DEF add_extra_entropy_thread_safe, Asked
<1>5. ASSUME NEW t \in Drawer, StartDraw(t) PROVE ControlInv'
  <2>1. \A u \in Drawer : Outside(u)
    BY <1>5, NobodyInside DEF StartDraw, Entered, MayEnter
  <2>2. curstate = 1
    BY <1>5, <2>1 DEF StartDraw
  <2>3. rpc' = [rpc EXCEPT ![t] = <<"drawn">>] \/ rpc' = [rpc EXCEPT ![t] = <<"permute", "draw">>]
    BY <1>5 DEF StartDraw
  <2>4. random_lock' = {t} /\ curstate' = 2 /\ ~failed'
    BY <1>5, <2>2 DEF StartDraw, Entered
  <2>5. Drawing(t)' /\ \A u \in Drawer : u = t \/ Outside(u)'
    BY <2>1, <2>3
  <2> QED
    BY <2>3, <2>4, <2>5
<1>6. ASSUME NEW t \in Drawer, StartAdd(t) PROVE ControlInv'
  <2>1. \A u \in Drawer : Outside(u)
    BY <1>6, NobodyInside DEF StartAdd, Entered, MayEnter
  <2>2. rpc' = [rpc EXCEPT ![t] = <<"added">>] \/ rpc' = [rpc EXCEPT ![t] = <<"permute", "add">>]
    BY <1>6 DEF StartAdd
  <2> QED
    BY <1>6, <2>1, <2>2 DEF StartAdd, Entered
<1>7. ASSUME NEW t \in Drawer, NEW for \in {"draw", "add"}, BeginPermutation(t, for) PROVE ControlInv'
  BY <1>7 DEF BeginPermutation
<1>8. ASSUME NEW t \in Drawer, NEW for \in {"draw", "add"}, EndPermutation(t, for) PROVE ControlInv'
  BY <1>8 DEF EndPermutation
<1>9. ASSUME NEW t \in Drawer, CopyBlock(t) PROVE ControlInv'
  <2>1. rpc' = [rpc EXCEPT ![t] = <<"drawn">>] \/ rpc' = [rpc EXCEPT ![t] = <<"permute", "draw">>]
    BY <1>9 DEF CopyBlock
  <2> QED
    BY <1>9, <2>1 DEF CopyBlock
<1>10. ASSUME NEW t \in Drawer, MixBlock(t) PROVE ControlInv'
  <2>1. rpc' = [rpc EXCEPT ![t] = <<"added">>] \/ rpc' = [rpc EXCEPT ![t] = <<"permute", "add">>]
    BY <1>10 DEF MixBlock
  <2> QED
    BY <1>10, <2>1 DEF MixBlock
<1>11. ASSUME NEW t \in Drawer, Leave(t) PROVE ControlInv'
  <2>1. ~Outside(t) /\ (Drawing(t) <=> rpc[t] = <<"drawn">>)
    BY <1>11 DEF Leave
  <2>2. \A u \in Drawer : u = t \/ Outside(u)
    BY <2>1, OnlyOneInside
  <2>3. rpc' = [rpc EXCEPT ![t] = <<"idle">>] /\ random_lock' = {} /\ ~failed'
    BY <1>11, <2>1 DEF Leave
  <2>4. \A u \in Drawer : Outside(u)'
    BY <2>2, <2>3
  <2>5. curstate' \in {1, 2}
    BY <1>11, <2>1 DEF Leave
  <2>6. curstate' = 1
    <3>1. CASE Drawing(t)
      BY <1>11, <2>1, <3>1 DEF Leave
    <3>2. CASE ~Drawing(t)
      <4>1. curstate # 2
        BY <2>2, <3>2
      <4> QED
        BY <1>11, <2>1, <2>5, <3>2, <4>1 DEF Leave
    <3> QED
      BY <3>1, <3>2
  <2> QED
    BY <2>3, <2>4, <2>6
<1>12. CASE UNCHANGED randomVars
  BY <1>12 DEF randomVars
<1> QED
  BY <1>1, <1>2, <1>3, <1>4, <1>5, <1>6, <1>7, <1>8, <1>9, <1>10, <1>11, <1>12 DEF RandomNext

(* ContentInit: the state is empty and nothing was handed out.             *)
LEMMA ContentInit == RandomInit => ContentInv
<1> SUFFICES ASSUME RandomInit PROVE ContentInv
  OBVIOUS
<1>1. \A t \in Drawer : rpc[t][1] = "idle"
  BY DEF RandomInit
<1>2. state \in States /\ AllMixed
  BY DEF RandomInit, States, Mixtures, AllMixed
<1>3. RandomType
  BY <1>2, SeedAssumption DEF RandomInit, RandomType
<1> QED
  BY <1>1, <1>2, <1>3 DEF RandomInit, ContentInv, SeededWhole, ReadIsState, TurnsAhead, TurnsDiffer

(* StateFields: the fields of a state that was handed out are numbers and  *)
(* sets.                                                                   *)
LEMMA StateFields ==
  RandomType => state.turns \in Nat /\ Len(drawn) \in Nat /\ \A i \in 1 .. Len(drawn) : drawn[i].turns \in Nat
<1> SUFFICES ASSUME RandomType
             PROVE  state.turns \in Nat /\ Len(drawn) \in Nat /\ \A i \in 1 .. Len(drawn) : drawn[i].turns \in Nat
  OBVIOUS
<1>1. Len(drawn) \in Nat /\ \A i \in 1 .. Len(drawn) : drawn[i] \in States
  BY DEF RandomType
<1>2. \A s \in States : s.turns \in Nat
  BY DEF States
<1> QED
  BY <1>1, <1>2 DEF RandomType

(* ContentKept: a step that changes neither the state nor what was handed  *)
(* out, and lets nobody go to where it matters.                            *)
LEMMA ContentKept ==
  /\ ContentInv
  /\ UNCHANGED <<seeded, taken, state, read, drawn, given>>
  /\ curstate' # 0 => curstate # 0
  /\ \A t \in Drawer : rpc'[t] = rpc[t] \/ rpc'[t][1] \notin {"write", "block"}
  => ContentInv'
BY DEF ContentInv, RandomType, SeededWhole, ReadIsState, TurnsAhead, TurnsDiffer, AllMixed

(* ContentStep: no step of a thread hands out an old block, or loses what  *)
(* was mixed in, since nobody else writes the state it has read.           *)
LEMMA ContentStep == ControlInv /\ ContentInv /\ [RandomNext]_randomVars => ContentInv'
<1> SUFFICES ASSUME ControlInv, ContentInv, [RandomNext]_randomVars PROVE ContentInv'
  OBVIOUS
<1>a. RandomType /\ state.turns \in Nat /\ Len(drawn) \in Nat /\ \A i \in 1 .. Len(drawn) : drawn[i].turns \in Nat
  BY StateFields DEF ContentInv
<1>b. DOMAIN rpc = Drawer
  BY DEF ControlInv
<1>1. ASSUME deinit_random PROVE ContentInv'
  <2>1. state' \in States /\ AllMixed'
    BY <1>1 DEF deinit_random, States, Mixtures, AllMixed
  <2>2. RandomType'
    BY <1>1, <2>1, SeedAssumption DEF deinit_random, RandomType
  <2> QED
    BY <1>1, <2>1, <2>2 DEF deinit_random, ContentInv, SeededWhole, ReadIsState, TurnsAhead, TurnsDiffer
<1>2. ASSUME NEW n \in 1 .. SEED, generate_system_random_bytes(n) PROVE ContentInv'
  <2>1. taken' = taken + n /\ taken' \in 0 .. SEED
    BY <1>2, SeedAssumption DEF generate_system_random_bytes, ContentInv, RandomType
  <2>2. seeded' = [i \in 1 .. SEED |-> IF i <= taken' THEN i ELSE 0]
    BY <1>2, <2>1, SeedAssumption DEF generate_system_random_bytes, Filled, ContentInv, RandomType
  <2> QED
    BY <1>2, <2>1, <2>2
    DEF generate_system_random_bytes, ContentInv, RandomType, SeededWhole, ReadIsState, TurnsAhead, TurnsDiffer, AllMixed
<1>3. ASSUME NEW t \in Drawer, NEW n \in 0 .. MaxDraw, generate_random_bytes_thread_safe(t, n) PROVE ContentInv'
  BY <1>3, <1>b, ContentKept DEF generate_random_bytes_thread_safe, Asked
<1>4. ASSUME NEW t \in Drawer, NEW n \in 0 .. MaxDraw, add_extra_entropy_thread_safe(t, n) PROVE ContentInv'
  BY <1>4, <1>b, ContentKept DEF add_extra_entropy_thread_safe, Asked
<1>5. ASSUME NEW t \in Drawer, StartDraw(t) PROVE ContentInv'
  <2>1. \A u \in Drawer : Outside(u)
    BY <1>5, NobodyInside DEF StartDraw, Entered, MayEnter, ControlInv, Outside
  <2>2. curstate # 0
    BY <1>5 DEF StartDraw, ControlInv, SeededFirst
  <2> QED
    BY <1>5, <1>b, <2>2, ContentKept DEF StartDraw
<1>6. ASSUME NEW t \in Drawer, StartAdd(t) PROVE ContentInv'
  BY <1>6, <1>b, ContentKept DEF StartAdd
<1>7. ASSUME NEW t \in Drawer, NEW for \in {"draw", "add"}, BeginPermutation(t, for) PROVE ContentInv'
  BY <1>7, <1>a, <1>b
  DEF BeginPermutation, ContentInv, RandomType, SeededWhole, ReadIsState, TurnsAhead, TurnsDiffer, AllMixed
<1>8. ASSUME NEW t \in Drawer, NEW for \in {"draw", "add"}, EndPermutation(t, for) PROVE ContentInv'
  <2>1. \A u \in Drawer : u = t \/ Outside(u)
    BY <1>8, OnlyOneInside DEF EndPermutation, ControlInv, Outside
  <2>2. state' = [state EXCEPT !.turns = @ + 1]
    BY <1>8 DEF EndPermutation, ContentInv, ReadIsState
  <2>3. state' \in States /\ state'.turns = state.turns + 1 /\ state'.mixed = state.mixed
    BY <2>2, <1>a DEF RandomType, States
  <2>4. rpc' = [rpc EXCEPT ![t] = <<"block", for>>]
    BY <1>8 DEF EndPermutation
  <2>5. RandomType' /\ SeededWhole' /\ AllMixed' /\ TurnsDiffer'
    BY <1>8, <2>3 DEF EndPermutation, ContentInv, RandomType, SeededWhole, AllMixed, TurnsDiffer
  <2>6. TurnsAhead'
    <3>1. \A i \in 1 .. Len(drawn) : drawn[i].turns < state'.turns
      BY <2>3, <1>a DEF ContentInv, TurnsAhead
    <3> QED
      BY <1>8, <1>a, <2>3, <3>1 DEF EndPermutation, TurnsAhead
  <2>7. ReadIsState'
    BY <1>8, <1>b, <2>1, <2>4 DEF EndPermutation, ReadIsState, Outside
  <2> QED
    BY <2>5, <2>6, <2>7 DEF ContentInv
<1>9. ASSUME NEW t \in Drawer, CopyBlock(t) PROVE ContentInv'
  <2>1. \A u \in Drawer : u = t \/ Outside(u)
    BY <1>9, OnlyOneInside DEF CopyBlock, ControlInv, Outside
  <2>2. rpc' = [rpc EXCEPT ![t] = <<"drawn">>] \/ rpc' = [rpc EXCEPT ![t] = <<"permute", "draw">>]
    BY <1>9 DEF CopyBlock
  <2>3. /\ Len(drawn') = Len(drawn) + 1 /\ drawn' \in Seq(States)
        /\ drawn'[Len(drawn) + 1] = state /\ \A i \in 1 .. Len(drawn) : drawn'[i] = drawn[i]
    BY <1>9, <1>a DEF CopyBlock, RandomType
  <2>4. \A i \in 1 .. Len(drawn) : drawn[i].turns < state.turns
    BY <1>9 DEF CopyBlock, ContentInv, TurnsAhead
  <2>5. state' = state
    BY <1>9 DEF CopyBlock
  <2>6. TurnsDiffer'
    BY <1>a, <2>3, <2>4 DEF TurnsDiffer, ContentInv
  <2>7. \A u \in Drawer : rpc'[u][1] \notin {"write", "block"}
    BY <1>b, <2>1, <2>2 DEF Outside
  <2>8. TurnsAhead' /\ ReadIsState'
    BY <1>a, <2>3, <2>4, <2>5, <2>7 DEF TurnsAhead, ReadIsState
  <2> QED
    BY <1>9, <2>3, <2>6, <2>8 DEF CopyBlock, ContentInv, RandomType, SeededWhole, AllMixed
<1>10. ASSUME NEW t \in Drawer, MixBlock(t) PROVE ContentInv'
  <2>1. \A u \in Drawer : u = t \/ Outside(u)
    BY <1>10, OnlyOneInside DEF MixBlock, ControlInv, Outside
  <2>2. rpc' = [rpc EXCEPT ![t] = <<"added">>] \/ rpc' = [rpc EXCEPT ![t] = <<"permute", "add">>]
    BY <1>10 DEF MixBlock
  <2>3. given' = given + 1 /\ given' \in Nat /\ state' = [state EXCEPT !.mixed = @ \union {given'}]
    BY <1>10, <1>a DEF MixBlock, RandomType
  <2>4. state' \in States /\ state'.mixed = state.mixed \union {given'} /\ state'.turns = state.turns
    BY <2>3, <1>a DEF RandomType, States, Mixtures
  <2>5. AllMixed'
    BY <2>3, <2>4, <1>a DEF ContentInv, AllMixed, RandomType
  <2>6. \A u \in Drawer : rpc'[u][1] \notin {"write", "block"}
    BY <1>b, <2>1, <2>2 DEF Outside
  <2>7. ReadIsState'
    BY <2>6 DEF ReadIsState
  <2> QED
    BY <1>10, <2>3, <2>4, <2>5, <2>6, <2>7 DEF MixBlock, ContentInv, RandomType, SeededWhole, TurnsAhead, TurnsDiffer
<1>11. ASSUME NEW t \in Drawer, Leave(t) PROVE ContentInv'
  <2>1. curstate # 0
    BY <1>11 DEF Leave, ControlInv, SeededFirst
  <2> QED
    BY <1>11, <1>b, <2>1, ContentKept DEF Leave
<1>12. CASE UNCHANGED randomVars
  BY <1>12, ContentKept DEF randomVars
<1> QED
  BY <1>1, <1>2, <1>3, <1>4, <1>5, <1>6, <1>7, <1>8, <1>9, <1>10, <1>11, <1>12 DEF RandomNext

(* RandomInvApart: blocks of different turns are different, and all that   *)
(* was added is in the state.                                              *)
LEMMA RandomInvApart == RandomInv => DrawnApart
<1> SUFFICES ASSUME RandomInv PROVE DrawnApart
  OBVIOUS
<1> USE DEF RandomInv, ControlInv, ContentInv
<1>1. BlocksDiffer
  BY DEF BlocksDiffer, RandomType, TurnsDiffer
<1>2. StateFilled
  <2> SUFFICES ASSUME curstate # 0 PROVE seeded = [i \in 1 .. SEED |-> i]
    BY DEF StateFilled
  <2>1. taken = SEED
    BY DEF SeededWhole
  <2>2. \A i \in 1 .. SEED : (IF i <= taken THEN i ELSE 0) = i
    BY <2>1, SeedAssumption
  <2> QED
    BY <2>2 DEF RandomType
<1> QED
  BY <1>1, <1>2 DEF DrawnApart, EntropyKept, AllMixed

(* BlocksAreApart: in every run, no block of random bytes is handed out    *)
(* twice or before the state is filled, and entropy is not lost, however   *)
(* many threads draw and add it (crypto.cpp, random.c).  What DrawsDiffer  *)
(* says of scalars is about constants only, and is assumed.                *)
THEOREM BlocksAreApart == ScalarsUnbiased => (Spec => []DrawsDiffer)
<1> SUFFICES ASSUME ScalarsUnbiased PROVE Spec => []DrawsDiffer
  OBVIOUS
<1>1. Init => RandomInv
  BY ControlInit, ContentInit DEF Init, RandomInv
<1>2. RandomInv /\ [Next]_<<part, cacheVars, randomVars, tablesVars>> => RandomInv'
  BY ControlStep, ContentStep DEF Next, RandomInv
<1>3. RandomInv => DrawsDiffer
  BY RandomInvApart DEF DrawnApart, DrawsDiffer
<1> QED
  BY <1>1, <1>2, <1>3, PTL DEF Spec

-----------------------------------------------------------------------------
(* The caches.  What a reader found out at each place is of the object,    *)
(* and what it writes over is either not valid or already what it writes:  *)
(* all readers write the same.  So no reader disturbs another (Kept), and  *)
(* owners, who come alone, leave an object without a hash or with the      *)
(* right one.  The parts of the invariant: what the records look like,     *)
(* what is right of the objects, what each reader asked for, and what is   *)
(* right of what it has found.                                             *)

TxFields == {"content", "pruned", "prefix_size", "unprunable_size", "hash_valid", "hash", "prunable_hash_valid",
             "prunable_hash", "blob_size_valid", "blob_size"}
IsHash(h) == h = [n \in Half |-> h[n]]
IsTx(t) == DOMAIN t = TxFields /\ IsHash(t.hash) /\ IsHash(t.prunable_hash)
IsFound(f) == DOMAIN f = {"valid", "hash", "value", "prefix_size", "unprunable_size", "size"} /\ IsHash(f.hash)

TheHash == HashOf(original)
TheBlockHash == <<block.header, TheHash>>
SizesRight(t) == t.prefix_size = Len(original.prefix) /\ t.unprunable_size = Len(original.prefix) + Len(original.base)

SameContent(t) ==
  /\ t.pruned \in BOOLEAN
  /\ ~t.pruned => t.content = original
  /\ t.pruned => /\ original.version = 2 /\ original.prunable # << >>
                 /\ t.content = [original EXCEPT !.prunable = <<None>>]

ObjectInv ==
  /\ original \in TransactionType
  /\ IsTx(tx) /\ SameContent(tx) /\ RightOf(tx)
  /\ DOMAIN block = {"header", "hash_valid", "hash"} /\ IsHash(block.hash)
  /\ block.hash_valid /\ block.header \notin Refused => block.hash = Whole(TheBlockHash)

(* Where a reader of each kind may be. *)
ForTx == {"hash?", "read 1", "read 2", "size?", "serialize", "sizes", "calculate", "size of blob?", "set size"}
ForPrunable == {"prunable?", "write prunable 1", "write prunable 2", "set prunable valid"}
ForBlock == {"block hash?", "block read", "block write 1", "block write 2", "block valid"}
ForHash == {"write 1", "write 2", "set valid", "got"}

AskedFor(r) ==
  /\ cpc[r] \in ForTx => ask[r].what \in {"tx", "block"}
  /\ cpc[r] \in ForHash => ask[r].what \in {"tx", "block", "pruned"}
  /\ cpc[r] \in ForPrunable => ask[r].what = "prunable"
  /\ cpc[r] \in ForBlock => ask[r].what = "block"
  /\ cpc[r] = "three hashes" => ask[r].what = "pruned"
  /\ cpc[r] = "copy" => ask[r].what = "copy"
  /\ cpc[r] \in {"size?", "size of blob?", "set size"} => ask[r].size
  /\ cpc[r] \notin {"idle", "failed"} /\ ask[r].size => ask[r].what \in {"tx", "block"}
  /\ cpc[r] \in ForTx \union ForPrunable \union ForBlock \union ForHash \union {"three hashes"} => IsFound(found[r])

HashOK(r) ==
  /\ cpc[r] \in {"read 1", "read 2"} => tx.hash_valid
  /\ cpc[r] = "read 2" => found[r].hash[1] = TheHash
  /\ cpc[r] \in {"sizes", "calculate", "size of blob?"} => ~tx.pruned
  /\ cpc[r] = "sizes" => SizesRight(tx)
  /\ cpc[r] = "calculate" => SizesRight(found[r])
  /\ cpc[r] \in {"size of blob?", "write 1", "write 2", "set valid"} => found[r].value = TheHash
  /\ cpc[r] \in {"write 2", "set valid"} => tx.hash[1] = TheHash
  /\ cpc[r] = "set valid" => tx.hash[2] = TheHash
  /\ cpc[r] \in {"size?", "set size", "got"} => found[r].hash = Whole(TheHash)
  /\ cpc[r] \in {"write 1", "write 2", "set valid", "set size", "got"} /\ ask[r].size => found[r].size = Len(BlobOf(tx))

PrunableOK(r) ==
  /\ cpc[r] \in {"write prunable 1", "write prunable 2", "set prunable valid"} => found[r].value = original.prunable
  /\ cpc[r] \in {"write prunable 2", "set prunable valid"} => tx.prunable_hash[1] = original.prunable
  /\ cpc[r] = "set prunable valid" => tx.prunable_hash[2] = original.prunable

BlockOK(r) ==
  /\ cpc[r] = "block read" => block.hash_valid
  /\ cpc[r] \in {"block write 1", "block write 2", "block valid"} => found[r].value = TheBlockHash
  /\ cpc[r] \in {"block write 2", "block valid"} => block.hash[1] = TheBlockHash
  /\ cpc[r] = "block valid" => block.hash[2] = TheBlockHash

AnswerOK(r) ==
  /\ cpc[r] = "answered" => Answer(r) /\ ask[r].what \in {"tx", "block", "prunable", "pruned", "copy"}
  /\ cpc[r] = "answered" /\ ask[r].what = "copy" => IsTx(found[r]) /\ found[r].pruned = tx.pruned

ReaderOK(r) == AskedFor(r) /\ HashOK(r) /\ PrunableOK(r) /\ BlockOK(r) /\ AnswerOK(r)

PerReader == DOMAIN cpc = Reader /\ DOMAIN ask = Reader /\ DOMAIN found = Reader
CacheInv == ObjectInv /\ PerReader /\ \A r \in Reader : ReaderOK(r)

(* What a step of a reader leaves to the others. *)
Kept ==
  /\ original' = original /\ block'.header = block.header
  /\ tx'.content = tx.content /\ tx'.pruned = tx.pruned
  /\ tx.hash_valid => tx'.hash_valid
  /\ block.hash_valid => block'.hash_valid
  /\ \A n \in Half : /\ tx.hash[n] = TheHash => tx'.hash[n] = TheHash
                     /\ tx.prunable_hash[n] = original.prunable => tx'.prunable_hash[n] = original.prunable
                     /\ block.hash[n] = TheBlockHash => block'.hash[n] = TheBlockHash
  /\ SizesRight(tx) => SizesRight(tx')

Passes(q) == cpc'[q] = cpc[q] /\ ask'[q] = ask[q] /\ found'[q] = found[q]

(* HalvesMakeWhole: a hash is whole when its halves are halves of one. *)
LEMMA HalvesMakeWhole ==
  ASSUME NEW h, IsHash(h), NEW v PROVE h = Whole(v) <=> h[1] = v /\ h[2] = v
  BY DEF IsHash, Whole, Half

(* OthersStay: a reader that takes no part in a step that keeps what is    *)
(* right is not disturbed by it: readers do not lock.                      *)
LEMMA OthersStay ==
  ASSUME NEW q \in Reader, ReaderOK(q), Kept, Passes(q)
  PROVE  ReaderOK(q)'
<1>1. TheHash' = TheHash /\ TheBlockHash' = TheBlockHash /\ BlobOf(tx)' = BlobOf(tx) /\ SizesRight(found[q])' = SizesRight(found[q])
  BY DEF Kept, Passes, TheHash, TheBlockHash, HashOf, BlobOf, SizesRight
<1>2. SizesRight(tx) => SizesRight(tx)'
  BY DEF Kept, SizesRight
<1>3. 1 \in Half /\ 2 \in Half
  BY DEF Half
<1>4. AskedFor(q)'
  BY DEF ReaderOK, Passes, AskedFor
<1>5. HashOK(q)'
  BY <1>2, <1>1, <1>3 DEF ReaderOK, Passes, HashOK, Kept
<1>6. PrunableOK(q)'
  BY <1>3 DEF ReaderOK, Passes, PrunableOK, Kept
<1>7. BlockOK(q)'
  BY <1>1, <1>3 DEF ReaderOK, Passes, BlockOK, Kept
<1>8. AnswerOK(q)'
  <2>1. Answer(q)' <=> Answer(q)
    BY <1>1 DEF Answer, Passes, Kept, RightOf, TheHash, TheBlockHash
  <2> QED
    BY <2>1 DEF ReaderOK, Passes, AnswerOK, Kept
<1> QED
  BY <1>4, <1>5, <1>6, <1>7, <1>8 DEF ReaderOK

(* PartsOfBlob: the parts of a transaction are cut out of its blob again. *)
LEMMA PartsOfBlob ==
  ASSUME NEW S, NEW a \in Seq(S), NEW b \in Seq(S), NEW c \in Seq(S)
  PROVE  /\ SubSeq(a \o b \o c, Len(a) + 1, Len(a) + Len(b)) = b
         /\ SubSeq(a \o b \o c, Len(a) + Len(b) + 1, Len(a \o b \o c)) = c
<1> DEFINE all == a \o b \o c
<1> all \in Seq(S) /\ Len(all) = Len(a) + Len(b) + Len(c)
  OBVIOUS
<1>1. SubSeq(all, Len(a) + 1, Len(a) + Len(b)) = b
  <2> DEFINE s == SubSeq(all, Len(a) + 1, Len(a) + Len(b))
  <2>1. s \in Seq(S) /\ Len(s) = Len(b)
    OBVIOUS
  <2>2. \A i \in 1 .. Len(b) : s[i] = b[i]
    OBVIOUS
  <2> QED
    BY <2>1, <2>2
<1>2. SubSeq(all, Len(a) + Len(b) + 1, Len(all)) = c
  <2> DEFINE s == SubSeq(all, Len(a) + Len(b) + 1, Len(all))
  <2>1. s \in Seq(S) /\ Len(s) = Len(c)
    OBVIOUS
  <2>2. \A i \in 1 .. Len(c) : s[i] = c[i]
    OBVIOUS
  <2> QED
    BY <2>1, <2>2
<1> QED
  BY <1>1, <1>2

(* HashComputed: calculate_transaction_hash hashes the parts of the        *)
(* transaction, given where they end.                                      *)
LEMMA HashComputed ==
  ASSUME NEW c \in TransactionType, NEW p, NEW u, p = Len(c.prefix), u = Len(c.prefix) + Len(c.base)
  PROVE  /\ TxHash(c, SubSeq(Blob(c), p + 1, u), SubSeq(Blob(c), u + 1, Len(Blob(c)))) = HashOf(c)
         /\ SubSeq(Blob(c), u + 1, Len(Blob(c))) = c.prunable
<1>1. c.prefix \in Seq(STRING) /\ c.base \in Seq(STRING) /\ c.prunable \in Seq(STRING)
  BY DEF TransactionType
<1>2. SubSeq(Blob(c), p + 1, u) = c.base /\ SubSeq(Blob(c), u + 1, Len(Blob(c))) = c.prunable
  <2> DEFINE x == c.prefix
  <2> DEFINE y == c.base
  <2> DEFINE z == c.prunable
  <2>1. x \in Seq(STRING) /\ y \in Seq(STRING) /\ z \in Seq(STRING)
    BY <1>1
  <2> HIDE DEF x, y, z
  <2>2. /\ SubSeq(x \o y \o z, Len(x) + 1, Len(x) + Len(y)) = y
        /\ SubSeq(x \o y \o z, Len(x) + Len(y) + 1, Len(x \o y \o z)) = z
    BY <2>1, PartsOfBlob
  <2>3. Blob(c) = x \o y \o z
    BY DEF Blob, x, y, z
  <2> QED
    BY <2>2, <2>3 DEF x, y, z
<1> QED
  BY <1>2 DEF HashOf

OnlyTxChanges == original' = original /\ block' = block

(* TxKept: what has to be shown of a step that changes nothing but the     *)
(* transaction.                                                            *)
LEMMA TxKept ==
  ASSUME ObjectInv, OnlyTxChanges, IsTx(tx'), tx'.content = tx.content, tx'.pruned = tx.pruned,
         tx.hash_valid => tx'.hash_valid, RightOf(tx)',
         \A n \in Half : /\ tx.hash[n] = TheHash => tx'.hash[n] = TheHash
                         /\ tx.prunable_hash[n] = original.prunable => tx'.prunable_hash[n] = original.prunable,
         SizesRight(tx) => SizesRight(tx')
  PROVE  Kept /\ ObjectInv'
<1>1. TheHash' = TheHash /\ TheBlockHash' = TheBlockHash
  BY DEF OnlyTxChanges, TheHash, TheBlockHash
<1>2. Kept
  BY <1>1 DEF OnlyTxChanges, Kept
<1>3. SameContent(tx)'
  BY DEF ObjectInv, OnlyTxChanges, SameContent
<1> QED
  BY <1>1, <1>2, <1>3 DEF ObjectInv, OnlyTxChanges, IsTx

(* Untouched: a step that changes neither object. *)
LEMMA Untouched ==
  ASSUME ObjectInv, OnlyTxChanges, tx' = tx
  PROVE  Kept /\ ObjectInv'
<1>1. RightOf(tx)'
  BY DEF OnlyTxChanges, RightOf, ObjectInv, HashOf, BlobOf
<1> QED
  BY <1>1, TxKept DEF ObjectInv

(* SizedKept: saving a transaction writes the sizes it has; they are right *)
(* from then on.                                                           *)
LEMMA SizedKept ==
  ASSUME ObjectInv, OnlyTxChanges, tx' = Sized(tx)
  PROVE  Kept /\ ObjectInv' /\ SizesRight(tx)'
<1>1. IsTx(tx') /\ tx'.content = tx.content /\ tx'.pruned = tx.pruned /\ tx'.hash = tx.hash
      /\ tx'.prunable_hash = tx.prunable_hash /\ tx'.blob_size = tx.blob_size
      /\ tx'.hash_valid = tx.hash_valid /\ tx'.prunable_hash_valid = tx.prunable_hash_valid
      /\ tx'.blob_size_valid = tx.blob_size_valid
      /\ tx'.prefix_size = Len(tx.content.prefix)
      /\ tx'.unprunable_size = Len(tx.content.prefix) + Len(tx.content.base)
  BY DEF ObjectInv, IsTx, TxFields, Sized
<1>2. RightOf(tx)'
  BY <1>1 DEF OnlyTxChanges, RightOf, ObjectInv, HashOf, BlobOf
<1>3. tx.content.prefix = original.prefix /\ tx.content.base = original.base
  BY DEF ObjectInv, SameContent, TransactionType
<1>4. SizesRight(tx') /\ SizesRight(tx)'
  BY <1>1, <1>3 DEF SizesRight, OnlyTxChanges
<1> QED
  BY <1>1, <1>2, <1>4, TxKept

(* SizeKept: the size of the blob is written and valid. *)
LEMMA SizeKept ==
  ASSUME ObjectInv, OnlyTxChanges, NEW size, size = Len(BlobOf(tx)),
         tx' = [tx EXCEPT !.blob_size = size, !.blob_size_valid = TRUE]
  PROVE  Kept /\ ObjectInv'
<1>1. IsTx(tx') /\ tx'.content = tx.content /\ tx'.pruned = tx.pruned /\ tx'.hash = tx.hash
      /\ tx'.prunable_hash = tx.prunable_hash /\ tx'.blob_size = size
      /\ tx'.hash_valid = tx.hash_valid /\ tx'.prunable_hash_valid = tx.prunable_hash_valid
      /\ tx'.prefix_size = tx.prefix_size /\ tx'.unprunable_size = tx.unprunable_size
  BY DEF ObjectInv, IsTx, TxFields
<1>2. RightOf(tx)'
  BY <1>1 DEF OnlyTxChanges, RightOf, ObjectInv, HashOf, BlobOf
<1>3. SizesRight(tx) => SizesRight(tx')
  BY <1>1 DEF SizesRight
<1> QED
  BY <1>1, <1>2, <1>3, TxKept

(* HalfKept: half of the hash is written, over what may be valid and read. *)
LEMMA HalfKept ==
  ASSUME ObjectInv, OnlyTxChanges, NEW n \in Half, tx' = [tx EXCEPT !.hash[n] = TheHash]
  PROVE  Kept /\ ObjectInv' /\ tx'.hash[n] = TheHash
<1>1. IsTx(tx') /\ tx'.content = tx.content /\ tx'.pruned = tx.pruned
      /\ tx'.hash = [tx.hash EXCEPT ![n] = TheHash]
      /\ tx'.prunable_hash = tx.prunable_hash /\ tx'.blob_size = tx.blob_size
      /\ tx'.hash_valid = tx.hash_valid /\ tx'.prunable_hash_valid = tx.prunable_hash_valid
      /\ tx'.blob_size_valid = tx.blob_size_valid
      /\ tx'.prefix_size = tx.prefix_size /\ tx'.unprunable_size = tx.unprunable_size
  BY DEF ObjectInv, IsTx, TxFields, Half, IsHash
<1>2. tx'.hash[n] = TheHash /\ \A m \in Half : tx.hash[m] = TheHash => tx'.hash[m] = TheHash
  BY <1>1 DEF ObjectInv, IsTx, IsHash, Half
<1>3. tx.hash = Whole(TheHash) => tx'.hash = Whole(TheHash)
  BY <1>1 DEF Whole, Half
<1>4. RightOf(tx)'
  BY <1>1, <1>3 DEF OnlyTxChanges, RightOf, ObjectInv, TheHash, BlobOf
<1>5. SizesRight(tx) => SizesRight(tx')
  BY <1>1 DEF SizesRight
<1> QED
  BY <1>1, <1>2, <1>4, <1>5, TxKept

(* ValidKept: the hash is whole when it is said to be valid. *)
LEMMA ValidKept ==
  ASSUME ObjectInv, OnlyTxChanges, tx.hash[1] = TheHash, tx.hash[2] = TheHash, tx' = [tx EXCEPT !.hash_valid = TRUE]
  PROVE  Kept /\ ObjectInv'
<1>1. IsTx(tx') /\ tx'.content = tx.content /\ tx'.pruned = tx.pruned /\ tx'.hash = tx.hash
      /\ tx'.prunable_hash = tx.prunable_hash /\ tx'.blob_size = tx.blob_size
      /\ tx'.hash_valid = TRUE /\ tx'.prunable_hash_valid = tx.prunable_hash_valid
      /\ tx'.blob_size_valid = tx.blob_size_valid
      /\ tx'.prefix_size = tx.prefix_size /\ tx'.unprunable_size = tx.unprunable_size
  BY DEF ObjectInv, IsTx, TxFields
<1>2. tx.hash = Whole(TheHash)
  BY HalvesMakeWhole DEF ObjectInv, IsTx
<1>3. RightOf(tx)'
  BY <1>1, <1>2 DEF OnlyTxChanges, RightOf, ObjectInv, TheHash, BlobOf
<1>4. SizesRight(tx) => SizesRight(tx')
  BY <1>1 DEF SizesRight
<1> QED
  BY <1>1, <1>3, <1>4, TxKept

(* PrunableHalfKept: half of the hash of the prunable part is written. *)
LEMMA PrunableHalfKept ==
  ASSUME ObjectInv, OnlyTxChanges, NEW n \in Half, tx' = [tx EXCEPT !.prunable_hash[n] = original.prunable]
  PROVE  Kept /\ ObjectInv' /\ tx'.prunable_hash[n] = original.prunable
<1>1. IsTx(tx') /\ tx'.content = tx.content /\ tx'.pruned = tx.pruned
      /\ tx'.prunable_hash = [tx.prunable_hash EXCEPT ![n] = original.prunable]
      /\ tx'.hash = tx.hash /\ tx'.blob_size = tx.blob_size
      /\ tx'.hash_valid = tx.hash_valid /\ tx'.prunable_hash_valid = tx.prunable_hash_valid
      /\ tx'.blob_size_valid = tx.blob_size_valid
      /\ tx'.prefix_size = tx.prefix_size /\ tx'.unprunable_size = tx.unprunable_size
  BY DEF ObjectInv, IsTx, TxFields, Half, IsHash
<1>2. tx'.prunable_hash[n] = original.prunable
      /\ \A m \in Half : tx.prunable_hash[m] = original.prunable => tx'.prunable_hash[m] = original.prunable
  BY <1>1 DEF ObjectInv, IsTx, IsHash, Half
<1>3. tx.prunable_hash = Whole(original.prunable) => tx'.prunable_hash = Whole(original.prunable)
  BY <1>1 DEF Whole, Half
<1>4. RightOf(tx)'
  BY <1>1, <1>3 DEF OnlyTxChanges, RightOf, ObjectInv, BlobOf
<1>5. SizesRight(tx) => SizesRight(tx')
  BY <1>1 DEF SizesRight
<1> QED
  BY <1>1, <1>2, <1>4, <1>5, TxKept

(* PrunableValidKept: the hash of the prunable part is whole when it is    *)
(* said to be valid.                                                       *)
LEMMA PrunableValidKept ==
  ASSUME ObjectInv, OnlyTxChanges, tx.prunable_hash[1] = original.prunable, tx.prunable_hash[2] = original.prunable,
         tx' = [tx EXCEPT !.prunable_hash_valid = TRUE]
  PROVE  Kept /\ ObjectInv'
<1>1. IsTx(tx') /\ tx'.content = tx.content /\ tx'.pruned = tx.pruned /\ tx'.hash = tx.hash
      /\ tx'.prunable_hash = tx.prunable_hash /\ tx'.blob_size = tx.blob_size
      /\ tx'.hash_valid = tx.hash_valid /\ tx'.prunable_hash_valid = TRUE
      /\ tx'.blob_size_valid = tx.blob_size_valid
      /\ tx'.prefix_size = tx.prefix_size /\ tx'.unprunable_size = tx.unprunable_size
  BY DEF ObjectInv, IsTx, TxFields
<1>2. tx.prunable_hash = Whole(original.prunable)
  BY HalvesMakeWhole DEF ObjectInv, IsTx
<1>3. RightOf(tx)'
  BY <1>1, <1>2 DEF OnlyTxChanges, RightOf, ObjectInv, BlobOf
<1>4. SizesRight(tx) => SizesRight(tx')
  BY <1>1 DEF SizesRight
<1> QED
  BY <1>1, <1>3, <1>4, TxKept

(* BlockHalfKept: half of the hash of the block is written. *)
LEMMA BlockHalfKept ==
  ASSUME ObjectInv, original' = original, tx' = tx, NEW n \in Half, block' = [block EXCEPT !.hash[n] = TheBlockHash]
  PROVE  Kept /\ ObjectInv' /\ block'.hash[n] = TheBlockHash
<1>1. /\ DOMAIN block' = DOMAIN block /\ IsHash(block'.hash)
      /\ block'.hash = [block.hash EXCEPT ![n] = TheBlockHash]
      /\ block'.hash_valid = block.hash_valid /\ block'.header = block.header
  BY DEF ObjectInv, IsHash, Half
<1>2. block'.hash[n] = TheBlockHash /\ \A m \in Half : block.hash[m] = TheBlockHash => block'.hash[m] = TheBlockHash
  BY <1>1 DEF ObjectInv, IsHash, Half
<1>3. block.hash = Whole(TheBlockHash) => block'.hash = Whole(TheBlockHash)
  BY <1>1 DEF Whole, Half
<1>4. TheHash' = TheHash /\ TheBlockHash' = TheBlockHash
  BY <1>1 DEF TheHash, TheBlockHash
<1>5. RightOf(tx)' /\ IsTx(tx)' /\ SameContent(tx)'
  BY DEF RightOf, ObjectInv, BlobOf, SameContent
<1> QED
  BY <1>1, <1>2, <1>3, <1>4, <1>5 DEF ObjectInv, Kept

(* BlockValidKept: the hash of the block is whole when it is said to be    *)
(* valid.                                                                  *)
LEMMA BlockValidKept ==
  ASSUME ObjectInv, original' = original, tx' = tx, block.hash[1] = TheBlockHash, block.hash[2] = TheBlockHash,
         block' = [block EXCEPT !.hash_valid = TRUE]
  PROVE  Kept /\ ObjectInv'
<1>1. /\ DOMAIN block' = DOMAIN block /\ block'.hash = block.hash
      /\ block'.hash_valid = TRUE /\ block'.header = block.header
  BY DEF ObjectInv
<1>2. block.hash = Whole(TheBlockHash)
  BY HalvesMakeWhole DEF ObjectInv
<1>3. TheHash' = TheHash /\ TheBlockHash' = TheBlockHash
  BY <1>1 DEF TheHash, TheBlockHash
<1>4. RightOf(tx)' /\ IsTx(tx)' /\ SameContent(tx)'
  BY DEF RightOf, ObjectInv, BlobOf, SameContent
<1> QED
  BY <1>1, <1>2, <1>3, <1>4 DEF ObjectInv, Kept

LeavesRight(r) == Kept /\ ObjectInv' /\ PerReader' /\ ReaderOK(r)' /\ \A q \in Reader : q # r => Passes(q)

(* StepFrame: a step of a reader is nobody else's. *)
LEMMA StepFrame ==
  ASSUME PerReader, NEW r \in Reader, NEW from, NEW to, Step(r, from, to)
  PROVE  /\ cpc[r] = from /\ cpc'[r] = to /\ ask'[r] = ask[r] /\ original' = original
         /\ DOMAIN cpc' = Reader /\ DOMAIN ask' = Reader
         /\ \A q \in Reader : q # r => cpc'[q] = cpc[q] /\ ask'[q] = ask[q]
  BY DEF PerReader, Step

(* LearnFrame: what a reader finds out is known to nobody else. *)
LEMMA LearnFrame ==
  ASSUME PerReader, NEW r \in Reader, NEW f, NEW v, Learn(r, f, v)
  PROVE  /\ DOMAIN found' = Reader /\ found'[r] = [found[r] EXCEPT ![f] = v]
         /\ \A q \in Reader : q # r => found'[q] = found[q]
  BY DEF PerReader, Learn

(* LearnedFields: finding out a value or a size forgets nothing else. *)
LEMMA LearnedFields ==
  ASSUME NEW old, IsFound(old), NEW f \in {"value", "size"}, NEW v, NEW new, new = [old EXCEPT ![f] = v]
  PROVE  /\ IsFound(new) /\ new[f] = v
         /\ new.hash = old.hash
         /\ f # "size" => new.size = old.size
  BY DEF IsFound

(* CopyRight: a copy has the transaction and what is valid of its hashes. *)
LEMMA CopyRight ==
  ASSUME NEW t, NEW old, IsTx(t), IsTx(old), RightOf(t), NEW u, u = Copied(t, old)
  PROVE  IsTx(u) /\ RightOf(u) /\ u.content = t.content /\ u.pruned = t.pruned
<1>1. /\ IsTx(u) /\ u.content = t.content /\ u.pruned = t.pruned
      /\ u.hash_valid = t.hash_valid /\ u.prunable_hash_valid = t.prunable_hash_valid
      /\ u.blob_size_valid = t.blob_size_valid
      /\ t.hash_valid => u.hash = t.hash
      /\ t.prunable_hash_valid => u.prunable_hash = t.prunable_hash
      /\ t.blob_size_valid => u.blob_size = t.blob_size
  BY DEF IsTx, TxFields, Copied, Taken
<1> QED
  BY <1>1 DEF RightOf, BlobOf


(* LoadFlagGood: get_transaction_hash finds the flag set or not. *)
LEMMA LoadFlagGood ==
  ASSUME CacheInv, NEW r \in Reader, LoadFlag(r)
  PROVE  LeavesRight(r)
<1> ObjectInv /\ PerReader /\ ReaderOK(r)
  BY DEF CacheInv
<1>1. /\ cpc[r] = "hash?" /\ cpc'[r] = (IF tx.hash_valid THEN "read 1" ELSE "serialize") /\ ask'[r] = ask[r] /\ original' = original
      /\ DOMAIN cpc' = Reader /\ DOMAIN ask' = Reader
      /\ \A q \in Reader : q # r => cpc'[q] = cpc[q] /\ ask'[q] = ask[q]
  BY StepFrame DEF LoadFlag
<1>2. tx' = tx /\ block' = block /\ found' = found
  BY DEF LoadFlag
<1>3. Kept /\ ObjectInv'
  BY <1>1, <1>2, Untouched DEF OnlyTxChanges
<1>4. ReaderOK(r)'
  BY <1>1, <1>2 DEF CacheInv, ReaderOK, AskedFor, HashOK, PrunableOK, BlockOK, AnswerOK, ForTx, ForHash, ForBlock, ForPrunable
<1> QED
  BY <1>1, <1>2, <1>3, <1>4 DEF LeavesRight, PerReader, Passes

(* RefusePrunedGood: a pruned transaction has no hash to compute. *)
LEMMA RefusePrunedGood ==
  ASSUME CacheInv, NEW r \in Reader, RefusePruned(r)
  PROVE  LeavesRight(r)
<1> ObjectInv /\ PerReader /\ ReaderOK(r)
  BY DEF CacheInv
<1>1. /\ cpc[r] = "serialize" /\ cpc'[r] = "failed" /\ ask'[r] = ask[r] /\ original' = original
      /\ DOMAIN cpc' = Reader /\ DOMAIN ask' = Reader
      /\ \A q \in Reader : q # r => cpc'[q] = cpc[q] /\ ask'[q] = ask[q]
  BY StepFrame DEF RefusePruned, Fails
<1>2. tx' = tx /\ block' = block /\ found' = found
  BY DEF RefusePruned, Fails
<1>3. Kept /\ ObjectInv'
  BY <1>1, <1>2, Untouched DEF OnlyTxChanges
<1>4. ReaderOK(r)'
  BY <1>1, <1>2 DEF CacheInv, ReaderOK, AskedFor, HashOK, PrunableOK, BlockOK, AnswerOK, ForTx, ForHash, ForBlock, ForPrunable
<1> QED
  BY <1>1, <1>2, <1>3, <1>4 DEF LeavesRight, PerReader, Passes

(* RefuseVersion1Good: a transaction of version 1 has no pruned hash. *)
LEMMA RefuseVersion1Good ==
  ASSUME CacheInv, NEW r \in Reader, RefuseVersion1(r)
  PROVE  LeavesRight(r)
<1> ObjectInv /\ PerReader /\ ReaderOK(r)
  BY DEF CacheInv
<1>1. /\ cpc[r] = "three hashes" /\ cpc'[r] = "failed" /\ ask'[r] = ask[r] /\ original' = original
      /\ DOMAIN cpc' = Reader /\ DOMAIN ask' = Reader
      /\ \A q \in Reader : q # r => cpc'[q] = cpc[q] /\ ask'[q] = ask[q]
  BY StepFrame DEF RefuseVersion1, Fails
<1>2. tx' = tx /\ block' = block /\ found' = found
  BY DEF RefuseVersion1, Fails
<1>3. Kept /\ ObjectInv'
  BY <1>1, <1>2, Untouched DEF OnlyTxChanges
<1>4. ReaderOK(r)'
  BY <1>1, <1>2 DEF CacheInv, ReaderOK, AskedFor, HashOK, PrunableOK, BlockOK, AnswerOK, ForTx, ForHash, ForBlock, ForPrunable
<1> QED
  BY <1>1, <1>2, <1>3, <1>4 DEF LeavesRight, PerReader, Passes

(* GaveUpGood: a reader that failed asks no more. *)
LEMMA GaveUpGood ==
  ASSUME CacheInv, NEW r \in Reader, GaveUp(r)
  PROVE  LeavesRight(r)
<1> ObjectInv /\ PerReader /\ ReaderOK(r)
  BY DEF CacheInv
<1>1. /\ cpc[r] = "failed" /\ cpc'[r] = "idle" /\ ask'[r] = ask[r] /\ original' = original
      /\ DOMAIN cpc' = Reader /\ DOMAIN ask' = Reader
      /\ \A q \in Reader : q # r => cpc'[q] = cpc[q] /\ ask'[q] = ask[q]
  BY StepFrame DEF GaveUp
<1>2. tx' = tx /\ block' = block /\ found' = found
  BY DEF GaveUp
<1>3. Kept /\ ObjectInv'
  BY <1>1, <1>2, Untouched DEF OnlyTxChanges
<1>4. ReaderOK(r)'
  BY <1>1, <1>2 DEF CacheInv, ReaderOK, AskedFor, HashOK, PrunableOK, BlockOK, AnswerOK, ForTx, ForHash, ForBlock, ForPrunable
<1> QED
  BY <1>1, <1>2, <1>3, <1>4 DEF LeavesRight, PerReader, Passes

(* ReadFirstGood: a reader that saw the flag takes half of the right hash. *)
LEMMA ReadFirstGood ==
  ASSUME CacheInv, NEW r \in Reader, ReadHalf(r, 1)
  PROVE  LeavesRight(r)
<1> ObjectInv /\ PerReader /\ ReaderOK(r)
  BY DEF CacheInv
<1>1. /\ cpc[r] = "read 1" /\ cpc'[r] = "read 2" /\ ask'[r] = ask[r] /\ original' = original
      /\ DOMAIN cpc' = Reader /\ DOMAIN ask' = Reader
      /\ \A q \in Reader : q # r => cpc'[q] = cpc[q] /\ ask'[q] = ask[q]
  BY StepFrame DEF ReadHalf, Half
<1>2. tx' = tx /\ block' = block
  BY DEF ReadHalf
<1>3. Kept /\ ObjectInv'
  BY <1>1, <1>2, Untouched DEF OnlyTxChanges
<1>4. /\ DOMAIN found' = Reader /\ \A q \in Reader : q # r => found'[q] = found[q]
      /\ found'[r] = [found[r] EXCEPT !.hash[1] = tx.hash[1]]
  BY DEF ReadHalf, PerReader
<1>5. IsFound(found[r]) /\ tx.hash_valid /\ tx.hash[1] = TheHash
  BY <1>1 DEF CacheInv, ReaderOK, AskedFor, HashOK, PrunableOK, BlockOK, AnswerOK, ForTx, ForHash, ForBlock, ForPrunable, ObjectInv, RightOf, TheHash, Whole, Half
<1>6. IsFound(found'[r]) /\ found'[r].hash[1] = TheHash
  BY <1>4, <1>5 DEF IsFound, IsHash, Half
<1>7. TheHash' = TheHash
  BY <1>1 DEF TheHash
<1>8. ReaderOK(r)'
  BY <1>1, <1>2, <1>5, <1>6, <1>7 DEF CacheInv, ReaderOK, AskedFor, HashOK, PrunableOK, BlockOK, AnswerOK, ForTx, ForHash, ForBlock, ForPrunable
<1> QED
  BY <1>1, <1>2, <1>3, <1>8, <1>4 DEF LeavesRight, PerReader, Passes

(* ReadSecondGood: what it takes next is the other half of the same hash. *)
LEMMA ReadSecondGood ==
  ASSUME CacheInv, NEW r \in Reader, ReadHalf(r, 2)
  PROVE  LeavesRight(r)
<1> ObjectInv /\ PerReader /\ ReaderOK(r)
  BY DEF CacheInv
<1>1. /\ cpc[r] = "read 2" /\ cpc'[r] = (IF ask[r].size THEN "size?" ELSE "got") /\ ask'[r] = ask[r] /\ original' = original
      /\ DOMAIN cpc' = Reader /\ DOMAIN ask' = Reader
      /\ \A q \in Reader : q # r => cpc'[q] = cpc[q] /\ ask'[q] = ask[q]
  <2>1. 2 # 1
    OBVIOUS
  <2> QED
    BY <2>1 DEF ReadHalf, Half, Step, PerReader
<1>2. tx' = tx /\ block' = block
  BY DEF ReadHalf
<1>3. Kept /\ ObjectInv'
  BY <1>1, <1>2, Untouched DEF OnlyTxChanges
<1>4. /\ DOMAIN found' = Reader /\ \A q \in Reader : q # r => found'[q] = found[q]
      /\ found'[r] = [found[r] EXCEPT !.hash[2] = tx.hash[2]]
  BY DEF ReadHalf, PerReader
<1>5. IsFound(found[r]) /\ tx.hash_valid /\ tx.hash[2] = TheHash /\ found[r].hash[1] = TheHash
  BY <1>1 DEF CacheInv, ReaderOK, AskedFor, HashOK, PrunableOK, BlockOK, AnswerOK, ForTx, ForHash, ForBlock, ForPrunable, ObjectInv, RightOf, TheHash, Whole, Half
<1>6. IsFound(found'[r]) /\ found'[r].hash = Whole(TheHash)
  <2>1. IsFound(found'[r]) /\ found'[r].hash[1] = TheHash /\ found'[r].hash[2] = TheHash
    BY <1>4, <1>5 DEF IsFound, IsHash, Half
  <2> QED
    BY <2>1, HalvesMakeWhole DEF IsFound
<1>7. TheHash' = TheHash
  BY <1>1 DEF TheHash
<1>8. ReaderOK(r)'
  BY <1>1, <1>2, <1>5, <1>6, <1>7 DEF CacheInv, ReaderOK, AskedFor, HashOK, PrunableOK, BlockOK, AnswerOK, ForTx, ForHash, ForBlock, ForPrunable
<1> QED
  BY <1>1, <1>2, <1>3, <1>8, <1>4 DEF LeavesRight, PerReader, Passes

(* SerializeGood: the transaction is saved. *)
LEMMA SerializeGood ==
  ASSUME CacheInv, NEW r \in Reader, Serialize(r)
  PROVE  LeavesRight(r)
<1> ObjectInv /\ PerReader /\ ReaderOK(r)
  BY DEF CacheInv
<1>1. /\ cpc[r] = "serialize" /\ cpc'[r] = "sizes" /\ ask'[r] = ask[r] /\ original' = original
      /\ DOMAIN cpc' = Reader /\ DOMAIN ask' = Reader
      /\ \A q \in Reader : q # r => cpc'[q] = cpc[q] /\ ask'[q] = ask[q]
  BY StepFrame DEF Serialize
<1>2. tx' = Sized(tx) /\ block' = block /\ found' = found /\ ~tx.pruned
  BY DEF Serialize
<1>3. Kept /\ ObjectInv' /\ SizesRight(tx)'
  BY <1>1, <1>2, SizedKept DEF OnlyTxChanges
<1>4. ReaderOK(r)'
  BY <1>1, <1>2, <1>3 DEF CacheInv, ReaderOK, AskedFor, HashOK, PrunableOK, BlockOK, AnswerOK, ForTx, ForHash, ForBlock, ForPrunable, Kept
<1> QED
  BY <1>1, <1>2, <1>3, <1>4 DEF LeavesRight, PerReader, Passes

(* LoadSizesGood: the sizes read after that are right whoever wrote them. *)
LEMMA LoadSizesGood ==
  ASSUME CacheInv, NEW r \in Reader, LoadSizes(r)
  PROVE  LeavesRight(r)
<1> ObjectInv /\ PerReader /\ ReaderOK(r)
  BY DEF CacheInv
<1>1. /\ cpc[r] = "sizes" /\ cpc'[r] = "calculate" /\ ask'[r] = ask[r] /\ original' = original
      /\ DOMAIN cpc' = Reader /\ DOMAIN ask' = Reader
      /\ \A q \in Reader : q # r => cpc'[q] = cpc[q] /\ ask'[q] = ask[q]
  BY StepFrame DEF LoadSizes
<1>2. tx' = tx /\ block' = block
  BY DEF LoadSizes
<1>3. Kept /\ ObjectInv'
  BY <1>1, <1>2, Untouched DEF OnlyTxChanges
<1>4. /\ DOMAIN found' = Reader /\ \A q \in Reader : q # r => found'[q] = found[q]
      /\ found'[r] = [found[r] EXCEPT !.prefix_size = tx.prefix_size, !.unprunable_size = tx.unprunable_size]
  BY DEF LoadSizes, PerReader
<1>5. IsFound(found[r]) /\ SizesRight(tx) /\ ~tx.pruned
  BY <1>1 DEF CacheInv, ReaderOK, AskedFor, HashOK, PrunableOK, BlockOK, AnswerOK, ForTx, ForHash, ForBlock, ForPrunable
<1>6. IsFound(found'[r]) /\ SizesRight(found[r])'
  BY <1>1, <1>4, <1>5 DEF IsFound, SizesRight
<1>7. ReaderOK(r)'
  BY <1>1, <1>2, <1>5, <1>6 DEF CacheInv, ReaderOK, AskedFor, HashOK, PrunableOK, BlockOK, AnswerOK, ForTx, ForHash, ForBlock, ForPrunable
<1> QED
  BY <1>1, <1>2, <1>3, <1>7, <1>4 DEF LeavesRight, PerReader, Passes

(* CalculateGood: the hash computed with the sizes that were read is       *)
(* right.                                                                  *)
LEMMA CalculateGood ==
  ASSUME CacheInv, NEW r \in Reader, Calculate(r)
  PROVE  LeavesRight(r)
<1> ObjectInv /\ PerReader /\ ReaderOK(r)
  BY DEF CacheInv
<1>1. /\ cpc[r] = "calculate" /\ cpc'[r] = (IF ask[r].size THEN "size of blob?" ELSE "write 1") /\ ask'[r] = ask[r] /\ original' = original
      /\ DOMAIN cpc' = Reader /\ DOMAIN ask' = Reader
      /\ \A q \in Reader : q # r => cpc'[q] = cpc[q] /\ ask'[q] = ask[q]
  BY StepFrame DEF Calculate
<1>2. tx' = tx /\ block' = block
  BY DEF Calculate
<1>3. Kept /\ ObjectInv'
  BY <1>1, <1>2, Untouched DEF OnlyTxChanges
<1>4. IsFound(found[r]) /\ SizesRight(found[r]) /\ ~tx.pruned
  BY <1>1 DEF CacheInv, ReaderOK, AskedFor, HashOK, PrunableOK, BlockOK, AnswerOK, ForTx, ForHash, ForBlock, ForPrunable
<1>5. /\ DOMAIN found' = Reader /\ \A q \in Reader : q # r => found'[q] = found[q]
      /\ found'[r] = [found[r] EXCEPT !.value = TheHash]
  <2> DEFINE p == found[r].prefix_size
  <2> DEFINE u == found[r].unprunable_size
  <2> DEFINE blob == Blob(tx.content)
  <2> DEFINE value == TxHash(tx.content, SubSeq(blob, p + 1, u), SubSeq(blob, u + 1, Len(blob)))
  <2>1. Learn(r, "value", value)
    BY DEF Calculate
  <2>2. tx.content = original /\ original \in TransactionType
    BY <1>4 DEF ObjectInv, SameContent
  <2>3. p = Len(original.prefix) /\ u = Len(original.prefix) + Len(original.base)
    BY <1>4 DEF SizesRight
  <2>4. value = TheHash
    BY <2>2, <2>3, HashComputed DEF TheHash
  <2> HIDE DEF value
  <2> QED
    BY <2>1, <2>4 DEF Learn, PerReader
<1>6. IsFound(found'[r]) /\ found'[r].value = TheHash
  BY <1>5, <1>4 DEF IsFound
<1>7. TheHash' = TheHash
  BY <1>1 DEF TheHash
<1>8. ReaderOK(r)'
  BY <1>1, <1>2, <1>4, <1>6, <1>7 DEF CacheInv, ReaderOK, AskedFor, HashOK, PrunableOK, BlockOK, AnswerOK, ForTx, ForHash, ForBlock, ForPrunable
<1> QED
  BY <1>1, <1>2, <1>3, <1>8, <1>5 DEF LeavesRight, PerReader, Passes

(* SizeOfBlobGood: the size found with the hash is that of the blob. *)
LEMMA SizeOfBlobGood ==
  ASSUME CacheInv, NEW r \in Reader, SizeOfBlob(r)
  PROVE  LeavesRight(r)
<1> ObjectInv /\ PerReader /\ ReaderOK(r)
  BY DEF CacheInv
<1>1. /\ cpc[r] = "size of blob?" /\ cpc'[r] = "write 1" /\ ask'[r] = ask[r] /\ original' = original
      /\ DOMAIN cpc' = Reader /\ DOMAIN ask' = Reader
      /\ \A q \in Reader : q # r => cpc'[q] = cpc[q] /\ ask'[q] = ask[q]
  BY StepFrame DEF SizeOfBlob
<1>2. IsFound(found[r]) /\ found[r].value = TheHash /\ ~tx.pruned /\ ask[r].size
  BY <1>1 DEF CacheInv, ReaderOK, AskedFor, HashOK, PrunableOK, BlockOK, AnswerOK, ForTx, ForHash, ForBlock, ForPrunable
<1>3. /\ block' = block
      /\ tx' = tx \/ tx' = [tx EXCEPT !.blob_size = Len(BlobOf(tx)), !.blob_size_valid = TRUE]
      /\ Learn(r, "size", Len(BlobOf(tx)))
  <2> DEFINE new == IF tx.content.version = 1 \/ tx.blob_size_valid THEN tx
                ELSE [tx EXCEPT !.blob_size = Len(Blob(tx.content)), !.blob_size_valid = TRUE]
  <2> DEFINE size == IF tx.content.version = 1 THEN Len(Blob(tx.content)) ELSE new.blob_size
  <2>1. tx' = new /\ Learn(r, "size", size) /\ block' = block
    BY DEF SizeOfBlob
  <2>2. BlobOf(tx) = Blob(tx.content)
    BY <1>2 DEF BlobOf
  <2>3. size = Len(BlobOf(tx))
    BY <2>2 DEF ObjectInv, RightOf, IsTx, TxFields
  <2> HIDE DEF size
  <2> QED
    BY <2>1, <2>2, <2>3
<1>4. Kept /\ ObjectInv'
  BY <1>1, <1>3, Untouched, SizeKept DEF OnlyTxChanges
<1>5. /\ DOMAIN found' = Reader /\ \A q \in Reader : q # r => found'[q] = found[q]
      /\ found'[r] = [found[r] EXCEPT !.size = Len(BlobOf(tx))]
  BY <1>3 DEF Learn, PerReader
<1>6. IsFound(found'[r]) /\ found'[r].size = Len(BlobOf(tx)) /\ found'[r].value = TheHash
  BY <1>5, <1>2 DEF IsFound
<1>7. TheHash' = TheHash /\ BlobOf(tx)' = BlobOf(tx)
  BY <1>1, <1>4 DEF TheHash, Kept, BlobOf
<1>8. ReaderOK(r)'
  BY <1>1, <1>2, <1>6, <1>7 DEF CacheInv, ReaderOK, AskedFor, HashOK, PrunableOK, BlockOK, AnswerOK, ForTx, ForHash, ForBlock, ForPrunable
<1> QED
  BY <1>1, <1>3, <1>4, <1>8, <1>5 DEF LeavesRight, PerReader, Passes

(* WriteFirstGood: the first half of the hash is written, where others may *)
(* read it.                                                                *)
LEMMA WriteFirstGood ==
  ASSUME CacheInv, NEW r \in Reader, WriteHalf(r, 1)
  PROVE  LeavesRight(r)
<1> ObjectInv /\ PerReader /\ ReaderOK(r)
  BY DEF CacheInv
<1>1. /\ cpc[r] = "write 1" /\ cpc'[r] = "write 2" /\ ask'[r] = ask[r] /\ original' = original
      /\ DOMAIN cpc' = Reader /\ DOMAIN ask' = Reader
      /\ \A q \in Reader : q # r => cpc'[q] = cpc[q] /\ ask'[q] = ask[q]
  <2>1. 2 # 1
    OBVIOUS
  <2> QED
    BY <2>1 DEF WriteHalf, Half, Step, PerReader
<1>2. found[r].value = TheHash
  BY <1>1 DEF CacheInv, ReaderOK, AskedFor, HashOK, PrunableOK, BlockOK, AnswerOK, ForTx, ForHash, ForBlock, ForPrunable
<1>3. tx' = [tx EXCEPT !.hash[1] = TheHash] /\ block' = block /\ found' = found
  BY <1>2 DEF WriteHalf
<1>4. Kept /\ ObjectInv' /\ tx'.hash[1] = TheHash
  BY <1>1, <1>3, HalfKept DEF OnlyTxChanges, Half
<1>5. tx'.hash[1] = TheHash
  BY <1>4, <1>2 DEF Kept, Half
<1>6. TheHash' = TheHash /\ BlobOf(tx)' = BlobOf(tx)
  BY <1>1, <1>4 DEF TheHash, Kept, BlobOf
<1>7. ReaderOK(r)'
  BY <1>1, <1>3, <1>4, <1>2, <1>5, <1>6 DEF CacheInv, ReaderOK, AskedFor, HashOK, PrunableOK, BlockOK, AnswerOK, ForTx, ForHash, ForBlock, ForPrunable
<1> QED
  BY <1>1, <1>3, <1>4, <1>7 DEF LeavesRight, PerReader, Passes

(* WriteSecondGood: after the second half the hash is whole, though not    *)
(* yet valid.                                                              *)
LEMMA WriteSecondGood ==
  ASSUME CacheInv, NEW r \in Reader, WriteHalf(r, 2)
  PROVE  LeavesRight(r)
<1> ObjectInv /\ PerReader /\ ReaderOK(r)
  BY DEF CacheInv
<1>1. /\ cpc[r] = "write 2" /\ cpc'[r] = "set valid" /\ ask'[r] = ask[r] /\ original' = original
      /\ DOMAIN cpc' = Reader /\ DOMAIN ask' = Reader
      /\ \A q \in Reader : q # r => cpc'[q] = cpc[q] /\ ask'[q] = ask[q]
  <2>1. 2 # 1
    OBVIOUS
  <2> QED
    BY <2>1 DEF WriteHalf, Half, Step, PerReader
<1>2. found[r].value = TheHash /\ tx.hash[1] = TheHash
  BY <1>1 DEF CacheInv, ReaderOK, AskedFor, HashOK, PrunableOK, BlockOK, AnswerOK, ForTx, ForHash, ForBlock, ForPrunable
<1>3. tx' = [tx EXCEPT !.hash[2] = TheHash] /\ block' = block /\ found' = found
  BY <1>2 DEF WriteHalf
<1>4. Kept /\ ObjectInv' /\ tx'.hash[2] = TheHash
  BY <1>1, <1>3, HalfKept DEF OnlyTxChanges, Half
<1>5. tx'.hash[1] = TheHash
  BY <1>4, <1>2 DEF Kept, Half
<1>6. TheHash' = TheHash /\ BlobOf(tx)' = BlobOf(tx)
  BY <1>1, <1>4 DEF TheHash, Kept, BlobOf
<1>7. ReaderOK(r)'
  BY <1>1, <1>3, <1>4, <1>2, <1>5, <1>6 DEF CacheInv, ReaderOK, AskedFor, HashOK, PrunableOK, BlockOK, AnswerOK, ForTx, ForHash, ForBlock, ForPrunable
<1> QED
  BY <1>1, <1>3, <1>4, <1>7 DEF LeavesRight, PerReader, Passes

(* SetValidGood: the flag is set when both halves are there. *)
LEMMA SetValidGood ==
  ASSUME CacheInv, NEW r \in Reader, SetValid(r)
  PROVE  LeavesRight(r)
<1> ObjectInv /\ PerReader /\ ReaderOK(r)
  BY DEF CacheInv
<1>1. /\ cpc[r] = "set valid" /\ cpc'[r] = (IF ask[r].size THEN "set size" ELSE "got") /\ ask'[r] = ask[r] /\ original' = original
      /\ DOMAIN cpc' = Reader /\ DOMAIN ask' = Reader
      /\ \A q \in Reader : q # r => cpc'[q] = cpc[q] /\ ask'[q] = ask[q]
  <2>1. 2 # 1
    OBVIOUS
  <2> QED
    BY <2>1 DEF SetValid, Step, PerReader
<1>2. /\ found[r].value = TheHash /\ tx.hash[1] = TheHash /\ tx.hash[2] = TheHash /\ IsFound(found[r]) 
      /\ ask[r].size => found[r].size = Len(BlobOf(tx))
  BY <1>1 DEF CacheInv, ReaderOK, AskedFor, HashOK, PrunableOK, BlockOK, AnswerOK, ForTx, ForHash, ForBlock, ForPrunable
<1>3. tx' = [tx EXCEPT !.hash_valid = TRUE] /\ block' = block
  BY DEF SetValid
<1>4. Kept /\ ObjectInv'
  BY <1>1, <1>3, <1>2, ValidKept DEF OnlyTxChanges
<1>5. /\ DOMAIN found' = Reader /\ \A q \in Reader : q # r => found'[q] = found[q]
      /\ found'[r] = [found[r] EXCEPT !.hash = Whole(TheHash)]
  BY <1>2 DEF SetValid, PerReader
<1>6. IsFound(found'[r]) /\ found'[r].hash = Whole(TheHash) /\ found'[r].size = found[r].size
  BY <1>5, <1>2 DEF IsFound, IsHash, Whole
<1>7. TheHash' = TheHash /\ BlobOf(tx)' = BlobOf(tx)
  BY <1>1, <1>4 DEF TheHash, Kept, BlobOf
<1>8. ReaderOK(r)'
  BY <1>1, <1>2, <1>6, <1>7 DEF CacheInv, ReaderOK, AskedFor, HashOK, PrunableOK, BlockOK, AnswerOK, ForTx, ForHash, ForBlock, ForPrunable
<1> QED
  BY <1>1, <1>3, <1>4, <1>8, <1>5 DEF LeavesRight, PerReader, Passes

(* SetSizeGood: the size is stored with its flag. *)
LEMMA SetSizeGood ==
  ASSUME CacheInv, NEW r \in Reader, SetSize(r)
  PROVE  LeavesRight(r)
<1> ObjectInv /\ PerReader /\ ReaderOK(r)
  BY DEF CacheInv
<1>1. /\ cpc[r] = "set size" /\ cpc'[r] = "got" /\ ask'[r] = ask[r] /\ original' = original
      /\ DOMAIN cpc' = Reader /\ DOMAIN ask' = Reader
      /\ \A q \in Reader : q # r => cpc'[q] = cpc[q] /\ ask'[q] = ask[q]
  BY StepFrame DEF SetSize
<1>2. found[r].hash = Whole(TheHash) /\ IsFound(found[r]) /\ found[r].size = Len(BlobOf(tx))
  BY <1>1 DEF CacheInv, ReaderOK, AskedFor, HashOK, PrunableOK, BlockOK, AnswerOK, ForTx, ForHash, ForBlock, ForPrunable
<1>3. tx' = [tx EXCEPT !.blob_size = found[r].size, !.blob_size_valid = TRUE] /\ block' = block /\ found' = found
  BY DEF SetSize
<1>4. Kept /\ ObjectInv'
  BY <1>1, <1>3, <1>2, SizeKept DEF OnlyTxChanges
<1>5. TheHash' = TheHash /\ BlobOf(tx)' = BlobOf(tx)
  BY <1>1, <1>4 DEF TheHash, Kept, BlobOf
<1>6. ReaderOK(r)'
  BY <1>1, <1>3, <1>2, <1>5 DEF CacheInv, ReaderOK, AskedFor, HashOK, PrunableOK, BlockOK, AnswerOK, ForTx, ForHash, ForBlock, ForPrunable
<1> QED
  BY <1>1, <1>3, <1>4, <1>6 DEF LeavesRight, PerReader, Passes

(* GotGood: the transaction's hash is the answer. *)
LEMMA GotGood ==
  ASSUME CacheInv, NEW r \in Reader, Got(r)
  PROVE  LeavesRight(r)
<1> ObjectInv /\ PerReader /\ ReaderOK(r)
  BY DEF CacheInv
<1>1. /\ cpc[r] = "got" /\ cpc'[r] = "answered" /\ ask'[r] = ask[r] /\ original' = original
      /\ DOMAIN cpc' = Reader /\ DOMAIN ask' = Reader
      /\ \A q \in Reader : q # r => cpc'[q] = cpc[q] /\ ask'[q] = ask[q]
  BY StepFrame DEF Got
<1>2. /\ found[r].hash = Whole(TheHash) /\ ask[r].what \in {"tx", "pruned"}
      /\ ask[r].size => found[r].size = Len(BlobOf(tx))
  BY <1>1 DEF CacheInv, ReaderOK, AskedFor, HashOK, PrunableOK, BlockOK, AnswerOK, ForTx, ForHash, ForBlock, ForPrunable, Got
<1>3. tx' = tx /\ block' = block /\ found' = found
  BY DEF Got
<1>4. Kept /\ ObjectInv'
  BY <1>1, <1>3, Untouched DEF OnlyTxChanges
<1>5. Answer(r)'
  BY <1>1, <1>3, <1>2 DEF Answer, TheHash
<1>6. ReaderOK(r)'
  BY <1>1, <1>3, <1>2, <1>5 DEF CacheInv, ReaderOK, AskedFor, HashOK, PrunableOK, BlockOK, AnswerOK, ForTx, ForHash, ForBlock, ForPrunable
<1> QED
  BY <1>1, <1>3, <1>4, <1>6 DEF LeavesRight, PerReader, Passes

(* CachedSizeGood: the size of a transaction whose hash was valid. *)
LEMMA CachedSizeGood ==
  ASSUME CacheInv, NEW r \in Reader, CachedSize(r)
  PROVE  LeavesRight(r)
<1> ObjectInv /\ PerReader /\ ReaderOK(r)
  BY DEF CacheInv
<1>1. /\ cpc[r] = "size?" /\ cpc'[r] = "got" /\ ask'[r] = ask[r] /\ original' = original
      /\ DOMAIN cpc' = Reader /\ DOMAIN ask' = Reader
      /\ \A q \in Reader : q # r => cpc'[q] = cpc[q] /\ ask'[q] = ask[q]
  BY StepFrame DEF CachedSize
<1>2. found[r].hash = Whole(TheHash) /\ IsFound(found[r])
  BY <1>1 DEF CacheInv, ReaderOK, AskedFor, HashOK, PrunableOK, BlockOK, AnswerOK, ForTx, ForHash, ForBlock, ForPrunable
<1>3. /\ block' = block /\ Kept /\ ObjectInv'
      /\ tx'.blob_size = Len(BlobOf(tx))
  <2>1. CASE tx.blob_size_valid
    <3>1. tx' = tx /\ block' = block
      BY <2>1 DEF CachedSize
    <3> QED
      BY <1>1, <2>1, <3>1, Untouched DEF OnlyTxChanges, ObjectInv, RightOf
  <2>2. CASE ~tx.blob_size_valid
    <3> DEFINE u == Sized(tx)
    <3>1. tx' = [u EXCEPT !.blob_size = Len(BlobOf(tx)), !.blob_size_valid = TRUE] /\ block' = block
      BY <2>2 DEF CachedSize
    <3>2. /\ IsTx(u) /\ u.content = tx.content /\ u.pruned = tx.pruned /\ u.hash = tx.hash
          /\ u.prunable_hash = tx.prunable_hash
          /\ u.hash_valid = tx.hash_valid /\ u.prunable_hash_valid = tx.prunable_hash_valid
          /\ u.prefix_size = Len(tx.content.prefix)
          /\ u.unprunable_size = Len(tx.content.prefix) + Len(tx.content.base)
      BY DEF ObjectInv, IsTx, TxFields, Sized
    <3> HIDE DEF u
    <3>3. /\ IsTx(tx') /\ tx'.content = tx.content /\ tx'.pruned = tx.pruned /\ tx'.hash = tx.hash
          /\ tx'.prunable_hash = tx.prunable_hash /\ tx'.blob_size = Len(BlobOf(tx))
          /\ tx'.hash_valid = tx.hash_valid /\ tx'.prunable_hash_valid = tx.prunable_hash_valid
          /\ tx'.prefix_size = Len(tx.content.prefix)
          /\ tx'.unprunable_size = Len(tx.content.prefix) + Len(tx.content.base)
      BY <3>1, <3>2 DEF IsTx, TxFields
    <3>4. RightOf(tx)'
      BY <1>1, <3>3 DEF RightOf, ObjectInv, HashOf, BlobOf
    <3>5. tx.content.prefix = original.prefix /\ tx.content.base = original.base
      BY DEF ObjectInv, SameContent, TransactionType
    <3>6. SizesRight(tx')
      BY <3>3, <3>5 DEF SizesRight
    <3> QED
      BY <1>1, <3>1, <3>3, <3>4, <3>6, TxKept DEF OnlyTxChanges
  <2> QED
    BY <2>1, <2>2
<1>4. Kept /\ ObjectInv'
  BY <1>3
<1>5. /\ DOMAIN found' = Reader /\ \A q \in Reader : q # r => found'[q] = found[q]
      /\ found'[r] = [found[r] EXCEPT !.size = Len(BlobOf(tx))]
  BY <1>3 DEF CachedSize, Learn, PerReader
<1>6. IsFound(found'[r]) /\ found'[r].size = Len(BlobOf(tx)) /\ found'[r].hash = Whole(TheHash)
  BY <1>5, <1>2 DEF IsFound
<1>7. TheHash' = TheHash /\ BlobOf(tx)' = BlobOf(tx)
  BY <1>1, <1>4 DEF TheHash, Kept, BlobOf
<1>8. ReaderOK(r)'
  BY <1>1, <1>2, <1>6, <1>7 DEF CacheInv, ReaderOK, AskedFor, HashOK, PrunableOK, BlockOK, AnswerOK, ForTx, ForHash, ForBlock, ForPrunable
<1> QED
  BY <1>1, <1>3, <1>4, <1>8, <1>5 DEF LeavesRight, PerReader, Passes

(* GotForBlockGood: the hash of the block is made of that of its miner     *)
(* transaction.                                                            *)
LEMMA GotForBlockGood ==
  ASSUME CacheInv, NEW r \in Reader, GotForBlock(r)
  PROVE  LeavesRight(r)
<1> ObjectInv /\ PerReader /\ ReaderOK(r)
  BY DEF CacheInv
<1>1. /\ cpc[r] = "got" /\ cpc'[r] = (IF block.header \in Refused THEN "failed" ELSE "block write 1") /\ ask'[r] = ask[r] /\ original' = original
      /\ DOMAIN cpc' = Reader /\ DOMAIN ask' = Reader
      /\ \A q \in Reader : q # r => cpc'[q] = cpc[q] /\ ask'[q] = ask[q]
  BY StepFrame DEF GotForBlock
<1>2. tx' = tx /\ block' = block
  BY DEF GotForBlock
<1>3. Kept /\ ObjectInv'
  BY <1>1, <1>2, Untouched DEF OnlyTxChanges
<1>4. IsFound(found[r]) /\ found[r].hash[1] = TheHash /\ ask[r].what = "block"
  BY <1>1, ZenonT(60) DEF CacheInv, ReaderOK, AskedFor, HashOK, PrunableOK, BlockOK, AnswerOK, ForTx, ForHash, ForBlock, ForPrunable, Whole, Half, GotForBlock
<1>5. /\ DOMAIN found' = Reader /\ \A q \in Reader : q # r => found'[q] = found[q]
      /\ found'[r] = [found[r] EXCEPT !.value = TheBlockHash]
  BY <1>4 DEF GotForBlock, Learn, PerReader, TheBlockHash
<1>6. IsFound(found'[r]) /\ found'[r].value = TheBlockHash
  BY <1>5, <1>4 DEF IsFound
<1>7. TheBlockHash' = TheBlockHash
  BY <1>1, <1>2 DEF TheBlockHash, TheHash
<1>8. ReaderOK(r)'
  BY <1>1, <1>4, <1>6, <1>7 DEF CacheInv, ReaderOK, AskedFor, HashOK, PrunableOK, BlockOK, AnswerOK, ForTx, ForHash, ForBlock, ForPrunable
<1> QED
  BY <1>1, <1>2, <1>3, <1>8, <1>5 DEF LeavesRight, PerReader, Passes

(* PrunableGood: the prunable part is cut out of the blob or saved. *)
LEMMA PrunableGood ==
  ASSUME CacheInv, NEW r \in Reader, NEW withBlob \in BOOLEAN, Prunable(r, withBlob)
  PROVE  LeavesRight(r)
<1> ObjectInv /\ PerReader /\ ReaderOK(r)
  BY DEF CacheInv
<1>1. /\ cpc[r] = "prunable?" /\ cpc'[r] = (IF tx.content.version = 1 \/ tx.pruned THEN "failed" ELSE "write prunable 1") /\ ask'[r] = ask[r] /\ original' = original
      /\ DOMAIN cpc' = Reader /\ DOMAIN ask' = Reader
      /\ \A q \in Reader : q # r => cpc'[q] = cpc[q] /\ ask'[q] = ask[q]
  BY StepFrame, ZenonT(60) DEF Prunable
<1>2. block' = block /\ tx' = (IF withBlob THEN Sized(tx) ELSE tx)
  BY DEF Prunable
<1>3. Kept /\ ObjectInv' /\ (withBlob => SizesRight(tx)')
  BY <1>1, <1>2, Untouched, SizedKept DEF OnlyTxChanges
<1>4. IsFound(found[r]) /\ ask[r].what = "prunable"
  BY <1>1 DEF CacheInv, ReaderOK, AskedFor, HashOK, PrunableOK, BlockOK, AnswerOK, ForTx, ForHash, ForBlock, ForPrunable
<1>5. /\ DOMAIN found' = Reader /\ \A q \in Reader : q # r => found'[q] = found[q]
      /\ IsFound(found'[r]) /\ (~tx.pruned => found'[r].value = original.prunable)
  <2> DEFINE blob == Blob(tx.content)
  <2> DEFINE u == tx'.unprunable_size
  <2> DEFINE v == IF withBlob THEN SubSeq(blob, u + 1, Len(blob)) ELSE tx.content.prunable
  <2>1. Learn(r, "value", v)
    BY DEF Prunable
  <2>2. ~tx.pruned => tx.content = original /\ original \in TransactionType
    BY DEF ObjectInv, SameContent
  <2>3. withBlob => u = Len(original.prefix) + Len(original.base)
    BY <1>1, <1>3 DEF SizesRight
  <2>4. ~tx.pruned => v = original.prunable
    BY <2>2, <2>3, HashComputed
  <2> HIDE DEF v
  <2>5. /\ DOMAIN found' = Reader /\ \A q \in Reader : q # r => found'[q] = found[q]
      /\ found'[r] = [found[r] EXCEPT !.value = v]
    BY <2>1 DEF Learn, PerReader
  <2>6. IsFound(found'[r]) /\ found'[r].value = v
    BY <1>4, <2>5 DEF IsFound
  <2> QED
    BY <2>4, <2>5, <2>6
<1>6. ReaderOK(r)'
  BY <1>1, <1>5, <1>4 DEF CacheInv, ReaderOK, AskedFor, HashOK, PrunableOK, BlockOK, AnswerOK, ForTx, ForHash, ForBlock, ForPrunable
<1> QED
  BY <1>1, <1>2, <1>3, <1>6, <1>5 DEF LeavesRight, PerReader, Passes

(* PrunableCachedGood: the valid hash of the prunable part is the answer. *)
LEMMA PrunableCachedGood ==
  ASSUME CacheInv, NEW r \in Reader, PrunableCached(r)
  PROVE  LeavesRight(r)
<1> ObjectInv /\ PerReader /\ ReaderOK(r)
  BY DEF CacheInv
<1>1. /\ cpc[r] = "prunable?" /\ cpc'[r] = "answered" /\ ask'[r] = ask[r] /\ original' = original
      /\ DOMAIN cpc' = Reader /\ DOMAIN ask' = Reader
      /\ \A q \in Reader : q # r => cpc'[q] = cpc[q] /\ ask'[q] = ask[q]
  BY StepFrame DEF PrunableCached
<1>2. tx' = tx /\ block' = block
  BY DEF PrunableCached
<1>3. Kept /\ ObjectInv'
  BY <1>1, <1>2, Untouched DEF OnlyTxChanges
<1>4. IsFound(found[r]) /\ ask[r].what = "prunable" /\ tx.prunable_hash = Whole(original.prunable)
  BY <1>1 DEF CacheInv, ReaderOK, AskedFor, HashOK, PrunableOK, BlockOK, AnswerOK, ForTx, ForHash, ForBlock, ForPrunable, PrunableCached, ObjectInv, RightOf
<1>5. /\ DOMAIN found' = Reader /\ \A q \in Reader : q # r => found'[q] = found[q]
      /\ found'[r] = [found[r] EXCEPT !.hash = Whole(original.prunable)]
  BY <1>4 DEF PrunableCached, Learn, PerReader
<1>6. found'[r].hash = Whole(original.prunable)
  BY <1>5, <1>4 DEF IsFound
<1>7. Answer(r)'
  BY <1>1, <1>4, <1>6 DEF Answer
<1>8. ReaderOK(r)'
  BY <1>1, <1>4, <1>7 DEF CacheInv, ReaderOK, AskedFor, HashOK, PrunableOK, BlockOK, AnswerOK, ForTx, ForHash, ForBlock, ForPrunable
<1> QED
  BY <1>1, <1>2, <1>3, <1>8, <1>5 DEF LeavesRight, PerReader, Passes

(* WritePrunableFirstGood: the first half of the prunable hash is written. *)
LEMMA WritePrunableFirstGood ==
  ASSUME CacheInv, NEW r \in Reader, WritePrunableHalf(r, 1)
  PROVE  LeavesRight(r)
<1> ObjectInv /\ PerReader /\ ReaderOK(r)
  BY DEF CacheInv
<1>1. /\ cpc[r] = "write prunable 1" /\ cpc'[r] = "write prunable 2" /\ ask'[r] = ask[r] /\ original' = original
      /\ DOMAIN cpc' = Reader /\ DOMAIN ask' = Reader
      /\ \A q \in Reader : q # r => cpc'[q] = cpc[q] /\ ask'[q] = ask[q]
  <2>1. 2 # 1
    OBVIOUS
  <2> QED
    BY <2>1 DEF WritePrunableHalf, Half, Step, PerReader
<1>2. found[r].value = original.prunable
  BY <1>1 DEF CacheInv, ReaderOK, AskedFor, HashOK, PrunableOK, BlockOK, AnswerOK, ForTx, ForHash, ForBlock, ForPrunable
<1>3. tx' = [tx EXCEPT !.prunable_hash[1] = original.prunable] /\ block' = block /\ found' = found
  BY <1>2 DEF WritePrunableHalf
<1>4. Kept /\ ObjectInv' /\ tx'.prunable_hash[1] = original.prunable
  BY <1>1, <1>3, PrunableHalfKept DEF OnlyTxChanges, Half
<1>5. tx'.prunable_hash[1] = original.prunable
  BY <1>4, <1>2 DEF Kept, Half
<1>6. ReaderOK(r)'
  BY <1>1, <1>3, <1>4, <1>2, <1>5 DEF CacheInv, ReaderOK, AskedFor, HashOK, PrunableOK, BlockOK, AnswerOK, ForTx, ForHash, ForBlock, ForPrunable
<1> QED
  BY <1>1, <1>3, <1>4, <1>6 DEF LeavesRight, PerReader, Passes

(* WritePrunableSecondGood: after the second half the prunable hash is     *)
(* whole.                                                                  *)
LEMMA WritePrunableSecondGood ==
  ASSUME CacheInv, NEW r \in Reader, WritePrunableHalf(r, 2)
  PROVE  LeavesRight(r)
<1> ObjectInv /\ PerReader /\ ReaderOK(r)
  BY DEF CacheInv
<1>1. /\ cpc[r] = "write prunable 2" /\ cpc'[r] = "set prunable valid" /\ ask'[r] = ask[r] /\ original' = original
      /\ DOMAIN cpc' = Reader /\ DOMAIN ask' = Reader
      /\ \A q \in Reader : q # r => cpc'[q] = cpc[q] /\ ask'[q] = ask[q]
  <2>1. 2 # 1
    OBVIOUS
  <2> QED
    BY <2>1 DEF WritePrunableHalf, Half, Step, PerReader
<1>2. found[r].value = original.prunable /\ tx.prunable_hash[1] = original.prunable
  BY <1>1 DEF CacheInv, ReaderOK, AskedFor, HashOK, PrunableOK, BlockOK, AnswerOK, ForTx, ForHash, ForBlock, ForPrunable
<1>3. tx' = [tx EXCEPT !.prunable_hash[2] = original.prunable] /\ block' = block /\ found' = found
  BY <1>2 DEF WritePrunableHalf
<1>4. Kept /\ ObjectInv' /\ tx'.prunable_hash[2] = original.prunable
  BY <1>1, <1>3, PrunableHalfKept DEF OnlyTxChanges, Half
<1>5. tx'.prunable_hash[1] = original.prunable
  BY <1>4, <1>2 DEF Kept, Half
<1>6. ReaderOK(r)'
  BY <1>1, <1>3, <1>4, <1>2, <1>5 DEF CacheInv, ReaderOK, AskedFor, HashOK, PrunableOK, BlockOK, AnswerOK, ForTx, ForHash, ForBlock, ForPrunable
<1> QED
  BY <1>1, <1>3, <1>4, <1>6 DEF LeavesRight, PerReader, Passes

(* SetPrunableValidGood: its flag is set when both halves are there. *)
LEMMA SetPrunableValidGood ==
  ASSUME CacheInv, NEW r \in Reader, SetPrunableValid(r)
  PROVE  LeavesRight(r)
<1> ObjectInv /\ PerReader /\ ReaderOK(r)
  BY DEF CacheInv
<1>1. /\ cpc[r] = "set prunable valid" /\ cpc'[r] = "answered" /\ ask'[r] = ask[r] /\ original' = original
      /\ DOMAIN cpc' = Reader /\ DOMAIN ask' = Reader
      /\ \A q \in Reader : q # r => cpc'[q] = cpc[q] /\ ask'[q] = ask[q]
  BY StepFrame DEF SetPrunableValid
<1>2. /\ found[r].value = original.prunable /\ ask[r].what = "prunable" /\ IsFound(found[r])
      /\ tx.prunable_hash[1] = original.prunable /\ tx.prunable_hash[2] = original.prunable
  BY <1>1 DEF CacheInv, ReaderOK, AskedFor, HashOK, PrunableOK, BlockOK, AnswerOK, ForTx, ForHash, ForBlock, ForPrunable
<1>3. tx' = [tx EXCEPT !.prunable_hash_valid = TRUE] /\ block' = block
  BY DEF SetPrunableValid
<1>4. Kept /\ ObjectInv'
  BY <1>1, <1>3, <1>2, PrunableValidKept DEF OnlyTxChanges
<1>5. /\ DOMAIN found' = Reader /\ \A q \in Reader : q # r => found'[q] = found[q]
      /\ found'[r] = [found[r] EXCEPT !.hash = Whole(original.prunable)]
  BY <1>2 DEF SetPrunableValid, PerReader
<1>6. found'[r].hash = Whole(original.prunable)
  BY <1>5, <1>2 DEF IsFound
<1>7. Answer(r)'
  BY <1>1, <1>2, <1>6 DEF Answer
<1>8. ReaderOK(r)'
  BY <1>1, <1>2, <1>7 DEF CacheInv, ReaderOK, AskedFor, HashOK, PrunableOK, BlockOK, AnswerOK, ForTx, ForHash, ForBlock, ForPrunable
<1> QED
  BY <1>1, <1>3, <1>4, <1>8, <1>5 DEF LeavesRight, PerReader, Passes

(* PrunedHashGood: a pruned transaction has the hash of the whole one. *)
LEMMA PrunedHashGood ==
  ASSUME CacheInv, NEW r \in Reader, PrunedHash(r)
  PROVE  LeavesRight(r)
<1> ObjectInv /\ PerReader /\ ReaderOK(r)
  BY DEF CacheInv
<1>1. /\ cpc[r] = "three hashes" /\ cpc'[r] = "write 1" /\ ask'[r] = ask[r] /\ original' = original
      /\ DOMAIN cpc' = Reader /\ DOMAIN ask' = Reader
      /\ \A q \in Reader : q # r => cpc'[q] = cpc[q] /\ ask'[q] = ask[q]
  BY StepFrame DEF PrunedHash
<1>2. tx' = tx /\ block' = block
  BY DEF PrunedHash
<1>3. Kept /\ ObjectInv'
  BY <1>1, <1>2, Untouched DEF OnlyTxChanges
<1>4. IsFound(found[r]) /\ ask[r].what = "pruned" /\ ~ask[r].size
  BY <1>1 DEF CacheInv, ReaderOK, AskedFor, HashOK, PrunableOK, BlockOK, AnswerOK, ForTx, ForHash, ForBlock, ForPrunable
<1>5. TxHash(tx.content, tx.content.base, original.prunable) = TheHash
  <2>1. tx.content.version = 2
    BY DEF PrunedHash
  <2>2. CASE ~tx.pruned
    BY <2>2 DEF ObjectInv, SameContent, TheHash, HashOf
  <2>3. CASE tx.pruned
    <3>1. /\ tx.content.prefix = original.prefix /\ tx.content.base = original.base
          /\ tx.content.prunable = <<None>> /\ original.version = 2
      BY <2>3 DEF ObjectInv, SameContent, TransactionType
    <3>2. <<None>> # << >>
      OBVIOUS
    <3>3. original.prunable # << >>
      BY <2>3 DEF ObjectInv, SameContent
    <3> QED
      BY <2>1, <3>1, <3>2, <3>3 DEF TheHash, HashOf, TxHash
  <2> QED
    BY <2>2, <2>3
<1>6. /\ DOMAIN found' = Reader /\ \A q \in Reader : q # r => found'[q] = found[q]
      /\ found'[r] = [found[r] EXCEPT !.value = TheHash]
  BY <1>5 DEF PrunedHash, Learn, PerReader
<1>7. IsFound(found'[r]) /\ found'[r].value = TheHash
  BY <1>6, <1>4 DEF IsFound
<1>8. TheHash' = TheHash
  BY <1>1 DEF TheHash
<1>9. ReaderOK(r)'
  BY <1>1, <1>4, <1>7, <1>8 DEF CacheInv, ReaderOK, AskedFor, HashOK, PrunableOK, BlockOK, AnswerOK, ForTx, ForHash, ForBlock, ForPrunable
<1> QED
  BY <1>1, <1>2, <1>3, <1>9, <1>6 DEF LeavesRight, PerReader, Passes

(* CopyGood: a copy has nothing that is not right. *)
LEMMA CopyGood ==
  ASSUME CacheInv, NEW r \in Reader, Copy(r)
  PROVE  LeavesRight(r)
<1> ObjectInv /\ PerReader /\ ReaderOK(r)
  BY DEF CacheInv
<1>1. /\ cpc[r] = "copy" /\ cpc'[r] = "answered" /\ ask'[r] = ask[r] /\ original' = original
      /\ DOMAIN cpc' = Reader /\ DOMAIN ask' = Reader
      /\ \A q \in Reader : q # r => cpc'[q] = cpc[q] /\ ask'[q] = ask[q]
  BY StepFrame DEF Copy
<1>2. tx' = tx /\ block' = block
  BY DEF Copy
<1>3. Kept /\ ObjectInv'
  BY <1>1, <1>2, Untouched DEF OnlyTxChanges
<1>4. ask[r].what = "copy" /\ ~ask[r].size
  BY <1>1 DEF CacheInv, ReaderOK, AskedFor, HashOK, PrunableOK, BlockOK, AnswerOK, ForTx, ForHash, ForBlock, ForPrunable
<1>5. /\ DOMAIN found' = Reader /\ \A q \in Reader : q # r => found'[q] = found[q]
      /\ found'[r] = Copied(tx, set_null)
  BY DEF Copy, PerReader
<1>6. IsTx(set_null)
  BY DEF IsTx, TxFields, IsHash, set_null, Unwritten, Whole, Half
<1>7. IsTx(found'[r]) /\ found'[r].pruned = tx.pruned /\ found'[r].content = tx.content /\ RightOf(found[r])'
  <2> DEFINE u == Copied(tx, set_null)
  <2>1. IsTx(u) /\ RightOf(u) /\ u.content = tx.content /\ u.pruned = tx.pruned
    BY <1>6, CopyRight DEF ObjectInv
  <2> HIDE DEF u
  <2>2. found'[r] = u
    BY <1>5 DEF u
  <2>3. RightOf(found[r])'
    BY <1>1, <2>1, <2>2 DEF RightOf, BlobOf
  <2> QED
    BY <2>1, <2>2, <2>3
<1>8. Answer(r)'
  BY <1>1, <1>2, <1>4, <1>7 DEF Answer
<1>9. ReaderOK(r)'
  BY <1>1, <1>2, <1>4, <1>7, <1>8 DEF CacheInv, ReaderOK, AskedFor, HashOK, PrunableOK, BlockOK, AnswerOK, ForTx, ForHash, ForBlock, ForPrunable
<1> QED
  BY <1>1, <1>2, <1>3, <1>9, <1>5 DEF LeavesRight, PerReader, Passes

(* BlockFlagGood: get_block_hash finds the flag set or not. *)
LEMMA BlockFlagGood ==
  ASSUME CacheInv, NEW r \in Reader, BlockFlag(r)
  PROVE  LeavesRight(r)
<1> ObjectInv /\ PerReader /\ ReaderOK(r)
  BY DEF CacheInv
<1>1. /\ cpc[r] = "block hash?" /\ cpc'[r] = (IF block.hash_valid THEN "block read" ELSE "hash?") /\ ask'[r] = ask[r] /\ original' = original
      /\ DOMAIN cpc' = Reader /\ DOMAIN ask' = Reader
      /\ \A q \in Reader : q # r => cpc'[q] = cpc[q] /\ ask'[q] = ask[q]
  BY StepFrame DEF BlockFlag
<1>2. block' = block /\ found' = found /\ tx' = (IF block.hash_valid THEN tx ELSE Sized(tx))
  BY DEF BlockFlag
<1>3. Kept /\ ObjectInv'
  BY <1>1, <1>2, Untouched, SizedKept DEF OnlyTxChanges
<1>4. ReaderOK(r)'
  BY <1>1, <1>2 DEF CacheInv, ReaderOK, AskedFor, HashOK, PrunableOK, BlockOK, AnswerOK, ForTx, ForHash, ForBlock, ForPrunable
<1> QED
  BY <1>1, <1>2, <1>3, <1>4 DEF LeavesRight, PerReader, Passes

(* BlockReadGood: the valid hash of the block is the answer. *)
LEMMA BlockReadGood ==
  ASSUME CacheInv, NEW r \in Reader, BlockRead(r)
  PROVE  LeavesRight(r)
<1> ObjectInv /\ PerReader /\ ReaderOK(r)
  BY DEF CacheInv
<1>1. /\ cpc[r] = "block read" /\ cpc'[r] = "answered" /\ ask'[r] = ask[r] /\ original' = original
      /\ DOMAIN cpc' = Reader /\ DOMAIN ask' = Reader
      /\ \A q \in Reader : q # r => cpc'[q] = cpc[q] /\ ask'[q] = ask[q]
  BY StepFrame DEF BlockRead
<1>2. tx' = tx /\ block' = block
  BY DEF BlockRead
<1>3. Kept /\ ObjectInv'
  BY <1>1, <1>2, Untouched DEF OnlyTxChanges
<1>4. /\ IsFound(found[r]) /\ ask[r].what = "block" 
      /\ block.header \notin Refused => block.hash = Whole(TheBlockHash)
  BY <1>1 DEF CacheInv, ReaderOK, AskedFor, HashOK, PrunableOK, BlockOK, AnswerOK, ForTx, ForHash, ForBlock, ForPrunable, ObjectInv
<1>5. /\ DOMAIN found' = Reader /\ \A q \in Reader : q # r => found'[q] = found[q]
      /\ found'[r] = [found[r] EXCEPT !.hash = block.hash]
  BY DEF BlockRead, Learn, PerReader
<1>6. found'[r].hash = block.hash
  BY <1>5, <1>4 DEF IsFound
<1>7. Answer(r)'
  BY <1>1, <1>2, <1>4, <1>6 DEF Answer, TheBlockHash, TheHash
<1>8. ReaderOK(r)'
  BY <1>1, <1>4, <1>7 DEF CacheInv, ReaderOK, AskedFor, HashOK, PrunableOK, BlockOK, AnswerOK, ForTx, ForHash, ForBlock, ForPrunable
<1> QED
  BY <1>1, <1>2, <1>3, <1>8, <1>5 DEF LeavesRight, PerReader, Passes

(* BlockWriteFirstGood: the first half of the block's hash is written. *)
LEMMA BlockWriteFirstGood ==
  ASSUME CacheInv, NEW r \in Reader, BlockWriteHalf(r, 1)
  PROVE  LeavesRight(r)
<1> ObjectInv /\ PerReader /\ ReaderOK(r)
  BY DEF CacheInv
<1>1. /\ cpc[r] = "block write 1" /\ cpc'[r] = "block write 2" /\ ask'[r] = ask[r] /\ original' = original
      /\ DOMAIN cpc' = Reader /\ DOMAIN ask' = Reader
      /\ \A q \in Reader : q # r => cpc'[q] = cpc[q] /\ ask'[q] = ask[q]
  <2>1. 2 # 1
    OBVIOUS
  <2> QED
    BY <2>1 DEF BlockWriteHalf, Half, Step, PerReader
<1>2. found[r].value = TheBlockHash
  BY <1>1 DEF CacheInv, ReaderOK, AskedFor, HashOK, PrunableOK, BlockOK, AnswerOK, ForTx, ForHash, ForBlock, ForPrunable
<1>3. block' = [block EXCEPT !.hash[1] = TheBlockHash] /\ tx' = tx /\ found' = found
  BY <1>2 DEF BlockWriteHalf
<1>4. Kept /\ ObjectInv' /\ block'.hash[1] = TheBlockHash
  BY <1>1, <1>3, BlockHalfKept DEF Half
<1>5. block'.hash[1] = TheBlockHash
  BY <1>4, <1>2 DEF Kept, Half
<1>6. TheBlockHash' = TheBlockHash
  BY <1>1, <1>4 DEF TheBlockHash, TheHash, Kept
<1>7. ReaderOK(r)'
  BY <1>1, <1>3, <1>4, <1>2, <1>5, <1>6 DEF CacheInv, ReaderOK, AskedFor, HashOK, PrunableOK, BlockOK, AnswerOK, ForTx, ForHash, ForBlock, ForPrunable
<1> QED
  BY <1>1, <1>3, <1>4, <1>7 DEF LeavesRight, PerReader, Passes

(* BlockWriteSecondGood: after the second half the block's hash is whole. *)
LEMMA BlockWriteSecondGood ==
  ASSUME CacheInv, NEW r \in Reader, BlockWriteHalf(r, 2)
  PROVE  LeavesRight(r)
<1> ObjectInv /\ PerReader /\ ReaderOK(r)
  BY DEF CacheInv
<1>1. /\ cpc[r] = "block write 2" /\ cpc'[r] = "block valid" /\ ask'[r] = ask[r] /\ original' = original
      /\ DOMAIN cpc' = Reader /\ DOMAIN ask' = Reader
      /\ \A q \in Reader : q # r => cpc'[q] = cpc[q] /\ ask'[q] = ask[q]
  <2>1. 2 # 1
    OBVIOUS
  <2> QED
    BY <2>1 DEF BlockWriteHalf, Half, Step, PerReader
<1>2. found[r].value = TheBlockHash /\ block.hash[1] = TheBlockHash
  BY <1>1 DEF CacheInv, ReaderOK, AskedFor, HashOK, PrunableOK, BlockOK, AnswerOK, ForTx, ForHash, ForBlock, ForPrunable
<1>3. block' = [block EXCEPT !.hash[2] = TheBlockHash] /\ tx' = tx /\ found' = found
  BY <1>2 DEF BlockWriteHalf
<1>4. Kept /\ ObjectInv' /\ block'.hash[2] = TheBlockHash
  BY <1>1, <1>3, BlockHalfKept DEF Half
<1>5. block'.hash[1] = TheBlockHash
  BY <1>4, <1>2 DEF Kept, Half
<1>6. TheBlockHash' = TheBlockHash
  BY <1>1, <1>4 DEF TheBlockHash, TheHash, Kept
<1>7. ReaderOK(r)'
  BY <1>1, <1>3, <1>4, <1>2, <1>5, <1>6 DEF CacheInv, ReaderOK, AskedFor, HashOK, PrunableOK, BlockOK, AnswerOK, ForTx, ForHash, ForBlock, ForPrunable
<1> QED
  BY <1>1, <1>3, <1>4, <1>7 DEF LeavesRight, PerReader, Passes

(* BlockValidGood: the block's flag is set when both halves are there. *)
LEMMA BlockValidGood ==
  ASSUME CacheInv, NEW r \in Reader, BlockValid(r)
  PROVE  LeavesRight(r)
<1> ObjectInv /\ PerReader /\ ReaderOK(r)
  BY DEF CacheInv
<1>1. /\ cpc[r] = "block valid" /\ cpc'[r] = "answered" /\ ask'[r] = ask[r] /\ original' = original
      /\ DOMAIN cpc' = Reader /\ DOMAIN ask' = Reader
      /\ \A q \in Reader : q # r => cpc'[q] = cpc[q] /\ ask'[q] = ask[q]
  BY StepFrame DEF BlockValid
<1>2. /\ found[r].value = TheBlockHash /\ ask[r].what = "block" /\ IsFound(found[r])
      /\ block.hash[1] = TheBlockHash /\ block.hash[2] = TheBlockHash
  BY <1>1 DEF CacheInv, ReaderOK, AskedFor, HashOK, PrunableOK, BlockOK, AnswerOK, ForTx, ForHash, ForBlock, ForPrunable
<1>3. block' = [block EXCEPT !.hash_valid = TRUE] /\ tx' = tx
  BY DEF BlockValid
<1>4. Kept /\ ObjectInv'
  BY <1>1, <1>3, <1>2, BlockValidKept
<1>5. /\ DOMAIN found' = Reader /\ \A q \in Reader : q # r => found'[q] = found[q]
      /\ found'[r] = [found[r] EXCEPT !.hash = Whole(TheBlockHash)]
  BY <1>2 DEF BlockValid, PerReader
<1>6. found'[r].hash = Whole(TheBlockHash)
  BY <1>5, <1>2 DEF IsFound
<1>7. block'.header = block.header
  BY <1>4 DEF Kept
<1>8. Answer(r)'
  BY <1>1, <1>2, <1>6, <1>7 DEF Answer, TheBlockHash, TheHash
<1>9. ReaderOK(r)'
  BY <1>1, <1>2, <1>8 DEF CacheInv, ReaderOK, AskedFor, HashOK, PrunableOK, BlockOK, AnswerOK, ForTx, ForHash, ForBlock, ForPrunable
<1> QED
  BY <1>1, <1>3, <1>4, <1>9, <1>5 DEF LeavesRight, PerReader, Passes

(* AskGood: a reader that asks knows nothing yet. *)
LEMMA AskGood ==
  ASSUME CacheInv, NEW r \in Reader, NEW what \in {"tx", "block", "prunable", "pruned", "copy"}, NEW size \in BOOLEAN, Ask(r, what, size)
  PROVE  LeavesRight(r)
<1> ObjectInv /\ PerReader /\ ReaderOK(r)
  BY DEF CacheInv
<1>1. /\ ask'[r] = [what |-> what, size |-> size] /\ original' = original
      /\ DOMAIN cpc' = Reader /\ DOMAIN ask' = Reader
      /\ \A q \in Reader : q # r => cpc'[q] = cpc[q] /\ ask'[q] = ask[q]
      /\ cpc'[r] = CASE what = "tx" -> "hash?" [] what = "block" -> "block hash?"
                     [] what = "prunable" -> "prunable?" [] what = "pruned" -> "three hashes"
                     [] what = "copy" -> "copy"
      /\ size => what \in {"tx", "block"}
  BY DEF Ask, PerReader
<1>2. tx' = tx /\ block' = block
  BY DEF Ask
<1>3. Kept /\ ObjectInv'
  BY <1>1, <1>2, Untouched DEF OnlyTxChanges
<1>4. /\ DOMAIN found' = Reader /\ \A q \in Reader : q # r => found'[q] = found[q]
      /\ found'[r] = Nothing
  BY DEF Ask, PerReader
<1>5. IsFound(Nothing)
  BY DEF IsFound, IsHash, Nothing, Unwritten, Whole
<1>6. \/ what = "tx" /\ cpc'[r] = "hash?"
      \/ what = "block" /\ cpc'[r] = "block hash?"
      \/ what = "prunable" /\ cpc'[r] = "prunable?"
      \/ what = "pruned" /\ cpc'[r] = "three hashes"
      \/ what = "copy" /\ cpc'[r] = "copy"
  BY <1>1
<1>7. ask'[r].what = what /\ (ask'[r].size => size)
  <2>1. ask'[r] = [what |-> what, size |-> size]
    BY <1>1
  <2>2. ask'[r].what = what
    BY <2>1
  <2>3. ASSUME size = FALSE PROVE ~ask'[r].size
    <3>1. ask'[r] = [what |-> what, size |-> FALSE]
      BY <2>1, <2>3
    <3> QED
      BY <3>1
  <2> QED
    BY <2>2, <2>3
<1>8. ReaderOK(r)'
  BY <1>1, <1>4, <1>5, <1>6, <1>7 DEF CacheInv, ReaderOK, AskedFor, HashOK, PrunableOK, BlockOK, AnswerOK, ForTx, ForHash, ForBlock, ForPrunable
<1> QED
  BY <1>1, <1>2, <1>3, <1>8, <1>4 DEF LeavesRight, PerReader, Passes

(* ForgottenGood: nobody reads when an owner is done, so that only the     *)
(* objects matter.                                                         *)
LEMMA ForgottenGood ==
  ASSUME Forgotten, ObjectInv'
  PROVE  CacheInv'
<1>1. PerReader' /\ \A r \in Reader : cpc'[r] = "idle"
  BY DEF Forgotten, PerReader
<1>2. ASSUME NEW r \in Reader PROVE ReaderOK(r)'
  BY <1>1 DEF ReaderOK, AskedFor, HashOK, PrunableOK, BlockOK, AnswerOK, ForTx, ForHash, ForBlock, ForPrunable
<1> QED
  BY <1>1, <1>2 DEF CacheInv

(* Invalidated: invalidate_hashes leaves a transaction without a valid     *)
(* hash.                                                                   *)
LEMMA Invalidated ==
  ASSUME NEW t, IsTx(t), NEW u, u = invalidate_hashes(t)
  PROVE  /\ IsTx(u) /\ u.content = t.content /\ u.pruned = t.pruned
         /\ ~u.hash_valid /\ ~u.prunable_hash_valid /\ ~u.blob_size_valid
  BY DEF IsTx, TxFields, invalidate_hashes

(* SizedIsTx: loading a transaction replaces what was there. *)
LEMMA SizedIsTx ==
  ASSUME NEW t, IsTx(t), NEW c
  PROVE  LET u == Sized([t EXCEPT !.content = c, !.pruned = FALSE]) IN IsTx(u) /\ u.content = c /\ u.pruned = FALSE
<1> DEFINE v == [t EXCEPT !.content = c, !.pruned = FALSE]
<1>1. IsTx(v) /\ v.content = c /\ v.pruned = FALSE
  BY DEF IsTx, TxFields
<1> HIDE DEF v
<1>2. IsTx(Sized(v)) /\ Sized(v).content = c /\ Sized(v).pruned = FALSE
  BY <1>1 DEF IsTx, TxFields, Sized
<1> QED
  BY <1>2 DEF v

(* ParsedIsTx: parsing a transaction leaves no hash of the one before. *)
LEMMA ParsedIsTx ==
  ASSUME NEW t, IsTx(t), NEW c
  PROVE  LET u == invalidate_hashes(Sized([t EXCEPT !.content = c, !.pruned = FALSE]))
         IN  /\ IsTx(u) /\ u.content = c /\ u.pruned = FALSE
             /\ ~u.hash_valid /\ ~u.prunable_hash_valid /\ ~u.blob_size_valid
<1> DEFINE v == Sized([t EXCEPT !.content = c, !.pruned = FALSE])
<1>1. IsTx(v) /\ v.content = c /\ v.pruned = FALSE
  BY SizedIsTx
<1> HIDE DEF v
<1>2. LET u == invalidate_hashes(v)
      IN  /\ IsTx(u) /\ u.content = c /\ u.pruned = FALSE
          /\ ~u.hash_valid /\ ~u.prunable_hash_valid /\ ~u.blob_size_valid
  BY <1>1, Invalidated
<1> QED
  BY <1>2 DEF v

(* The record of the block. *)
BlockShape == DOMAIN block = {"header", "hash_valid", "hash"} /\ IsHash(block.hash)

(* NoneValid: a transaction that is right, in a block without a valid      *)
(* hash, is all there is to show.                                          *)
LEMMA NoneValid ==
  ASSUME original' \in TransactionType, IsTx(tx'), SameContent(tx)', RightOf(tx)', BlockShape', ~block'.hash_valid
  PROVE  ObjectInv'
  BY DEF ObjectInv, BlockShape

(* ParseTxGood: a parsed transaction has the size of its blob and no hash. *)
LEMMA ParseTxGood ==
  ASSUME CacheInv, NEW c \in Content, ParseTx(c)
  PROVE  CacheInv'
<1> ObjectInv
  BY DEF CacheInv
<1> DEFINE u == invalidate_hashes(Sized([tx EXCEPT !.content = c, !.pruned = FALSE]))
<1>1. /\ IsTx(u) /\ u.content = c /\ u.pruned = FALSE
      /\ ~u.hash_valid /\ ~u.prunable_hash_valid
  BY ParsedIsTx DEF ObjectInv
<1>2. tx' = [u EXCEPT !.blob_size = Len(Blob(c)), !.blob_size_valid = TRUE]
  BY DEF ParseTx
<1> HIDE DEF u
<1>3. /\ IsTx(tx') /\ tx'.content = c /\ tx'.pruned = FALSE /\ tx'.blob_size = Len(Blob(c))
      /\ ~tx'.hash_valid /\ ~tx'.prunable_hash_valid
  BY <1>1, <1>2 DEF IsTx, TxFields
<1>4. original' = c /\ c \in TransactionType
  BY ContentAssumption DEF ParseTx
<1>5. SameContent(tx)' /\ RightOf(tx)'
  BY <1>3, <1>4 DEF SameContent, RightOf, BlobOf
<1>6. BlockShape' /\ ~block'.hash_valid
  BY DEF ParseTx, BlockShape, ObjectInv
<1> QED
  BY <1>3, <1>4, <1>5, <1>6, NoneValid, ForgottenGood DEF ParseTx

(* ParsePrunedGood: a transaction parsed without its prunable part has no  *)
(* hash and no size, and its block no hash.                                *)
LEMMA ParsePrunedGood ==
  ASSUME CacheInv, NEW c \in Content, ParsePruned(c)
  PROVE  CacheInv'
<1> ObjectInv
  BY DEF CacheInv
<1> DEFINE v == [tx EXCEPT !.content = [c EXCEPT !.prunable = <<None>>], !.pruned = TRUE]
<1>1. IsTx(v) /\ v.content = [c EXCEPT !.prunable = <<None>>] /\ v.pruned = TRUE
  BY DEF ObjectInv, IsTx, TxFields
<1>2. tx' = invalidate_hashes(v)
  BY DEF ParsePruned
<1> HIDE DEF v
<1>3. /\ IsTx(tx') /\ tx'.content = [c EXCEPT !.prunable = <<None>>] /\ tx'.pruned = TRUE
      /\ ~tx'.hash_valid /\ ~tx'.prunable_hash_valid /\ ~tx'.blob_size_valid
  BY <1>1, <1>2, Invalidated
<1>4. /\ original' = c /\ c \in TransactionType /\ c.version = 2 /\ c.prunable # << >> /\ block' = block
      /\ tx.content = Empty
  BY ContentAssumption DEF ParsePruned
<1>5. SameContent(tx)' /\ RightOf(tx)'
  BY <1>3, <1>4 DEF SameContent, RightOf
<1>6. BlockShape' /\ ~block'.hash_valid
  BY DEF ParsePruned, BlockShape, ObjectInv
<1> QED
  BY <1>3, <1>4, <1>5, <1>6, NoneValid, ForgottenGood DEF ParsePruned

(* ChangeGood: a transaction that an owner changed has no hash and no size *)
(* left.                                                                   *)
LEMMA ChangeGood ==
  ASSUME CacheInv, NEW c \in Content, Change(c)
  PROVE  CacheInv'
<1> ObjectInv
  BY DEF CacheInv
<1> DEFINE v == [tx EXCEPT !.content = c]
<1>1. IsTx(v) /\ v.content = c /\ v.pruned = FALSE
  BY DEF ObjectInv, IsTx, TxFields, SameContent, Change
<1>2. tx' = invalidate_hashes(v)
  BY DEF Change
<1> HIDE DEF v
<1>3. /\ IsTx(tx') /\ tx'.content = c /\ tx'.pruned = FALSE
      /\ ~tx'.hash_valid /\ ~tx'.prunable_hash_valid /\ ~tx'.blob_size_valid
  BY <1>1, <1>2, Invalidated
<1>4. original' = c /\ c \in TransactionType
  BY ContentAssumption DEF Change
<1>5. SameContent(tx)' /\ RightOf(tx)'
  BY <1>3, <1>4 DEF SameContent, RightOf
<1>6. BlockShape' /\ ~block'.hash_valid
  BY DEF Change, BlockShape, ObjectInv
<1> QED
  BY <1>3, <1>4, <1>5, <1>6, NoneValid, ForgottenGood DEF Change

(* ParseBlockGood: a parsed block has no hash, nor has its miner           *)
(* transaction.                                                            *)
LEMMA ParseBlockGood ==
  ASSUME CacheInv, NEW h, NEW c \in Content, ParseBlock(h, c)
  PROVE  CacheInv'
<1> ObjectInv
  BY DEF CacheInv
<1>1. /\ IsTx(tx') /\ tx'.content = c /\ tx'.pruned = FALSE
      /\ ~tx'.hash_valid /\ ~tx'.prunable_hash_valid /\ ~tx'.blob_size_valid
  BY ParsedIsTx DEF ObjectInv, ParseBlock
<1>2. original' = c /\ c \in TransactionType
  BY ContentAssumption DEF ParseBlock
<1>3. SameContent(tx)' /\ RightOf(tx)'
  BY <1>1, <1>2 DEF SameContent, RightOf
<1>4. BlockShape' /\ ~block'.hash_valid
  BY DEF ParseBlock, BlockShape, ObjectInv
<1> QED
  BY <1>1, <1>2, <1>3, <1>4, NoneValid, ForgottenGood DEF ParseBlock

(* ParseBlockHashedGood: a block parsed together with its hash has the     *)
(* right one unless it is refused.                                         *)
LEMMA ParseBlockHashedGood ==
  ASSUME CacheInv, NEW h, NEW c \in Content, ParseBlockHashed(h, c)
  PROVE  CacheInv'
<1> ObjectInv
  BY DEF CacheInv
<1> DEFINE u == invalidate_hashes(Sized([tx EXCEPT !.content = c, !.pruned = FALSE]))
<1>1. IsTx(u) /\ u.content = c /\ u.pruned = FALSE /\ ~u.prunable_hash_valid
  BY ParsedIsTx DEF ObjectInv
<1>2. tx' = [u EXCEPT !.hash = Whole(HashOf(c)), !.hash_valid = TRUE,
                      !.blob_size = Len(Blob(c)), !.blob_size_valid = TRUE]
  BY DEF ParseBlockHashed
<1> HIDE DEF u
<1>3. /\ IsTx(tx') /\ tx'.content = c /\ tx'.pruned = FALSE /\ tx'.blob_size = Len(Blob(c))
      /\ tx'.hash = Whole(HashOf(c)) /\ ~tx'.prunable_hash_valid
  BY <1>1, <1>2 DEF IsTx, TxFields, IsHash, Whole
<1>4. original' = c /\ c \in TransactionType
  BY ContentAssumption DEF ParseBlockHashed
<1>5. SameContent(tx)' /\ RightOf(tx)'
  BY <1>3, <1>4 DEF SameContent, RightOf, BlobOf
<1>6. BlockShape' /\ block'.header = h /\ (h \notin Refused => block'.hash = Whole(<<h, HashOf(c)>>))
  BY DEF ParseBlockHashed, BlockShape, IsHash, Whole
<1>7. TheBlockHash' = <<h, HashOf(c)>>
  BY <1>4, <1>6 DEF TheBlockHash, TheHash
<1>8. ObjectInv'
  BY <1>3, <1>4, <1>5, <1>6, <1>7 DEF ObjectInv, BlockShape
<1> QED
  BY <1>8, ForgottenGood DEF ParseBlockHashed

(* ChangeHeaderGood: a block with another header has no hash. *)
LEMMA ChangeHeaderGood ==
  ASSUME CacheInv, NEW h, ChangeHeader(h)
  PROVE  CacheInv'
<1> ObjectInv
  BY DEF CacheInv
<1>1. tx' = tx /\ original' = original
  BY DEF ChangeHeader
<1>2. SameContent(tx)' /\ RightOf(tx)' /\ IsTx(tx') /\ original' \in TransactionType
  BY <1>1 DEF SameContent, RightOf, BlobOf, HashOf, ObjectInv
<1>3. BlockShape' /\ ~block'.hash_valid
  BY DEF ChangeHeader, BlockShape, ObjectInv
<1> QED
  BY <1>2, <1>3, NoneValid, ForgottenGood DEF ChangeHeader

(* AssignGood: a transaction assigned from its copy is right if the copy   *)
(* is.                                                                     *)
LEMMA AssignGood ==
  ASSUME CacheInv, NEW r \in Reader, Assign(r)
  PROVE  CacheInv'
<1> ObjectInv
  BY DEF CacheInv
<1>1. /\ IsTx(found[r]) /\ RightOf(found[r])
      /\ found[r].content = tx.content /\ found[r].pruned = tx.pruned
  BY DEF CacheInv, ReaderOK, AnswerOK, Answer, Assign
<1>2. tx' = Copied(found[r], tx) /\ original' = original /\ block' = block
  BY DEF Assign
<1>3. IsTx(tx') /\ RightOf(tx') /\ tx'.content = tx.content /\ tx'.pruned = tx.pruned
  BY <1>1, <1>2, CopyRight DEF ObjectInv
<1>4. RightOf(tx)' /\ SameContent(tx)' /\ TheBlockHash' = TheBlockHash
  BY <1>2, <1>3 DEF RightOf, SameContent, ObjectInv, TheBlockHash, TheHash, BlobOf, HashOf
<1>5. ObjectInv'
  BY <1>2, <1>3, <1>4 DEF ObjectInv
<1> QED
  BY <1>5, ForgottenGood DEF Assign

(* CacheInitInv: nothing is valid at first. *)
LEMMA CacheInitInv == CacheInit => CacheInv
<1> SUFFICES ASSUME CacheInit PROVE CacheInv
  OBVIOUS
<1>1. /\ IsTx(tx) /\ tx.content = Empty /\ tx.pruned = FALSE
      /\ ~tx.hash_valid /\ ~tx.prunable_hash_valid /\ ~tx.blob_size_valid
  BY DEF CacheInit, set_null, IsTx, TxFields, IsHash, Unwritten, Whole
<1>2. original = Empty /\ Empty \in TransactionType
  BY DEF CacheInit, Empty, TransactionType
<1>3. SameContent(tx) /\ RightOf(tx)
  BY <1>1, <1>2 DEF SameContent, RightOf
<1>4. DOMAIN block = {"header", "hash_valid", "hash"} /\ IsHash(block.hash) /\ ~block.hash_valid
  BY DEF CacheInit, IsHash, Unwritten, Whole
<1>5. ObjectInv
  BY <1>1, <1>2, <1>3, <1>4 DEF ObjectInv
<1>6. PerReader /\ \A r \in Reader : cpc[r] = "idle"
  BY DEF CacheInit, PerReader
<1>7. ASSUME NEW r \in Reader PROVE ReaderOK(r)
  BY <1>6 DEF ReaderOK, AskedFor, HashOK, PrunableOK, BlockOK, AnswerOK, ForTx, ForHash, ForBlock, ForPrunable
<1> QED
  BY <1>5, <1>6, <1>7 DEF CacheInv

(* GoodKeeps: a step that is right for its reader is right for all. *)
LEMMA GoodKeeps ==
  ASSUME CacheInv, NEW r \in Reader, LeavesRight(r)
  PROVE  CacheInv'
<1>1. ASSUME NEW q \in Reader PROVE ReaderOK(q)'
  <2>1. CASE q = r
    BY <2>1 DEF LeavesRight
  <2>2. CASE q # r
    BY <2>2, OthersStay DEF LeavesRight, CacheInv
  <2> QED
    BY <2>1, <2>2
<1> QED
  BY <1>1 DEF LeavesRight, CacheInv

(* CacheInvRight: under the invariant what is valid and what is answered   *)
(* is of the object.                                                       *)
LEMMA CacheInvRight == CacheInv => CachedIsRight
<1> SUFFICES ASSUME CacheInv PROVE CachedIsRight
  OBVIOUS
<1> QED
  BY DEF CacheInv, ObjectInv, ReaderOK, AnswerOK, CachedIsRight, TheBlockHash, TheHash

(* CacheStepInv: every step of a reader or an owner keeps the caches       *)
(* right.                                                                  *)
LEMMA CacheStepInv == CacheInv /\ [CacheNext]_cacheVars => CacheInv'
<1> SUFFICES ASSUME CacheInv, [CacheNext]_cacheVars PROVE CacheInv'
  OBVIOUS
<1>1. CASE UNCHANGED cacheVars
  <2>1. ObjectInv /\ tx' = tx /\ original' = original /\ block' = block /\ cpc' = cpc /\ ask' = ask /\ found' = found
    BY <1>1 DEF cacheVars, CacheInv
  <2>2. Kept /\ ObjectInv'
    BY <2>1, Untouched DEF OnlyTxChanges
  <2>3. PerReader' /\ \A q \in Reader : Passes(q)
    BY <2>1 DEF CacheInv, PerReader, Passes
  <2> QED
    BY <2>2, <2>3, OthersStay DEF CacheInv
<1>2. ASSUME NEW c \in Content, ParseTx(c) \/ ParsePruned(c) \/ Change(c) PROVE CacheInv'
  BY <1>2, ParseTxGood, ParsePrunedGood, ChangeGood
<1>3. ASSUME NEW h \in Header, NEW c \in Content, ParseBlock(h, c) \/ ParseBlockHashed(h, c) PROVE CacheInv'
  BY <1>3, ParseBlockGood, ParseBlockHashedGood
<1>4. ASSUME NEW h \in Header, ChangeHeader(h) PROVE CacheInv'
  BY <1>4, ChangeHeaderGood
<1>5. ASSUME NEW r \in Reader, Assign(r) PROVE CacheInv'
  BY <1>5, AssignGood
<1>6. ASSUME NEW r \in Reader, NEW what \in {"tx", "block", "prunable", "pruned", "copy"}, NEW size \in BOOLEAN, Ask(r, what, size)
      PROVE  CacheInv'
  BY <1>6, AskGood, GoodKeeps
<1>7. ASSUME NEW r \in Reader,
             LoadFlag(r) \/ Serialize(r) \/ RefusePruned(r) \/ LoadSizes(r) \/ Calculate(r)
             \/ SizeOfBlob(r) \/ SetValid(r) \/ SetSize(r) \/ CachedSize(r) \/ Got(r) \/ GotForBlock(r)
      PROVE  CacheInv'
  <2>1. LeavesRight(r)
    BY <1>7, LoadFlagGood, SerializeGood, RefusePrunedGood, LoadSizesGood, CalculateGood, SizeOfBlobGood,
       SetValidGood, SetSizeGood, CachedSizeGood, GotGood, GotForBlockGood
  <2> QED
    BY <2>1, GoodKeeps
<1>8. ASSUME NEW r \in Reader, NEW n \in Half,
             ReadHalf(r, n) \/ WriteHalf(r, n) \/ WritePrunableHalf(r, n) \/ BlockWriteHalf(r, n)
      PROVE  CacheInv'
  <2>1. CASE n = 1
    <3>1. LeavesRight(r)
      BY <1>8, <2>1, ReadFirstGood, WriteFirstGood, WritePrunableFirstGood, BlockWriteFirstGood
    <3> QED
      BY <3>1, GoodKeeps
  <2>2. CASE n = 2
    <3>1. LeavesRight(r)
      BY <1>8, <2>2, ReadSecondGood, WriteSecondGood, WritePrunableSecondGood, BlockWriteSecondGood
    <3> QED
      BY <3>1, GoodKeeps
  <2> QED
    BY <2>1, <2>2 DEF Half
<1>9. ASSUME NEW r \in Reader, NEW withBlob \in BOOLEAN, Prunable(r, withBlob) PROVE CacheInv'
  BY <1>9, PrunableGood, GoodKeeps
<1>10. ASSUME NEW r \in Reader,
              PrunableCached(r) \/ SetPrunableValid(r) \/ PrunedHash(r) \/ RefuseVersion1(r)
              \/ Copy(r) \/ BlockFlag(r) \/ BlockRead(r) \/ BlockValid(r) \/ GaveUp(r)
       PROVE  CacheInv'
  <2>1. LeavesRight(r)
    BY <1>10, PrunableCachedGood, SetPrunableValidGood, PrunedHashGood, RefuseVersion1Good,
       CopyGood, BlockFlagGood, BlockReadGood, BlockValidGood, GaveUpGood
  <2> QED
    BY <2>1, GoodKeeps
<1> QED
  BY <1>1, <1>2, <1>3, <1>4, <1>5, <1>6, <1>7, <1>8, <1>9, <1>10 DEF CacheNext

(* CachesAreRight: in every run, for any number of threads, transactions   *)
(* and blocks, a hash or size that is valid is that of the object, and so  *)
(* is what a reader is answered (get_transaction_hash, get_block_hash).    *)
THEOREM CachesAreRight == Spec => []CachedIsRight
<1>1. Init => CacheInv
  BY CacheInitInv DEF Init
<1>2. CacheInv /\ [Next]_<<part, cacheVars, randomVars, tablesVars>> => CacheInv'
  BY CacheStepInv DEF Next
<1> QED
  BY <1>1, <1>2, CacheInvRight, PTL DEF Spec
=============================================================================
