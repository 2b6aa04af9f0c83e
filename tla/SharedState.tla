---------------------------- MODULE SharedState ----------------------------
(***************************************************************************)
(* The state that threads of one process share outside of the thread pool: *)
(* cached hashes, the random number generator and the tables of the range  *)
(* proofs.  The three have nothing in common, so each run of the program   *)
(* is looked at in one of them.                                            *)
(*                                                                         *)
(* The tables are those of init_exponents in bulletproofs.cc and           *)
(* bulletproofs_plus.cc: generators and the caches over them are built by  *)
(* whoever first proves or verifies, under a mutex, and then read without  *)
(* one.                                                                    *)
(***************************************************************************)
EXTENDS TxCache, Random

CONSTANTS
  Prover,      \* threads that prove or verify
  Entries      \* maxN * maxM

ASSUME EntriesAssumption == Entries \in Nat \ {0}

VARIABLES
  init_mutex,  \* the thread that has it, or {}
  init_done,
  table,       \* entries of Hi_p3 and Gi_p3 that are written
  caches,      \* straus_HiGi_cache and pippenger_HiGi_cache: entries each was made of
  tpc          \* where each thread is

tablesVars == <<init_mutex, init_done, table, caches, tpc>>

TablesInit ==
  /\ init_mutex = {} /\ init_done = FALSE /\ table = 0
  /\ caches = [straus |-> 0, pippenger |-> 0]
  /\ tpc = [t \in Prover |-> <<"start">>]

Goto(t, at) == tpc' = [tpc EXCEPT ![t] = at]

Lock_Unguarded(t) ==
  /\ tpc[t] = <<"start">>
  /\ init_mutex' = {t}
  /\ Goto(t, IF init_done THEN <<"unlock">> ELSE <<"fill", 0>>)
  /\ UNCHANGED <<init_done, table, caches>>
Lock(t) ==
  /\ tpc[t] = <<"start">> /\ init_mutex = {}
  /\ init_mutex' = {t}
  /\ Goto(t, IF init_done THEN <<"unlock">> ELSE <<"fill", 0>>)
  /\ UNCHANGED <<init_done, table, caches>>

(* One entry is computed and written: two points. *)
Fill(t, i) ==
  /\ i \in 0 .. Entries - 1 /\ tpc[t] = <<"fill", i>>
  /\ table' = i + 1
  /\ Goto(t, IF i + 1 = Entries THEN <<"straus">> ELSE <<"fill", i + 1>>)
  /\ UNCHANGED <<init_mutex, init_done, caches>>

StrausCache(t) ==
  /\ tpc[t] = <<"straus">>
  /\ caches' = [caches EXCEPT !.straus = table]
  /\ Goto(t, <<"pippenger">>)
  /\ UNCHANGED <<init_mutex, init_done, table>>

PippengerCache(t) ==
  /\ tpc[t] = <<"pippenger">>
  /\ caches' = [caches EXCEPT !.pippenger = table]
  /\ Goto(t, <<"done">>)
  /\ UNCHANGED <<init_mutex, init_done, table>>

SetDone(t) ==
  /\ tpc[t] = <<"done">>
  /\ init_done' = TRUE
  /\ Goto(t, <<"unlock">>)
  /\ UNCHANGED <<init_mutex, table, caches>>

Unlock(t) ==
  /\ tpc[t] = <<"unlock">>
  /\ init_mutex' = {}
  /\ Goto(t, <<"use">>)
  /\ UNCHANGED <<init_done, table, caches>>

Used(t) ==
  /\ tpc[t] = <<"use">>
  /\ Goto(t, <<"start">>)
  /\ UNCHANGED <<init_mutex, init_done, table, caches>>

TablesNext ==
  \E t \in Prover :
    \/ Lock(t) \/ \E i \in 0 .. Entries - 1 : Fill(t, i)
    \/ StrausCache(t) \/ PippengerCache(t) \/ SetDone(t) \/ Unlock(t) \/ Used(t)

(* TablesComplete: whoever proves or verifies has the whole tables and     *)
(* caches made of the whole, and nobody writes them meanwhile.             *)
TablesComplete ==
  (\E t \in Prover : tpc[t] = <<"use">>) =>
    /\ table = Entries /\ caches = [straus |-> Entries, pippenger |-> Entries]
    /\ \A t \in Prover : tpc[t] \in {<<"start">>, <<"unlock">>, <<"use">>}

-----------------------------------------------------------------------------
VARIABLE part

Init ==
  /\ part \in {"cache", "random", "tables"}
  /\ CacheInit /\ RandomInit /\ TablesInit

Next ==
  \/ part = "cache"  /\ CacheNext  /\ UNCHANGED <<part, randomVars, tablesVars>>
  \/ part = "random" /\ RandomNext /\ UNCHANGED <<part, cacheVars, tablesVars>>
  \/ part = "tables" /\ TablesNext /\ UNCHANGED <<part, cacheVars, randomVars>>

Spec == Init /\ [][Next]_<<part, cacheVars, randomVars, tablesVars>>
=============================================================================
