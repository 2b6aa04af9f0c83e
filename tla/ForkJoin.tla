------------------------------ MODULE ForkJoin ------------------------------
(***************************************************************************)
(* What a pool promises to those who hand it tasks: an actor (a caller or  *)
(* a task) that waits for its tasks is answered when every one of them has *)
(* finished, the answer is "false" exactly if one of them failed, and an   *)
(* actor finishes after the tasks it waits for.  Every caller finishes.    *)
(***************************************************************************)
EXTENDS Naturals, FiniteSets

CONSTANTS Caller, Job

Actor == Caller \cup Job

VARIABLES
  awaited,    \* the jobs an actor may hand in and waits for
  state,      \* "idle", "given", "busy", "finished" or "failed"
  answer      \* what an actor was told: "none" until it is answered

vars == <<awaited, state, answer>>

Over(a) == state[a] \in {"finished", "failed"}

Init ==
  /\ awaited \in [Actor -> SUBSET Job]
  /\ state = [a \in Actor |-> IF a \in Caller THEN "busy" ELSE "idle"]
  /\ answer = [a \in Actor |-> "none"]

Give(j) ==
  /\ state[j] = "idle"
  /\ \E a \in Actor : state[a] = "busy"
  /\ state' = [state EXCEPT ![j] = "given"]
  /\ UNCHANGED <<awaited, answer>>

Begin(j) ==
  /\ state[j] = "given" \/ (state[j] = "idle" /\ \E a \in Actor : state[a] = "busy")
  /\ state' = [state EXCEPT ![j] = "busy"]
  /\ UNCHANGED <<awaited, answer>>

(* Jobs that were never handed in keep nobody waiting. *)
Joined(a) == \A j \in awaited[a] : state[j] = "idle" \/ Over(j)

Answer(a) ==
  /\ state[a] = "busy"
  /\ answer[a] = "none"
  /\ Joined(a)
  /\ answer' = [answer EXCEPT ![a] =
                  IF \E j \in awaited[a] : state[j] = "failed"
                  THEN "false" ELSE "true"]
  /\ UNCHANGED <<awaited, state>>

Finish(a) ==
  /\ state[a] = "busy"
  /\ Joined(a)
  /\ \E outcome \in {"finished", "failed"} :
       state' = [state EXCEPT ![a] = outcome]
  /\ UNCHANGED <<awaited, answer>>

Next ==
  \/ \E j \in Job : Give(j) \/ Begin(j)
  \/ \E a \in Actor : Answer(a) \/ Finish(a)

Safety == Init /\ [][Next]_vars
Spec == Safety /\ \A c \in Caller : <>Over(c)
=============================================================================
