----------------------------- MODULE ThreadPool -----------------------------
(***************************************************************************)
(* tools::threadpool and its waiter.                                       *)
(*                                                                         *)
(* A thread is an external caller or one of the pool's own workers.  It    *)
(* has a stack of frames: "run" is threadpool::run, on a worker or inside  *)
(* waiter::wait; "body" is an actor, i.e. the code of a caller or of a     *)
(* task, which submits its tasks under a waiter of its own, waits for      *)
(* them, and ends; "owner" is recycle or the destructor of the pool.       *)
(*                                                                         *)
(* Each critical section of the pool's mutex is one action, and so is each *)
(* of a waiter's mutex.  What actors do with the pool is the environment's *)
(* choice, the variable "plan".                                            *)
(***************************************************************************)
EXTENDS Naturals, Sequences, FiniteSets, SequencesExt

CONSTANTS
  External,     \* callers, one thread each
  Task,         \* tasks
  MaxWorkers,   \* the most workers a pool has here
  Plans         \* what the actors do, see PlanType

Actor  == External \cup Task
Worker == 1 .. MaxWorkers
Thread == External \cup Worker

ASSUME ThreadsAssumption == MaxWorkers \in Nat /\ External \cap Worker = {}
ASSUME TasksAssumption == External \cap Task = {}

VARIABLES
  plan,         \* what the actors do
  queue,        \* tasks waiting to be run
  active,       \* executions counted by run
  running,      \* FALSE while the pool is being stopped
  threads,      \* the workers that exist
  stack,        \* the frames of each thread, top last
  depth,        \* thread-local: tasks this thread is inside of
  is_leaf,      \* thread-local: the innermost task is a leaf
  num, error,   \* the waiter of each actor
  verdict,      \* what wait answered an actor
  begun, ended, failed, \* the actors that began, ended, ended by throwing
  crashed       \* a null waiter was dereferenced

vars == <<plan, queue, active, running, threads, stack, depth, is_leaf, num,
          error, verdict, begun, ended, failed, crashed>>
history == <<begun, ended, failed, crashed>>
waiters == <<num, error, verdict>>
locals  == <<depth, is_leaf>>

(* A plan: the size of the pool, the tasks each actor submits, which tasks *)
(* are leaves, which throw, which are submitted without a waiter, and what *)
(* each caller does with the pool in the end.                              *)
PlanType ==
  [max : 1 .. MaxWorkers + 1, submits : [Actor -> Seq(Task)],
   leaf : SUBSET Task, throws : SUBSET Task, unwaited : SUBSET Task,
   final : [External -> {"none", "recycle", "destroy"}]]

(* A task is one call of submit, which moves the function it is given into *)
(* the queue: it is in one place of one list.                              *)
SubmittedOnce(p) ==
  \A a, b \in Actor : \A i \in DOMAIN p.submits[a], j \in DOMAIN p.submits[b] :
    p.submits[a][i] = p.submits[b][j] => a = b /\ i = j

ASSUME PlansAssumption == Plans \subseteq {p \in PlanType : SubmittedOnce(p)}

max == plan.max

(* The actor whose waiter counts the task. *)
Submitter(c) == CHOOSE a \in Actor : \E i \in DOMAIN plan.submits[a] :
                                       plan.submits[a][i] = c

-----------------------------------------------------------------------------
(* Frames. *)
Body(a, via) ==
  [kind |-> "body", actor |-> a, via |-> via, next |-> 1, thrown |-> FALSE,
   at |-> IF plan.submits[a] = << >> THEN "ending" ELSE "submitting"]
RunFrame(flush) == [kind |-> "run", flush |-> flush, at |-> "top"]
OwnerFrame == [kind |-> "owner", at |-> "stopping"]

Top(t, kind, at) ==
  /\ stack[t] # << >>
  /\ Last(stack[t]).kind = kind
  /\ Last(stack[t]).at = at
Beneath(t) == stack[t][Len(stack[t]) - 1]

(* The stack with its top replaced by the given frames. *)
Replace(t, frames) == [stack EXCEPT ![t] = Front(@) \o frames]
(* The stack with its two topmost frames replaced by one. *)
ReturnTo(t, frame) == [stack EXCEPT ![t] = Append(Front(Front(@)), frame)]

Asleep(t, stk) == stk[t] # << >> /\ Last(stk[t]).at = "asleep"
Woken(s, stk) ==
  [t \in Thread |-> IF t \in s THEN Append(Front(stk[t]), RunFrame(FALSE))
                               ELSE stk[t]]

(* notify_one wakes one sleeping worker if there is one. *)
NotifyOne(stk) ==
  LET sleepers == {t \in Thread : Asleep(t, stk)}
  IN  IF sleepers = {} THEN stack' = stk
      ELSE \E t \in sleepers : stack' = Woken({t}, stk)
NotifyAll(stk) == stack' = Woken({t \in Thread : Asleep(t, stk)}, stk)

(* create: max - 1 workers, each at the start of run. *)
Created == 1 .. max - 1
Fresh(t) == IF t \in Created THEN <<RunFrame(FALSE)>> ELSE << >>

Init ==
  /\ plan \in Plans
  /\ queue = << >>
  /\ active = 0
  /\ running = TRUE
  /\ threads = Created
  /\ stack = [t \in Thread |->
                IF t \in External THEN <<Body(t, "main")>> ELSE Fresh(t)]
  /\ depth = [t \in Thread |-> 0]
  /\ is_leaf = [t \in Thread |-> FALSE]
  /\ num = [a \in Actor |-> 0]
  /\ error = [a \in Actor |-> FALSE]
  /\ verdict = [a \in Actor |-> "none"]
  /\ begun = External
  /\ ended = {}
  /\ failed = {}
  /\ crashed = FALSE

-----------------------------------------------------------------------------
(* submit. *)
Submits(t) ==
  /\ Top(t, "body", "submitting")
  /\ Last(stack[t]).next <= Len(plan.submits[Last(stack[t]).actor])
Submitted(t) == plan.submits[Last(stack[t]).actor][Last(stack[t]).next]

Inline(t) ==
  /\ Submitted(t) \notin plan.leaf
  /\ \/ active = max /\ queue # << >>
     \/ depth[t] > 0

(* A leaf may not use the pool: submit throws into the body, whose waiter  *)
(* is then destroyed.                                                      *)
SubmitFromLeaf(t) ==
  /\ Submits(t)
  /\ is_leaf[t]
  /\ stack' = Replace(t, <<[Last(stack[t]) EXCEPT !.at = "leaving", !.thrown = TRUE]>>)
  /\ UNCHANGED <<plan, queue, active, running, threads, locals, waiters, history>>

SubmitInline(t) ==
  /\ Submits(t)
  /\ ~is_leaf[t]
  /\ Inline(t)
  /\ stack' = [stack EXCEPT ![t] = Append(@, Body(Submitted(t), "inline"))]
  /\ depth' = [depth EXCEPT ![t] = @ + 1]
  /\ is_leaf' = [is_leaf EXCEPT ![t] = FALSE]
  /\ begun' = begun \cup {Submitted(t)}
  /\ UNCHANGED <<plan, queue, active, running, threads, waiters, ended, failed,
                 crashed>>

(* Leaves go to the front, other tasks to the back; the waiter, if there   *)
(* is one, counts the task before a thread can take it.                    *)
Enqueued(c) ==
  IF c \in plan.leaf THEN <<c>> \o queue ELSE Append(queue, c)

Incremented_OnlyLeaves(c, a) ==
  IF c \in plan.unwaited \/ c \notin plan.leaf THEN num
  ELSE [num EXCEPT ![a] = @ + 1]
Incremented(c, a) ==
  IF c \in plan.unwaited THEN num ELSE [num EXCEPT ![a] = @ + 1]

SubmitQueued(t) ==
  /\ Submits(t)
  /\ ~is_leaf[t]
  /\ ~Inline(t)
  /\ queue' = Enqueued(Submitted(t))
  /\ num' = Incremented(Submitted(t), Last(stack[t]).actor)
  /\ NotifyOne(Replace(t, <<[Last(stack[t]) EXCEPT !.next = @ + 1]>>))
  /\ UNCHANGED <<plan, active, running, threads, locals, error, verdict, history>>

-----------------------------------------------------------------------------
(* wait, called by the body and again by the waiter's destructor: it first *)
(* helps to empty the queue, then sleeps until the count is zero.          *)
CallWait(t) ==
  /\ Top(t, "body", "submitting")
  /\ ~Submits(t)
  /\ stack' = Replace(t, <<[Last(stack[t]) EXCEPT !.at = "waiting"], RunFrame(TRUE)>>)
  /\ UNCHANGED <<plan, queue, active, running, threads, locals, waiters, history>>

WaitReturns(t) ==
  /\ Top(t, "body", "waiting")
  /\ num[Last(stack[t]).actor] = 0
  /\ verdict' = [verdict EXCEPT ![Last(stack[t]).actor] =
                   IF error[Last(stack[t]).actor] THEN "false" ELSE "true"]
  /\ stack' = Replace(t, <<[Last(stack[t]) EXCEPT !.at = "leaving"]>>)
  /\ UNCHANGED <<plan, queue, active, running, threads, locals, num, error, history>>

DestroyWaiter(t) ==
  /\ Top(t, "body", "leaving")
  /\ stack' = Replace(t, <<[Last(stack[t]) EXCEPT !.at = "destroying"], RunFrame(TRUE)>>)
  /\ UNCHANGED <<plan, queue, active, running, threads, locals, waiters, history>>

WaiterDestroyed(t) ==
  /\ Top(t, "body", "destroying")
  /\ num[Last(stack[t]).actor] = 0
  /\ stack' = Replace(t, <<[Last(stack[t]) EXCEPT !.at = "ending"]>>)
  /\ UNCHANGED <<plan, queue, active, running, threads, locals, waiters, history>>

-----------------------------------------------------------------------------
(* The end of a body, and what the code below it on the stack does then.   *)
Throws(t) ==
  Last(stack[t]).thrown \/ Last(stack[t]).actor \in plan.throws

Ends(t, via) ==
  /\ Top(t, "body", "ending")
  /\ Last(stack[t]).via = via
  /\ ended' = ended \cup {Last(stack[t]).actor}
  /\ failed' = IF Throws(t) THEN failed \cup {Last(stack[t]).actor} ELSE failed
  /\ begun' = begun

(* Leaving a task, in submit and in run. *)
LeaveTask(t) ==
  /\ depth' = [depth EXCEPT ![t] = @ - 1]
  /\ is_leaf' = [is_leaf EXCEPT ![t] = FALSE]

(* Inside submit.  An exception passes through it to the submitter; the    *)
(* depth it had added stays.                                               *)
InlineEnds(t) ==
  /\ Ends(t, "inline")
  /\ IF Throws(t)
     THEN /\ stack' = ReturnTo(t, [Beneath(t) EXCEPT !.at = "leaving", !.thrown = TRUE])
          /\ UNCHANGED locals
     ELSE /\ stack' = ReturnTo(t, [Beneath(t) EXCEPT !.next = @ + 1])
          /\ LeaveTask(t)
  /\ UNCHANGED <<plan, queue, active, running, threads, waiters, crashed>>

(* Inside run.  An exception is caught and noted in the waiter, through a  *)
(* pointer that is null for a task submitted without one; then the waiter  *)
(* counts the task off.                                                    *)
Noted_ErrorForgotten(c, threw) == error
Noted(c, threw) == [error EXCEPT ![Submitter(c)] = @ \/ threw]

TaskEnds(t) ==
  /\ Ends(t, "run")
  /\ LET c == Last(stack[t]).actor
     IN  IF c \in plan.unwaited
         THEN /\ crashed' = Throws(t)
              /\ UNCHANGED <<num, error>>
         ELSE /\ num' = [num EXCEPT ![Submitter(c)] = @ - 1]
              /\ error' = Noted(c, Throws(t))
              /\ crashed' = crashed
  /\ LeaveTask(t)
  /\ stack' = ReturnTo(t, [Beneath(t) EXCEPT !.at = "after"])
  /\ UNCHANGED <<plan, queue, active, running, threads, verdict>>

(* A caller: it stops the pool if it is the one to do so. *)
CallerEnds(t) ==
  /\ Ends(t, "main")
  /\ stack' = Replace(t, IF plan.final[t] = "none" THEN << >> ELSE <<OwnerFrame>>)
  /\ UNCHANGED <<plan, queue, active, running, threads, locals, waiters, crashed>>

-----------------------------------------------------------------------------
(* run: one pass through the loop, from taking the mutex to giving it up.  *)
RunFrom(t, act) ==
  IF ~running \/ (queue = << >> /\ Last(stack[t]).flush)
  THEN /\ stack' = Replace(t, << >>)
       /\ active' = act
       /\ UNCHANGED <<queue, locals, begun>>
  ELSE IF queue = << >>
  THEN /\ stack' = Replace(t, <<[Last(stack[t]) EXCEPT !.at = "asleep"]>>)
       /\ active' = act
       /\ UNCHANGED <<queue, locals, begun>>
  ELSE /\ stack' = Replace(t, <<[Last(stack[t]) EXCEPT !.at = "task"],
                                Body(Head(queue), "run")>>)
       /\ active' = act + 1
       /\ queue' = Tail(queue)
       /\ depth' = [depth EXCEPT ![t] = @ + 1]
       /\ is_leaf' = [is_leaf EXCEPT ![t] = Head(queue) \in plan.leaf]
       /\ begun' = begun \cup {Head(queue)}

RunLoop_NotCountedOff(t) ==
  /\ Top(t, "run", "top") \/ Top(t, "run", "after")
  /\ RunFrom(t, active)
  /\ UNCHANGED <<plan, running, threads, waiters, ended, failed, crashed>>
RunLoop(t) ==
  /\ \/ Top(t, "run", "top")   /\ RunFrom(t, active)
     \/ Top(t, "run", "after") /\ RunFrom(t, active - 1)
  /\ UNCHANGED <<plan, running, threads, waiters, ended, failed, crashed>>

(* A condition variable may wake a thread for no reason. *)
SpuriousWake(t) ==
  /\ Asleep(t, stack)
  /\ stack' = Woken({t}, stack)
  /\ UNCHANGED <<plan, queue, active, running, threads, locals, waiters, history>>

-----------------------------------------------------------------------------
(* destroy, and recycle, which creates the workers anew. *)
Stop_NotifyForgotten(t) ==
  /\ Top(t, "owner", "stopping")
  /\ running' = FALSE
  /\ stack' = Replace(t, <<[OwnerFrame EXCEPT !.at = "joining"]>>)
  /\ UNCHANGED <<plan, queue, active, threads, locals, waiters, history>>
Stop(t) ==
  /\ Top(t, "owner", "stopping")
  /\ running' = FALSE
  /\ NotifyAll(Replace(t, <<[OwnerFrame EXCEPT !.at = "joining"]>>))
  /\ UNCHANGED <<plan, queue, active, threads, locals, waiters, history>>

Join(t) ==
  /\ Top(t, "owner", "joining")
  /\ \A w \in threads : stack[w] = << >>
  /\ threads' = {}
  /\ stack' = Replace(t, IF plan.final[t] = "recycle"
                         THEN <<[OwnerFrame EXCEPT !.at = "creating"]>> ELSE << >>)
  /\ UNCHANGED <<plan, queue, active, running, locals, waiters, history>>

NewWorkers ==
  /\ threads' = Created
  /\ stack' = [w \in Thread |-> IF w \in Worker THEN Fresh(w)
                                ELSE IF Top(w, "owner", "creating") THEN << >>
                                ELSE stack[w]]
  /\ depth' = [w \in Thread |-> IF w \in Worker THEN 0 ELSE depth[w]]
  /\ is_leaf' = [w \in Thread |-> IF w \in Worker THEN FALSE ELSE is_leaf[w]]

Create_NotRunning(t) ==
  /\ Top(t, "owner", "creating")
  /\ NewWorkers
  /\ UNCHANGED <<plan, queue, active, running, waiters, history>>
Create(t) ==
  /\ Top(t, "owner", "creating")
  /\ running' = TRUE
  /\ NewWorkers
  /\ UNCHANGED <<plan, queue, active, waiters, history>>

-----------------------------------------------------------------------------
(* What a thread does next, unless it sleeps. *)
Step(t) ==
  /\ ~crashed
  /\ \/ SubmitFromLeaf(t) \/ SubmitInline(t) \/ SubmitQueued(t)
     \/ CallWait(t) \/ WaitReturns(t) \/ DestroyWaiter(t) \/ WaiterDestroyed(t)
     \/ InlineEnds(t) \/ TaskEnds(t) \/ CallerEnds(t)
     \/ RunLoop(t)
     \/ Stop(t) \/ Join(t) \/ Create(t)

(* Nothing is left to do, or nothing can be done. *)
CallersReturned == \A e \in External : stack[e] = << >>
Quiet ==
  /\ crashed \/ CallersReturned
  /\ UNCHANGED vars

Next ==
  \/ \E t \in Thread : Step(t)
  \/ \E t \in Thread : ~crashed /\ SpuriousWake(t)
  \/ Quiet

(* The threads are scheduled; that one wakes for no reason is not relied   *)
(* on.                                                                     *)
Spec == Init /\ [][Next]_vars /\ \A t \in Thread : WF_vars(Step(t))
=============================================================================
