--------------------------- MODULE ThreadPoolProps ---------------------------
(***************************************************************************)
(* What the thread pool must keep, and the promise it implements.          *)
(***************************************************************************)
EXTENDS ThreadPool

BodyFrames ==
  [kind : {"body"}, actor : Actor, via : {"main", "run", "inline"}, next : Nat \ {0},
   thrown : BOOLEAN,
   at : {"submitting", "waiting", "leaving", "destroying", "ending"}]
RunFrames ==
  [kind : {"run"}, flush : BOOLEAN, at : {"top", "asleep", "task", "after"}]
OwnerFrames ==
  [kind : {"owner"}, at : {"stopping", "joining", "creating"}]
FrameType == BodyFrames \cup RunFrames \cup OwnerFrames

(* Every variable has its type. *)
TypeOK ==
  /\ plan \in Plans
  /\ queue \in Seq(Task)
  /\ active \in Nat
  /\ running \in BOOLEAN
  /\ threads \subseteq Worker
  /\ stack \in [Thread -> Seq(FrameType)]
  /\ depth \in [Thread -> Nat]
  /\ is_leaf \in [Thread -> BOOLEAN]
  /\ num \in [Actor -> Nat]
  /\ error \in [Actor -> BOOLEAN]
  /\ verdict \in [Actor -> {"none", "true", "false"}]
  /\ begun \subseteq Actor /\ ended \subseteq begun /\ failed \subseteq ended
  /\ crashed \in BOOLEAN

-----------------------------------------------------------------------------
Frames(t) == {stack[t][i] : i \in DOMAIN stack[t]}
Positions(kind, Test(_)) ==
  {p \in UNION {{t} \X DOMAIN stack[t] : t \in Thread} :
     stack[p[1]][p[2]].kind = kind /\ Test(stack[p[1]][p[2]])}

(* A waiter counts its tasks that are queued and those run is executing,   *)
(* whichever threads took them and however deep they are nested, so that   *)
(* it is zero when and only when nothing of it is left.                    *)
Counted(a) == {c \in Range(plan.submits[a]) : c \notin plan.unwaited}
WaiterCounts ==
  \A a \in Actor :
    LET Executing(f) == f.via = "run" /\ f.actor \in Counted(a)
    IN  num[a] = Cardinality({i \in DOMAIN queue : queue[i] \in Counted(a)})
                   + Cardinality(Positions("body", Executing))

(* "active" is the number of executions begun by run and not yet counted   *)
(* off: more than there are threads when executions are nested.            *)
ActiveCounts ==
  LET Busy(f) == f.at \in {"task", "after"}
  IN  active = Cardinality(Positions("run", Busy))

(* While no task throws, a thread's depth is the number of tasks it is     *)
(* inside of, so a caller outside of all tasks is at depth 0 and its       *)
(* submissions are shared with the workers.  (A task that throws through   *)
(* submit leaves its depth behind: see the README.)                        *)
DepthCounts ==
  failed = {} =>
    \A t \in Thread :
      depth[t] = Cardinality({i \in DOMAIN stack[t] :
                    stack[t][i].kind = "body" /\ stack[t][i].via # "main"})

(* CountsExact: the three counters the pool decides by are what they count *)
(* at every step of every thread (waiter::num, active, depth).             *)
CountsExact == WaiterCounts /\ ActiveCounts /\ DepthCounts

-----------------------------------------------------------------------------
(* How far an actor has got, as those see it who wait for it. *)
Progress(a) ==
  CASE a \in failed -> "failed"
    [] a \in ended \ failed -> "finished"
    [] a \in begun \ ended -> "busy"
    [] a \in Range(queue) \ begun -> "given"
    [] OTHER -> "idle"

Promise == INSTANCE ForkJoin WITH
  Caller  <- External,
  Job     <- Task,
  awaited <- [a \in Actor |-> Counted(a)],
  state   <- [a \in Actor |-> Progress(a)],
  answer  <- verdict

(* The pool implements fork and join: wait is answered when all tasks of   *)
(* the waiter have finished, "false iff any error" (threadpool.h), nobody  *)
(* ends before the tasks it waits for, and every caller returns.           *)
ForksAndJoins == Promise!Spec

(* "The waiter lets the caller know when all of its tasks are completed"   *)
(* (threadpool.h): every caller that waits is answered.                    *)
CallersLearn ==
  \A e \in External :
    (plan.submits[e] # << >> /\ e \notin failed)
      ~> (verdict[e] # "none" \/ e \in failed)

(* With a worker there, a queued task is run even if nobody waits for it,  *)
(* and across a recycle.                                                   *)
QueuedTasksRun ==
  \A c \in Task :
    (c \in Range(queue) /\ max > 1) ~> (c \in ended)

(* Every caller returns, the one that recycles or destroys the pool too:   *)
(* each worker notices that it is to stop, asleep or at work.              *)
CallersReturn ==
  \A e \in External : (stack[e] # << >>) ~> (stack[e] = << >>)

=============================================================================
