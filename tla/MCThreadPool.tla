---------------------------- MODULE MCThreadPool ----------------------------
(* Small plans for TLC: two callers and up to four tasks. *)
EXTENDS ThreadPoolProps

CONSTANTS e1, e2, t1, t2, t3, t4

NoPlan ==
  [max |-> 2, submits |-> [a \in Actor |-> << >>], leaf |-> {}, throws |-> {},
   unwaited |-> {}, final |-> [e \in External |-> "none"]]

(* The first caller's first task may use the pool itself, for a leaf or    *)
(* for a task that could.                                                  *)
Nested ==
  {[NoPlan EXCEPT !.max = m, !.submits[e1] = s1, !.submits[t1] = s,
                 !.submits[e2] = s2, !.leaf = l] :
     m \in 1 .. 3, s1 \in {<<t1>>, <<t2, t1>>}, s \in {<<t3>>},
     s2 \in {<<t4>>}, l \in {{t3}, {t3, t4}, {t2}}}

(* One task fails: queued, nested, inline, or a leaf that uses the pool. *)
Failing ==
  {[NoPlan EXCEPT !.max = m, !.submits[e1] = <<t1, t2>>, !.submits[t1] = <<t3>>,
                 !.leaf = l, !.throws = f] :
     m \in 1 .. 2, l \in {{}, {t3}, {t1}, {t2}},
     f \in {{}, {t1}, {t2}, {t3}}}

(* One caller recycles the pool while the other's tasks, which do not use  *)
(* it, and tasks nobody waits for are about.                               *)
Recycling ==
  {[NoPlan EXCEPT !.max = m, !.submits[e1] = <<t1>>, !.submits[e2] = <<t2, t3>>,
                 !.leaf = l, !.unwaited = u, !.final[e1] = f] :
     m \in 2 .. 3, l \in {{}, {t1, t2}}, u \in {{}, {t1}, {t3}},
     f \in {"none", "recycle"}}

(* The last caller destroys the pool. *)
Destroying ==
  {[NoPlan EXCEPT !.max = m, !.submits[e1] = <<t1, t2>>, !.submits[t1] = s,
                 !.leaf = {t3}, !.final[e1] = "destroy"] :
     m \in 1 .. 3, s \in {<< >>, <<t3>>}}

ForkJoinPlans == Nested \cup Failing
SharedPlans == Recycling \cup Destroying

(* A caller recycles the pool while a task of the other uses it. *)
RecycledWhileNested ==
  {[NoPlan EXCEPT !.submits[e1] = <<t1>>, !.submits[t1] = <<t2>>, !.leaf = {t2},
                 !.final[e2] = "recycle"]}
=============================================================================
