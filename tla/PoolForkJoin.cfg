SPECIFICATION Spec
CONSTANTS
  e1 = e1
  e2 = e2
  t1 = t1
  t2 = t2
  t3 = t3
  t4 = t4
  External = {e1, e2}
  Task = {t1, t2, t3, t4}
  MaxWorkers = 2
  Plans <- ForkJoinPlans
INVARIANT TypeOK CountsExact
PROPERTY ForksAndJoins
