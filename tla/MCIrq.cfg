CONSTANTS
  t1 = t1
  t2 = t2
  t3 = t3
  l1 = l1
  l2 = l2
  c1 = c1
  c2 = c2
  Thread = {t1, t2, t3}
  Process <- Processes
  Affinity <- Affinities
  Line = {l1, l2}
  Cpu = {c1, c2}
  MAX_FAST = 3
  MaxHandlers = 2
  MaxLast = 1
  MaxIndex = 2
SPECIFICATION Spec
INVARIANTS FastExact Hooked RoundGoesOn
SYMMETRY Symmetry
CONSTRAINT FewHooks
CHECK_DEADLOCK FALSE
