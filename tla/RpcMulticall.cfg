\* Three calls: a call before, between and after; two threads besides the main one.
CONSTANTS
  t1 = t1
  Thread = {t1, t2, t3}
  Main = t1
  NCalls = 3
  LateThrow = FALSE

SPECIFICATION FairSpec

INVARIANTS
  ContextSafe
  NoRecursion

PROPERTIES
  Implements
  Completes

\* The multicall ends.
CHECK_DEADLOCK FALSE
