CONSTANTS
  TCB = {t1, t2, t3, t4}
  TCBLL = {running, blocked, sleeping}
  NULL = NULL
SPECIFICATION Spec
INVARIANTS TypeOK WellFormed
PROPERTY ImplementsThreadLists
