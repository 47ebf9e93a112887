\* An FSN file with a refused and two doubtful notes, and a BK and a box file,
\* whose loads are not rolled back, through one session.  With nothing to load
\* the thread waits in pop_cir_queue: CHECK_DEADLOCK FALSE.
CONSTANTS
  fsn = fsn  blank = blank  bf = bf  box = box  bk = bk  dk = dk  sk = sk
  None = None
  Files = {fsn, blank, bf, box, bk, dk, sk}
  Kind <- MCKind
  Rows <- MCRows
  Rejected <- MCRejected
  Faults = {"read", "tablespace", "session", "rename"}
  QUE_SIZE = 3
  Budgets <- MCBudgets
  MaxKills = 1
SPECIFICATION Spec
CHECK_DEADLOCK FALSE
INVARIANTS
  TypeOK
  HandledComplete
  NothingLeftPending
  RowsOnce
  
PROPERTY LoadsAtomically
