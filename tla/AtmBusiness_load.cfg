\* Two handlers; two files of one business, or one of another and one without
\* notes.  With nothing left to load the threads wait in pop_cir_queue:
\* CHECK_DEADLOCK FALSE.
CONSTANTS
  atm1 = atm1  atm2 = atm2  crs = crs  bare = bare
  draw = draw  deposit = deposit  check = check
  h1 = h1  h2 = h2
  None = None
  Files = {atm1, atm2, crs, bare}
  Business <- MCBusiness
  Empty = {bare}
  Batches <- MCBatches
  Handlers = {h1, h2}
  Faults = {"space", "number", "session", "rename", "residue"}
  MaxKills = 1
  MaxNotes = 3
SPECIFICATION Spec
SYMMETRY HandlerSymmetry
CHECK_DEADLOCK FALSE
INVARIANTS
  TypeOK
  TempIsOwn
  NotesOnce
  HandledStored
  
