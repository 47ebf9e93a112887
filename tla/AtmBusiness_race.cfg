\* Two handlers and two files of one business, and nothing that goes wrong.
CONSTANTS
  atm1 = atm1  atm2 = atm2  crs = crs  bare = bare
  draw = draw  deposit = deposit  check = check
  h1 = h1  h2 = h2
  None = None
  Files = {atm1, atm2}
  Business <- MCBusiness
  Empty = {}
  Batches = {{atm1, atm2}}
  Handlers = {h1, h2}
  Faults = {}
  MaxKills = 0
  MaxNotes = 3
SPECIFICATION Spec
CHECK_DEADLOCK FALSE
INVARIANT NoDuplicates
