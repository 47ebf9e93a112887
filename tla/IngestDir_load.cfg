\* Zips and record files when renames, moves, sessions and loads go wrong.
CONSTANTS
  fsn = fsn  inner = inner  zip = zip  ct = ct
  h1 = h1  h2 = h2
  None = None
  Files = {fsn, inner, zip, ct}
  Kind <- MCKind
  Inside <- MCInside
  Handlers = {h1, h2}
  Capacity = 2
  Batches <- ZipsOrRecords
  MaxCrashes = 1
  MaxLoads = 3
SPECIFICATION Spec
SYMMETRY HandlerSymmetry
INVARIANTS
  TypeOK
  NoFileLost
  ClaimedOnce
  CutQuiesces
  
  HandledIsLoaded
