\* What comes out of a zip is settled, though unzip may fail.
CONSTANTS
  fsn = fsn  inner = inner  zip = zip  ct = ct
  h1 = h1  h2 = h2
  None = None
  Files = {inner, zip}
  Kind <- MCKind
  Inside <- MCInside
  Handlers = {h1, h2}
  Capacity = 1
  Batches <- ZipUnpacks
  MaxCrashes = 1
  MaxLoads = 3
SPECIFICATION FairSpec
INVARIANT StartIsOwned
PROPERTY Settled
