\* A session is lost while a file is loaded.
CONSTANTS
  fsn = fsn  inner = inner  zip = zip  ct = ct
  h1 = h1  h2 = h2
  None = None
  Files = {fsn}
  Kind <- MCKind
  Inside <- MCInside
  Handlers = {h1, h2}
  Capacity = 2
  Batches <- SessionEnds
  MaxCrashes = 0
  MaxLoads = 3
SPECIFICATION Spec
PROPERTY ReconnectWorks
