\* Files on every way in, and up to two mishaps of any kind.
CONSTANTS
  a = a  b = b  c = c  zip = zip  in = in  poka = poka  odd = odd
  NoFile = NoFile
  Files = {a, b, c, zip, in, poka, odd}
  Kind <- MCKind
  Inside <- MCInside
  Format <- MCFormat
  Records <- MCRecords
  Rules = {"fsn"}
  BatchSize = 2
  Batches <- MCBatches
SPECIFICATION Spec
INVARIANTS
  TypeOK
  NothingLost
  
  HandledIsSent
  SentOnce
PROPERTY Forwarded
