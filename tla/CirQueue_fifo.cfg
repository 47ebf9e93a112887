\* Two pushing and two popping threads around three slots.  Nobody is woken
\* but by a signal, and nobody has to call.
CONSTANTS
  p1 = p1  p2 = p2  c1 = c1  c2 = c2  x = x  y = y
  Producers = {p1, p2}
  Consumers = {c1, c2}
  Items = {x, y}
  QUE_SIZE = 3
  Nil = Nil
  NoThread = NoThread
SPECIFICATION Spec
INVARIANTS
  TypeOK
  RingConsistent
  TestStillHolds
  NoLostNotEmpty
  NoLostNotFull
PROPERTIES
  ImplementsFifo
  ImplementsFifoProgress
