\* Three programs and two daemons, one trouble and what the administrator
\* starts and stops.  With a full table of processes or threads, and nobody
\* to start a daemon, all may stop: CHECK_DEADLOCK FALSE.
CONSTANTS
  p1 = p1  p2 = p2  p3 = p3  d1 = d1  d2 = d2  lister = lister  switch = switch
  Programs = {p1, p2, p3}
  Daemons = {d1, d2}
  Roles = {lister, switch}
  ThreadSize = 2
  MAX_THREAD_NUM = 3
  MaxFds = 1
  MaxTroubles = 1
  MaxStarts = 2
SPECIFICATION Spec
CHECK_DEADLOCK FALSE
INVARIANTS
  TypeOK
  OneOfEach
PROPERTY ServesAtLast
