\* Both kinds of route, failing connections and transfers, one kill.
CONSTANTS
  daily = daily  often = often
  Routes = {daily, often}
  Interval <- MCInterval
  FirstTime <- MCFirstTime
  FirstStatus <- MCFirstStatus
  Hours = 2
  Minutes = 2
  Faults = {"connect", "transfer"}
  MaxWaiting = 1
  MaxDone = 2
  MaxKills = 1
SPECIFICATION Spec
INVARIANTS
  TypeOK
  
  NoneLeftRunning
  DoneToday
 
