\* A transfer that takes longer than a minute.
CONSTANTS
  daily = daily  often = often
  Routes = {daily}
  Interval <- MCInterval
  FirstTime <- MCFirstTime
  FirstStatus <- MCFirstStatus
  Hours = 2
  Minutes = 2
  Faults = {}
  MaxWaiting = 2
  MaxDone = 2
  MaxKills = 0
SPECIFICATION Spec
INVARIANT OncePerDay
