\* An interval whose end falls into the last minute of the day.
CONSTANTS
  daily = daily  often = often
  Routes = {often}
  Interval <- MCInterval
  FirstTime <- MCFirstTime
  FirstStatus <- MCFirstStatus
  Hours = 2
  Minutes = 2
  Faults = {}
  MaxWaiting = 2
  MaxDone = 2
  MaxKills = 0
SPECIFICATION Spec
PROPERTY RunsAgain
