CONSTANTS
  lake = lake
  mart = mart
  early = early
  late = late
  r1 = r1
  r2 = r2
  Jobs = {lake, mart}
  SilverJobs = {mart}
  Crons = {early, late}
  Requests = {r1}
  MaxRuns = 2
SPECIFICATION Spec
SYMMETRY MCSymmetry
INVARIANTS
  TypeOK
  SuccessIsEarned
  NoContainerForgotten
  ScheduleMatchesRows
PROPERTY InactiveStaysQuiet
