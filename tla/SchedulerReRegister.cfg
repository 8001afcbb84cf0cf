CONSTANTS
  lake = lake
  mart = mart
  early = early
  late = late
  r1 = r1
  r2 = r2
  Jobs = {lake}
  SilverJobs = {}
  Crons = {early, late}
  Requests = {r1, r2}
  MaxRuns = 0
SPECIFICATION Spec
INVARIANT ReRegisteringIsSafe
