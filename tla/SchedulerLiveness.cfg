CONSTANTS
  lake = lake
  mart = mart
  early = early
  late = late
  r1 = r1
  r2 = r2
  Jobs = {mart}
  SilverJobs = {mart}
  Crons = {early}
  Requests = {r1}
  MaxRuns = 2
SPECIFICATION FairSpec
PROPERTY RunsFinish
