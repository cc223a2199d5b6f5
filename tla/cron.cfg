\* One server, two jobs.
SPECIFICATION FairSpec
CONSTANTS
  s1 = s1
  s2 = s2
  j1 = j1
  j2 = j2
  Servers = {s1}
  Jobs = {j1, j2}
  MaxTime = 2
  NextFire <- MCNextFire
INVARIANTS TypeOK MarkerTracksRun ScheduleAhead RunsAreRecoverable
PROPERTY DueJobsRun
