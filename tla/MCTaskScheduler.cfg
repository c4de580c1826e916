CONSTANTS
  t1 = t1
  t2 = t2
  Tasks = {t1, t2}
  Configured = {t1}
  Schedules = {"hourly", "daily", "bad"}
  Valid = {"hourly", "daily"}
  FromConfig <- HourlyT1
  Handlers = {h1, h2}
  NoTask = NoTask
  MaxRuns = 2
SPECIFICATION SchedulerFairSpec
INVARIANTS ScheduleIsShown
PROPERTIES RunsFollowList
