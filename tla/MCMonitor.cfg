CONSTANTS
  Checks <- ThreeChecks
  Metrics = {"disk"}
  Runs = {r1, r2, r3}
SPECIFICATION MonitorFairSpec
PROPERTIES AlertsFollow
