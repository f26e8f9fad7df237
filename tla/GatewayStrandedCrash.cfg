\* One run, one crash and no shutdown.
SPECIFICATION Spec
CONSTANTS
  Runs = {r1}
  Hooked = {r1}
  Idle = idle
  MaxRetries = 0
  MaxCrashes = 1
  MaxShutdowns = 0
  MaxFaults = 0
  MaxLosses = 0
INVARIANT
  NoStrandedRun
CHECK_DEADLOCK FALSE
