\* Two runs, a crash, a shutdown, one failure of the queue, one lost record.
SPECIFICATION Spec
CONSTANTS
  Runs = {r1, r2}
  Hooked = {r1}
  Idle = idle
  MaxRetries = 1
  MaxCrashes = 1
  MaxShutdowns = 1
  MaxFaults = 1
  MaxLosses = 1
INVARIANTS
  TypeOK
  EngineAtMostOnce
  WebhookBounded
  ActiveRunsQueued
  RunningHasDriver
PROPERTIES
  QueuedRunStarts
  RunningRunEnds
  ImplementsRunLifecycle
\* The gateway may be idle, or down for good.
CHECK_DEADLOCK FALSE
