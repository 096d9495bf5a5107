\* Three lookups, a watchdog of four units, three starts in five units.
CONSTANTS
  Attempts = 3
  LookupDelay = 1
  RestartSec = 2
  WatchdogSec = 4
  StartTimeout = 4
  LimitInterval = 5
  LimitBurst = 3
  Jitter = 1
  MaxFaults = 2
SPECIFICATION Spec
INVARIANTS TypeOK OnlyTheStuckAreKilled NeverGivenUp ReadyMeansServing
PROPERTIES BluetoothdHasItsTime WedgedIsReplaced ComesUp DownIsReported
