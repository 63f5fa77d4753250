SPECIFICATION Spec
CONSTANTS
  Ticker <- MCTicker
  Fingerprint <- MCFingerprint
  Unsupported <- MCUnsupported
  Unroutable <- MCUnroutable
  Requests <- MCRequests
  Priors <- MCPriors
  Lane <- MCLane
  LaneOf <- MCLaneOf
  LaneLimits <- MCLaneLimits
  MaxWorkers = 2
  MaxInFlight = 2
  MaxAttempts = 2
INVARIANTS
  TypeOK
  LimitsHold
  NoTickerLost
  ManifestNeverRefused
  CheckpointAgrees
  DiscardedWorkIsRetryable
  RecordsAreHonest
  AbandonedWorkWindsDown
PROPERTIES
  CheckpointedOnce
  BatchReturns
  ImplementsContract
