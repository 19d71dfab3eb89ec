SPECIFICATION FairSpec
CONSTANTS
  Req = {health, api}
  Health = {health}
  RequestTimeout = 6
  HealthTimeout = 1
  Grace = 1
  Timeouts <- SomeTimeouts
  NoSetting = NoSetting
CHECK_DEADLOCK FALSE
INVARIANTS
  TypeOK
  AcceptedBeforeDrain
  CutsOffOnlyTheLost
  PoolOutlivesRequests
  HealthIsTold
PROPERTIES
  SignalsCutOnlyTheStart
  SignalEndsProcess
