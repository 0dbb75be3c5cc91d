CONSTANTS
  PoolLen = 2
  TxRetries = 1
  TxTimeout = 1
  HeartbeatInterval = 1
  TxMsgAttempts = 2
  TxMsgRetryInterval = 1
  RequestTypes <- MCRequestTypes
  CentralTypes <- MCCentralTypes
  CentralIds <- MCCentralIds
  DeferTimes = {0, 1}
  NetCap = 1
  c1 = c1
  c2 = c2

SPECIFICATION ReinitSpec

PROPERTY PayloadReleasedOnFree
