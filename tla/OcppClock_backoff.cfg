CONSTANTS
  Width = 3
  TimeMax = 3
  TxTimeout = 10
  TxMsgAttempts = 3

SPECIFICATION Spec

INVARIANT BackoffNeverShrinks
