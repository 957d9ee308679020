SPECIFICATION WsSpec
CONSTANTS
  Topics = {"Ticker24h"}
  MaxSubs = 1
  MaxAttempts = 63
PROPERTIES BackoffNeverShrinks
CHECK_DEADLOCK FALSE
