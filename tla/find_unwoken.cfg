SPECIFICATION Spec
CONSTANTS
  i1 = i1
  i2 = i2
  c1 = c1
  c2 = c2
  a1 = a1
  a2 = a2
  Ids <- OneId
  NoId = NoId
  Calls <- OneCall
  NoCall = NoCall
  Answers <- OneAnswer
  NoAnswer = NoAnswer
  Off = Off
  TTL = 2
  GatewayTimeout = 2
  EarlyTTL = 2
  TombTTL = 2
  MaxPending = 1
PROPERTY AcceptedAnswerWakesWaiter
