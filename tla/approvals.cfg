SPECIFICATION FairSpec
CONSTANTS
  i1 = i1
  i2 = i2
  c1 = c1
  c2 = c2
  a1 = a1
  a2 = a2
  Ids <- TwoIds
  NoId = NoId
  Calls <- TwoCalls
  NoCall = NoCall
  Answers <- TwoAnswers
  NoAnswer = NoAnswer
  Off = Off
  TTL = 3
  GatewayTimeout = 3
  EarlyTTL = 2
  TombTTL = 2
  MaxPending = 1
INVARIANT TypeOK
INVARIANT ResolverHasListener
INVARIANT AnswerUsedOnce
INVARIANT LiveRequestUnshadowed
INVARIANT PlaceholdersBounded
PROPERTY RequestsNeverRejuvenate
PROPERTY ApprovalReturns
PROPERTY AbandonedRequestPurged
