\* A confirmation is asked for two watches or more; a scan has at most two actionable calls.
CONSTANTS
  None = None
  u1 = u1
  g1 = g1
  btc = btc
  eth = eth
  m15 = m15
  m1 = m1
  t1 = t1
  Users <- MCUsers
  Groups <- MCGroups
  Coins <- MCCoins
  TopCoins <- MCTopCoins
  Tfs <- MCTfs
  PushTfs <- MCPushTfs
  Tokens <- MCTokens
  Threshold = 1
  MaxRoom = 1
  MaxCalls = 2
  MaxAtOnce = 1
SPECIFICATION ServiceSpec
INVARIANTS
  ListIsWhatWasAsked
  AnswerIsPaid
CONSTRAINT NoException

