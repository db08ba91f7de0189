SPECIFICATION MCSpec
CONSTANTS
  Interface = {i1, i2}
  TradeDaily = {i2}
  Request = {r1}
  tick = tick
  User = {r1, tick}
  None = None
  Past = 1
  Future = 1
  RecheckPast = 1
  FirstOfMonth = {2}
  Published = {0, 1, 2}
  OpenDays = {0, 2}
  Ranges <- MCRanges
  LastDay = 2
  Events = 1
INVARIANT TypeOK
PROPERTY OncePerMinute
INVARIANT TradeDaysOnly
INVARIANT AheadIsCovered
