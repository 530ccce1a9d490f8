\* Two requests, one recipient, a site budget of two mails; one call counter.
CONSTANTS
  site = site  anna = anna  w1 = w1  w2 = w2  login = login
  None = None  NoRow = NoRow
  MailBuckets <- TwoBuckets
  SiteBuckets <- SiteOnly
  Limit <- Limits
  Seconds <- Windows
  Mails <- ToAnna
  Rank <- SomeRank
  Keys <- OneKey
  CallSeconds = 2  CallLimit = 1  SweepLimit = 2  Retries = 2
  Workers <- TwoWorkers
  RequestTTL = 2  MaxTime = 3  MaxCalls = 2
SPECIFICATION FairSpec
INVARIANTS
  BudgetsExact
  CallsWithinLimit
  DeadlocksNeedASweep
PROPERTIES
  ReservedAtOnce
  EveryRequestEnds
