SPECIFICATION LiveSpec
CHECK_DEADLOCK FALSE
CONSTANTS
  w1 = w1
  u1 = u1
  u2 = u2
  l1 = l1
  l2 = l2
  j1 = j1
  j2 = j2
  s1 = s1
  s2 = s2
  a1 = a1
  p1 = p1
  b1 = b1
  NoWorker = NoWorker
  NoTranslation = NoTranslation
  Workers <- OneWorker
  MaxStageFailures = 2
  MaxAttemptsPerLogicalArtifact = 2
  MaxPhysicalLaunches = 3
  MaxOutages = 0
  MaxResumes = 0
  Readers <- TwoReaders
  TranslationLoops <- TwoLoops
  Translations <- TwoTranslations
  MaxFailures = 1
  MaxRetries = 1
  Symbols <- TwoSymbols
  Accounts <- OneAccount
  Preparers <- OnePreparer
  MaxMishaps = 1
  MaxResearches = 1
  Stocks <- OneStock
  Members <- TwoReaders
  Schedulers <- OneScheduler
  LanguageOf <- EnglishAndKorean
  WatchlistLimit = 1
  MonthlyChanges = 1
  MaxEditions = 4
  MaxSetbacks = 2
INVARIANTS
  TranslationTypeOK
  PendingMeansOpen
  PaidIsServed
PROPERTIES
  LateSettlementsAreIgnored
  RunsEnd
  ChargesSettle
  ResearchIsNotHeldUp
  SteadyWatchersAreBriefed
