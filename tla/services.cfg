SPECIFICATION ServiceSpec
CHECK_DEADLOCK FALSE
SYMMETRY ServiceSymmetry
CONSTANTS
  x1 = x1
  x2 = x2
  y1 = y1
  y2 = y2
  u1 = u1
  u2 = u2
  NoRequest = NoRequest
  NoMembership = NoMembership
  Requests <- TwoOfThem
  IdempotencyKeys <- TwoOthers
  CommitteeCost = 2
  DepartmentCost = 1
  ViewCost = 1
  TranslationCost = 1
  FreeSignupAllowance = 2
  ProAllowance = 2
  UltraAllowance = 3
  MaxReads = 1
  MaxChanges = 1
  Memberships <- TwoOfThem
  MaxEvents = 3
  Symbols <- TwoOfThem
  Accounts <- TwoOthers
  Preparers <- TwoOthers
  MaxMishaps = 1
  MaxResearches = 1
  Stocks <- TwoStocks
  Members <- TwoMembers
  Schedulers <- TwoOfThem
  LanguageOf <- EnglishAndKorean
  WatchlistLimit = 1
  MonthlyChanges = 1
  MaxEditions = 2
  MaxSetbacks = 1
INVARIANTS
  CreditTypeOK
  NoDoubleCount
  OnlySuccessIsCharged
  UpgradesGrantTheDifference
  HeldForARun
  BillingTypeOK
  NewestEventDecides
  UpgradeSurvivesTheOldEnd
  PaidStaysPaid
  PreparationTypeOK
  OnePreparationAtATime
  BriefingTypeOK
  RepeatsOverlap
  SteadyWatchersAreServed
PROPERTIES
  AdmissionsAreCovered
  
  OnlyTheLastClaimCompletes
