SPECIFICATION Spec
CHECK_DEADLOCK FALSE
CONSTANTS
  r1 = r1
  r2 = r2
  w1 = w1
  w2 = w2
  m1 = m1
  m2 = m2
  NoWorker = NoWorker
  NoJob = NoJob
  CollectionKey = collection
  ReviewKey = review
  Runs <- OneRun
  Workers <- OneWorker
  MemoKeys <- OneMemo
  MaxAttempts = 4
  MaxToken = 2
  MaxOutages = 0
  MaxResumes = 1
  LeaseTicks = 1
  MandatoryFirstAttempts = 3
  MaxRequiredReplacements = 1
  MaxPhysicalLaunches = 4
  MaxAttemptsPerLogicalArtifact = 2
  GlobalCodexProcesses = 2
  JobsPerRun = 2
  RunCapacity = 1
  QueuedRuns = 1
INVARIANTS
  BudgetLedger
  IInv
  CancellationIsClean
  LaunchLimits
PROPERTIES
  KeepsContract
