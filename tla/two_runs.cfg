SPECIFICATION Spec
CHECK_DEADLOCK FALSE
SYMMETRY RunSymmetry
CONSTANTS
  r1 = r1
  r2 = r2
  w1 = w1
  w2 = w2
  m1 = m1
  m2 = m2
  NoWorker = NoWorker
  NoJob = NoJob
  CollectionKey = collection
  ReviewKey = review
  Runs <- TwoRuns
  Workers <- OneWorker
  MemoKeys <- OneMemo
  MaxAttempts = 2
  MaxToken = 2
  MaxOutages = 0
  MaxResumes = 1
  LeaseTicks = 1
  MandatoryFirstAttempts = 3
  MaxRequiredReplacements = 0
  MaxPhysicalLaunches = 2
  MaxAttemptsPerLogicalArtifact = 2
  GlobalCodexProcesses = 2
  JobsPerRun = 2
  RunCapacity = 1
  QueuedRuns = 2
INVARIANTS
  Capacity
