SPECIFICATION FairSpec
CHECK_DEADLOCK FALSE
CONSTANTS
  w1 = w1
  w2 = w2
  NoWorker = NoWorker
  Workers <- OneWorker
  MaxStageFailures = 2
  MaxAttemptsPerLogicalArtifact = 2
  MaxPhysicalLaunches = 3
  MaxOutages = 1
  MaxResumes = 0
PROPERTIES
  ExhaustedRunsEnd
