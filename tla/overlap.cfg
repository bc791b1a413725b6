SPECIFICATION Spec
CHECK_DEADLOCK FALSE
SYMMETRY WorkerSymmetry
CONSTANTS
  w1 = w1
  w2 = w2
  NoWorker = NoWorker
  Workers <- TwoWorkers
  MaxStageFailures = 1
  MaxAttemptsPerLogicalArtifact = 2
  MaxPhysicalLaunches = 2
  MaxOutages = 0
  MaxResumes = 0
INVARIANTS
  StagesInOrder
PROPERTIES
  KeepsContract
