-------------------------- MODULE MCStageRecovery --------------------------
(* Instances of StageRecovery for TLC. *)
EXTENDS StageRecovery, TLC

CONSTANTS w1, w2

OneWorker == {w1}
TwoWorkers == {w1, w2}

WorkerSymmetry == Permutations(Workers)
=============================================================================
