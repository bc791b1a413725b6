--------------------------- MODULE MCLeaseEngine ---------------------------
(* Instances of LeaseEngine for TLC. *)
EXTENDS LeaseEngine, TLC

CONSTANTS r1, r2, w1, w2, m1, m2

OneRun == {r1}
TwoRuns == {r1, r2}
OneWorker == {w1}
TwoWorkers == {w1, w2}
OneMemo == {m1}
TwoMemos == {m1, m2}

MemoSymmetry == Permutations(MemoKeys)
RunSymmetry == Permutations(Runs)
WorkerSymmetry == Permutations(Workers)
=============================================================================
