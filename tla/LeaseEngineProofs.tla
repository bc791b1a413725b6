------------------------- MODULE LeaseEngineProofs -------------------------
(***************************************************************************)
(* Proofs about LeaseEngine for every number of runs, workers, memos,      *)
(* attempts and processes: the invariant IInv is inductive, and it implies *)
(* that a job never has two attempts at work and is accepted once.         *)
(***************************************************************************)
EXTENDS LeaseEngine, TLAPS

-----------------------------------------------------------------------------
(* Jobs, and what a job's record is after an update. *)

LEMMA JobsFacts ==
  /\ \A j \in Jobs : RunOf(j) \in Runs
  /\ \A r \in Runs : JobsOf(r) \subseteq Jobs
  /\ \A r \in Runs : \A j \in Jobs : j \in JobsOf(r) <=> RunOf(j) = r
  /\ \A r \in Runs : \A k \in Keys : <<r, k>> \in Jobs /\ RunOf(<<r, k>>) = r
BY DEF Jobs, JobsOf, RunOf

LEMMA UnleasedFacts ==
  ASSUME NEW rec \in JobRecords, NEW s \in JobStatuses
  PROVE  /\ Unleased(rec, s) \in JobRecords
         /\ Unleased(rec, s).status = s
         /\ Unleased(rec, s).attempt = rec.attempt
         /\ Unleased(rec, s).token = rec.token
         /\ Unleased(rec, s).class = rec.class
         /\ Unleased(rec, s).owner = NoWorker
         /\ Unleased(rec, s).lease = 0
<1>1. 0 \in 0..LeaseTicks
      BY BoundsAreNatural
<1>2. Unleased(rec, s) \in JobRecords
      BY <1>1 DEF Unleased, JobRecords
<1>3. /\ Unleased(rec, s).status = s
      /\ Unleased(rec, s).owner = NoWorker
      /\ Unleased(rec, s).lease = 0
      BY DEF Unleased, JobRecords
<1>4. /\ Unleased(rec, s).attempt = rec.attempt
      /\ Unleased(rec, s).token = rec.token
      /\ Unleased(rec, s).class = rec.class
      BY DEF Unleased, JobRecords
<1> QED BY <1>2, <1>3, <1>4

-----------------------------------------------------------------------------
(* The initial state. *)

LEMMA InitEstablishes == Init => IInv
<1> SUFFICES ASSUME Init PROVE IInv
    OBVIOUS
<1> USE BoundsAreNatural
<1>1. TypeOK
  <2>1. run \in [Runs -> RunRecords]
        BY DEF Init, RunRecords, RunStatuses
  <2>2. job \in [Jobs -> JobRecords]
        BY DEF Init, AbsentJob, JobRecords, JobStatuses, Classes, None
  <2>3. attempt \in [AttemptIds -> AttemptRecords]
        BY DEF Init, AttemptRecords, AttemptStatuses, None
  <2>4. outages \in 0..MaxOutages /\ resumes \in 0..MaxResumes
        BY DEF Init
  <2>5. prepared \subseteq Runs /\ claims \subseteq Claims /\ down \subseteq Workers
        BY DEF Init
  <2> QED BY <2>1, <2>2, <2>3, <2>4, <2>5 DEF TypeOK
<1>2. AttemptsHaveJobs
      BY DEF Init, AttemptsHaveJobs, Exists
<1>3. PointersResolve
      BY DEF Init, PointersResolve, AbsentJob, None
<1>4. ActiveIsCurrent
      BY DEF Init, ActiveIsCurrent, ActiveAttempts, ActiveStatuses
<1>5. ExecutingIsActive
      BY DEF Init, ExecutingIsActive, AbsentJob, ProcessJob
<1>6. ClaimsNameTheirAttempts
      BY DEF Init, ClaimsNameTheirAttempts
<1>7. CancelOnlyWhileCancelling
      BY DEF Init, CancelOnlyWhileCancelling, AbsentJob
<1>8. AcceptedOnce
      BY DEF Init, AcceptedOnce, AbsentJob
<1> QED BY <1>1, <1>2, <1>3, <1>4, <1>5, <1>6, <1>7, <1>8 DEF IInv

-----------------------------------------------------------------------------
(* Most steps touch few of the things the invariant speaks of.  What such a  *)
(* step keeps, and that keeping it is enough.                                *)

\* No attempt changes its status or its job.
AttemptsSame ==
  \A a \in AttemptIds : /\ attempt'[a].status = attempt[a].status
                        /\ attempt'[a].job = attempt[a].job

\* Attempts may end or be born, but those that exist keep their job.
AttemptsKeep ==
  \A a \in AttemptIds : Exists(a) =>
    attempt'[a].status # "unborn" /\ attempt'[a].job = attempt[a].job

\* What a launched claim remembers is inherited from a launched claim.
Inherits(c) == \E d \in claims : /\ d.phase \in Launched
                                 /\ d.job = c.job
                                 /\ d.attempt = c.attempt
                                 /\ d.current = c.current
ClaimsInherit == \A c \in claims' : c.phase \in Launched => Inherits(c)

\* A job keeps its attempt, its result and its existence, does not begin to
\* execute, and stops executing only by failing.
JobKeeps(j) ==
  /\ job'[j].attempt = job[j].attempt
  /\ job[j].status # "absent" => job'[j].status # "absent"
  /\ job'[j].status = "succeeded" <=> job[j].status = "succeeded"
  /\ job'[j].status \in ProcessJob =>
       job[j].status \in ProcessJob /\ job'[j].owner = job[j].owner
  /\ job'[j].status = "running" => job[j].status = "running"
  /\ job[j].status \in ProcessJob \cup {"failed"} =>
       job'[j].status \in ProcessJob \cup {"failed"}
JobsKeep == \A j \in Jobs : JobKeeps(j)

LEMMA InheritedClaims ==
  ASSUME IInv, AttemptsKeep, ClaimsInherit
  PROVE  ClaimsNameTheirAttempts'
<1> SUFFICES ASSUME NEW c \in claims', c.phase \in Launched
             PROVE  /\ c.attempt \in AttemptIds /\ Exists(c.attempt)'
                    /\ attempt'[c.attempt].job = c.job
                    /\ c.current \in AttemptIds /\ Exists(c.current)'
                    /\ attempt'[c.current].job = c.job
    BY DEF ClaimsNameTheirAttempts, AttemptIds, Launched
<1>1. PICK d \in claims : /\ d.phase \in Launched
                          /\ d.job = c.job
                          /\ d.attempt = c.attempt
                          /\ d.current = c.current
      BY DEF ClaimsInherit, Inherits
<1>2. /\ d.attempt \in AttemptIds /\ Exists(d.attempt)
      /\ attempt[d.attempt].job = d.job
      /\ d.current \in AttemptIds /\ Exists(d.current)
      /\ attempt[d.current].job = d.job
      BY <1>1 DEF IInv, ClaimsNameTheirAttempts
<1> QED BY <1>1, <1>2 DEF AttemptsKeep, Exists

LEMMA QuietStep ==
  ASSUME IInv, TypeOK', AttemptsSame, JobsKeep, ClaimsInherit,
         CancelOnlyWhileCancelling'
  PROVE  IInv'
<1> USE DEF IInv, AttemptsSame, JobsKeep, JobKeeps
<1>1. ActiveAttempts' = ActiveAttempts
      BY DEF ActiveAttempts
<1>2. AttemptsHaveJobs'
      BY DEF AttemptsHaveJobs, Exists
<1>3. PointersResolve'
  <2>1. \A j \in Jobs : job[j].attempt # None => job[j].attempt \in AttemptIds
        BY DEF TypeOK, JobRecords
  <2> QED BY <2>1 DEF PointersResolve, Exists
<1>4. ActiveIsCurrent'
  <2> SUFFICES ASSUME NEW a \in ActiveAttempts
               PROVE  /\ job'[attempt'[a].job].attempt = a
                      /\ job'[attempt'[a].job].status \in ProcessJob \cup {"failed"}
      BY <1>1 DEF ActiveIsCurrent
  <2>1. a \in AttemptIds /\ attempt[a].job \in Jobs
        BY DEF ActiveAttempts, ActiveStatuses, AttemptsHaveJobs, Exists
  <2> QED BY <2>1 DEF ActiveIsCurrent
<1>5. ExecutingIsActive'
  <2>1. \A j \in Jobs : job[j].status = "running" => job[j].status \in ProcessJob
        BY DEF ProcessJob
  <2>2. \A j \in Jobs : job[j].status \in ProcessJob => job[j].attempt \in AttemptIds
        BY DEF ExecutingIsActive, ActiveAttempts
  <2> QED BY <1>1, <2>1, <2>2 DEF ExecutingIsActive
<1>6. ClaimsNameTheirAttempts'
      BY InheritedClaims DEF AttemptsKeep, Exists
<1>7. AcceptedOnce'
      BY DEF AcceptedOnce
<1> QED BY <1>2, <1>3, <1>4, <1>5, <1>6, <1>7

LEMMA AdvanceFacts ==
  ASSUME IInv, NEW c \in claims, NEW phase \in Phases, Advance(c, phase),
         phase \in Launched => c.phase \in Launched
  PROVE  claims' \subseteq Claims /\ ClaimsInherit
<1> DEFINE d == [c EXCEPT !.phase = phase]
<1>1. c \in Claims
      BY DEF IInv, TypeOK
<1>2. /\ d \in Claims /\ d.phase = phase
      /\ d.job = c.job /\ d.attempt = c.attempt /\ d.current = c.current
      BY <1>1 DEF Claims
<1>3. claims' = (claims \ {c}) \cup {d}
      BY DEF Advance
<1>4. claims' \subseteq Claims
      BY <1>2, <1>3 DEF IInv, TypeOK
<1>5. ClaimsInherit
      BY <1>2, <1>3 DEF ClaimsInherit, Inherits
<1> QED BY <1>4, <1>5

LEMMA FewerClaims ==
  ASSUME IInv, claims' \subseteq claims
  PROVE  claims' \subseteq Claims /\ ClaimsInherit
BY DEF IInv, TypeOK, ClaimsInherit, Inherits

-----------------------------------------------------------------------------
(* The steps of runs and workers that leave jobs and attempts alone. *)

LEMMA JobsAndAttemptsUnchanged ==
  ASSUME IInv, UNCHANGED <<job, attempt>>
  PROVE  AttemptsSame /\ JobsKeep
BY DEF AttemptsSame, JobsKeep, JobKeeps

LEMMA ActivateKeeps ==
  ASSUME IInv, NEW r \in Runs, ActivateNextRun(r)
  PROVE  IInv'
<1>1. PICK s \in RunStatuses : /\ run' = [run EXCEPT ![r].status = s]
                               /\ run[r].status \in {"queued", "running"}
      BY DEF ActivateNextRun, Exhausted, ExhaustedIn, ExhaustedStatus, RunStatuses
<1>2. TypeOK'
      BY <1>1 DEF IInv, TypeOK, RunRecords, ActivateNextRun
<1>3. CancelOnlyWhileCancelling'
      BY <1>1, JobsFacts DEF IInv, TypeOK, RunRecords, CancelOnlyWhileCancelling, ActivateNextRun
<1>4. ClaimsInherit
      BY FewerClaims DEF ActivateNextRun
<1> QED BY <1>2, <1>3, <1>4, QuietStep, JobsAndAttemptsUnchanged DEF ActivateNextRun

LEMMA EndKeeps ==
  ASSUME IInv, NEW r \in Runs, PublishReport(r) \/ TerminalizeWorkflowFailure(r)
  PROVE  IInv'
<1>1. PICK s \in RunStatuses : /\ run' = [run EXCEPT ![r].status = s]
                               /\ run[r].status = "running"
      BY DEF PublishReport, TerminalizeWorkflowFailure, RunStatuses
<1>2. UNCHANGED <<job, attempt, prepared, claims, down, outages, resumes>>
      BY DEF PublishReport, TerminalizeWorkflowFailure
<1>3. TypeOK'
      BY <1>1, <1>2 DEF IInv, TypeOK, RunRecords
<1>4. CancelOnlyWhileCancelling'
      BY <1>1, <1>2, JobsFacts DEF IInv, TypeOK, RunRecords, CancelOnlyWhileCancelling
<1>5. ClaimsInherit
      BY <1>2, FewerClaims
<1> QED BY <1>2, <1>3, <1>4, <1>5, QuietStep, JobsAndAttemptsUnchanged

\* A poll or a commit that writes nothing, or only stops its worker.
LEMMA DropKeeps ==
  ASSUME IInv, NEW c \in claims,
         ReserveDeclined(c) \/ ReserveThrows(c) \/ CommitStale(c)
  PROVE  IInv'
<1>1. /\ UNCHANGED <<run, job, attempt, prepared, outages, resumes>>
      /\ claims' = claims \ {c}
      /\ down' = down \/ down' = down \cup {c.owner}
      BY DEF ReserveDeclined, ReserveThrows, CommitStale, Drop
<1>2. claims' \subseteq Claims /\ ClaimsInherit
      BY <1>1, FewerClaims
<1>3. c.owner \in Workers
      BY DEF IInv, TypeOK, Claims
<1>4. TypeOK'
      BY <1>1, <1>2, <1>3 DEF IInv, TypeOK
<1>5. CancelOnlyWhileCancelling'
      BY <1>1 DEF IInv, CancelOnlyWhileCancelling
<1> QED BY <1>1, <1>2, <1>4, <1>5, QuietStep, JobsAndAttemptsUnchanged

LEMMA AdvanceKeeps ==
  ASSUME IInv, NEW c \in claims, ReserveAtCapacity(c) \/ PersistJobs(c)
  PROVE  IInv'
<1>1. UNCHANGED <<run, job, attempt, down, outages, resumes>>
      BY DEF ReserveAtCapacity, PersistJobs
<1>2. prepared' \subseteq Runs
  <2>1. RunOf(c.job) \in Runs
        BY JobsFacts DEF IInv, TypeOK, Claims
  <2> QED BY <2>1 DEF IInv, TypeOK, ReserveAtCapacity, PersistJobs
<1>3. claims' \subseteq Claims /\ ClaimsInherit
      BY AdvanceFacts DEF ReserveAtCapacity, PersistJobs, Reserving, Collects, Phases, Launched
<1>4. TypeOK'
      BY <1>1, <1>2, <1>3 DEF IInv, TypeOK
<1>5. CancelOnlyWhileCancelling'
      BY <1>1 DEF IInv, CancelOnlyWhileCancelling
<1> QED BY <1>1, <1>3, <1>4, <1>5, QuietStep, JobsAndAttemptsUnchanged

LEMMA ConsumeReplacementKeeps ==
  ASSUME IInv, NEW c \in claims, ConsumeReplacementBudget(c)
  PROVE  IInv'
<1> DEFINE r == RunOf(c.job)
<1>1. r \in Runs /\ run[r].repl \in Nat
      BY JobsFacts DEF IInv, TypeOK, Claims, RunRecords
<1>2. UNCHANGED <<job, attempt, prepared, down, outages, resumes>>
      BY DEF ConsumeReplacementBudget
<1>3. CASE run[r].repl > 0
  <2>1. run' = [run EXCEPT ![r].repl = run[r].repl - 1] /\ Advance(c, "charged")
        BY <1>3 DEF ConsumeReplacementBudget
  <2>2. claims' \subseteq Claims /\ ClaimsInherit
        BY <2>1, AdvanceFacts DEF ConsumeReplacementBudget, Phases, Launched
  <2>3. run[r].repl - 1 \in Nat
        BY <1>1, <1>3
  <2>4. run' \in [Runs -> RunRecords]
        BY <1>1, <2>1, <2>3 DEF IInv, TypeOK, RunRecords
  <2>5. \A s \in Runs : run'[s].status = run[s].status
        BY <1>1, <2>1 DEF IInv, TypeOK, RunRecords
  <2>6. TypeOK'
        BY <1>2, <2>2, <2>4 DEF IInv, TypeOK
  <2>7. CancelOnlyWhileCancelling'
        BY <1>2, <2>5, JobsFacts DEF IInv, CancelOnlyWhileCancelling
  <2> QED BY <1>2, <2>2, <2>6, <2>7, QuietStep, JobsAndAttemptsUnchanged
<1>4. CASE ~(run[r].repl > 0)
  <2>1. UNCHANGED run /\ Drop(c)
        BY <1>4 DEF ConsumeReplacementBudget
  <2>2. claims' \subseteq Claims /\ ClaimsInherit
        BY <2>1, FewerClaims DEF Drop
  <2>3. TypeOK' /\ CancelOnlyWhileCancelling'
        BY <1>2, <2>1, <2>2 DEF IInv, TypeOK, CancelOnlyWhileCancelling
  <2> QED BY <1>2, <2>2, <2>3, QuietStep, JobsAndAttemptsUnchanged
<1> QED BY <1>3, <1>4

LEMMA OutageKeeps ==
  ASSUME IInv, NEW w \in Workers, Crash(w) \/ Shutdown(w) \/ Restart(w)
  PROVE  IInv'
<1>1. UNCHANGED <<run, job, attempt, prepared, resumes>>
      BY DEF Crash, Shutdown, Restart
<1>2. claims' \subseteq claims
      BY DEF Crash, Shutdown, Restart
<1>3. outages' \in 0..MaxOutages
      BY BoundsAreNatural DEF IInv, TypeOK, Crash, Shutdown, Restart
<1>4. down' \subseteq Workers
      BY DEF IInv, TypeOK, Crash, Shutdown, Restart
<1>5. claims' \subseteq Claims /\ ClaimsInherit
      BY <1>2, FewerClaims
<1>6. TypeOK'
      BY <1>1, <1>3, <1>4, <1>5 DEF IInv, TypeOK
<1>7. CancelOnlyWhileCancelling'
      BY <1>1 DEF IInv, CancelOnlyWhileCancelling
<1> QED BY <1>1, <1>5, <1>6, <1>7, QuietStep, JobsAndAttemptsUnchanged

-----------------------------------------------------------------------------
(* The steps that write jobs and leave the attempts alone. *)

LEMMA AttemptsUnchanged ==
  ASSUME UNCHANGED attempt
  PROVE  AttemptsSame
BY DEF AttemptsSame

\* A job that is written, while every other one stays as it is.
LEMMA OneJobWritten ==
  ASSUME IInv, NEW j \in Jobs, NEW rec \in JobRecords,
         job' = [job EXCEPT ![j] = rec]
  PROVE  /\ job' \in [Jobs -> JobRecords]
         /\ job'[j] = rec
         /\ \A i \in Jobs : i # j => job'[i] = job[i] /\ JobKeeps(i)
BY DEF IInv, TypeOK, JobKeeps

LEMMA CreateKeeps ==
  ASSUME IInv, NEW r \in Runs, Create(r)
  PROVE  IInv'
<1> DEFINE j == <<r, CollectionKey>>
           rec == [job[j] EXCEPT !.status = "queued"]
<1>1. j \in Jobs /\ RunOf(j) = r /\ job[j].status = "absent"
      BY JobsFacts DEF Create, JobsOf, Keys
<1>2. /\ rec \in JobRecords /\ rec.status = "queued"
      /\ rec.attempt = job[j].attempt
      BY <1>1 DEF IInv, TypeOK, JobRecords, JobStatuses
<1>3. /\ job' = [job EXCEPT ![j] = rec]
      /\ run' = [run EXCEPT ![r].status = "queued"]
      BY DEF Create
<1>4. JobsKeep
  <2>1. JobKeeps(j)
        BY <1>1, <1>2, <1>3, OneJobWritten DEF JobKeeps, ProcessJob
  <2> QED BY <1>1, <1>2, <1>3, <2>1, OneJobWritten DEF JobsKeep
<1>5. claims' \subseteq Claims /\ ClaimsInherit
      BY FewerClaims DEF Create
<1>6. run' \in [Runs -> RunRecords]
      BY <1>3 DEF IInv, TypeOK, RunRecords, RunStatuses
<1>7. TypeOK'
      BY <1>1, <1>2, <1>3, <1>5, <1>6, OneJobWritten DEF IInv, TypeOK, Create
<1>8. CancelOnlyWhileCancelling'
  <2> SUFFICES ASSUME NEW i \in Jobs, job'[i].status = "cancel-requested"
               PROVE  run'[RunOf(i)].status = "cancelling"
      BY DEF CancelOnlyWhileCancelling
  <2>1. i # j /\ job[i].status = "cancel-requested"
        BY <1>1, <1>2, <1>3, OneJobWritten
  <2>2. RunOf(i) # r
        BY <2>1, JobsFacts DEF Create
  <2> QED BY <1>3, <2>1, <2>2, JobsFacts DEF IInv, TypeOK, CancelOnlyWhileCancelling
<1>9. AttemptsSame
      BY AttemptsUnchanged DEF Create
<1> QED BY <1>4, <1>5, <1>7, <1>8, <1>9, QuietStep

LEMMA ClaimKeeps ==
  ASSUME IInv, NEW w \in Workers, NEW j \in Jobs, Claim(w, j)
  PROVE  IInv'
<1> DEFINE rec == [job[j] EXCEPT !.status = "leased", !.owner = w,
                                 !.token = job[j].token + 1, !.lease = LeaseTicks]
           d == [owner |-> w, job |-> j, token |-> job[j].token + 1,
                 prior |-> job[j].attempt, class |-> job[j].class,
                 phase |-> "claimed", attempt |-> None, current |-> None]
<1>1. job[j].token + 1 \in 0..MaxToken /\ LeaseTicks \in 0..LeaseTicks
      BY BoundsAreNatural DEF IInv, TypeOK, JobRecords, Claim
<1>2. /\ rec \in JobRecords /\ rec.status = "leased"
      /\ rec.attempt = job[j].attempt
      BY <1>1 DEF IInv, TypeOK, JobRecords, JobStatuses
<1>3. /\ job' = [job EXCEPT ![j] = rec]
      /\ claims' = claims \cup {d}
      BY DEF Claim
<1>4. job[j].status \in {"queued", "retry-wait", "leased"}
      BY DEF Claim
<1>5. JobsKeep
  <2>1. JobKeeps(j)
        BY <1>2, <1>3, <1>4, OneJobWritten DEF JobKeeps, ProcessJob
  <2> QED BY <1>2, <1>3, <2>1, OneJobWritten DEF JobsKeep
<1>6. d \in Claims /\ d.phase \notin Launched
      BY <1>1 DEF IInv, TypeOK, JobRecords, Claims, Phases, Launched
<1>7. claims' \subseteq Claims
      BY <1>3, <1>6 DEF IInv, TypeOK
<1>8. ClaimsInherit
      BY <1>3, <1>6 DEF ClaimsInherit, Inherits
<1>9. TypeOK'
      BY <1>2, <1>3, <1>7, OneJobWritten DEF IInv, TypeOK, Claim
<1>10. UNCHANGED <<run, attempt>>
      BY DEF Claim
<1>11. CancelOnlyWhileCancelling'
      BY <1>2, <1>3, <1>10, OneJobWritten DEF IInv, CancelOnlyWhileCancelling
<1> QED BY <1>5, <1>8, <1>9, <1>10, <1>11, QuietStep, AttemptsUnchanged

LEMMA ReleaseKeeps ==
  ASSUME IInv, NEW c \in claims, Release(c)
  PROVE  IInv'
<1> DEFINE rec == Unleased(job[c.job], "queued")
<1>1. c.job \in Jobs /\ job[c.job] \in JobRecords
      BY DEF IInv, TypeOK, Claims
<1>2. rec \in JobRecords /\ rec.status = "queued" /\ rec.attempt = job[c.job].attempt
      BY <1>1, UnleasedFacts DEF JobStatuses
<1>3. claims' \subseteq Claims /\ ClaimsInherit
      BY FewerClaims DEF Release, Drop
<1>4. /\ UNCHANGED <<run, attempt, prepared, down, outages, resumes>>
      /\ AttemptsSame
      BY AttemptsUnchanged DEF Release
<1>5. CASE FenceHolds(c)
  <2>1. job' = [job EXCEPT ![c.job] = rec] /\ job[c.job].status = "leased"
        BY <1>5 DEF Release, FenceHolds
  <2>2. JobKeeps(c.job)
        BY <1>1, <1>2, <2>1, OneJobWritten DEF JobKeeps, ProcessJob
  <2>3. JobsKeep
        BY <1>1, <1>2, <2>1, <2>2, OneJobWritten DEF JobsKeep
  <2>4. TypeOK'
        BY <1>1, <1>2, <1>3, <1>4, <2>1, OneJobWritten DEF IInv, TypeOK
  <2>5. CancelOnlyWhileCancelling'
        BY <1>1, <1>2, <1>4, <2>1, OneJobWritten DEF IInv, CancelOnlyWhileCancelling
  <2> QED BY <1>3, <1>4, <2>3, <2>4, <2>5, QuietStep
<1>6. CASE ~FenceHolds(c)
  <2>1. UNCHANGED job
        BY <1>6 DEF Release
  <2>2. TypeOK' /\ CancelOnlyWhileCancelling'
        BY <1>3, <1>4, <2>1 DEF IInv, TypeOK, CancelOnlyWhileCancelling
  <2> QED BY <1>3, <1>4, <2>1, <2>2, QuietStep, JobsAndAttemptsUnchanged
<1> QED BY <1>5, <1>6

\* Heartbeats and time move the lease of a job and nothing else.
LEMMA LeaseKeeps ==
  ASSUME IInv, NEW j \in Jobs, NEW n \in 0..LeaseTicks,
         job' = [job EXCEPT ![j].lease = n],
         UNCHANGED <<run, attempt, prepared, claims, down, outages, resumes>>
  PROVE  IInv'
<1> DEFINE rec == [job[j] EXCEPT !.lease = n]
<1>1. /\ rec \in JobRecords /\ rec.status = job[j].status
      /\ rec.attempt = job[j].attempt /\ rec.owner = job[j].owner
      BY DEF IInv, TypeOK, JobRecords
<1>2. job' = [job EXCEPT ![j] = rec]
      OBVIOUS
<1>3. JobsKeep
  <2>1. JobKeeps(j)
        BY <1>1, <1>2, OneJobWritten DEF JobKeeps
  <2> QED BY <1>1, <1>2, <2>1, OneJobWritten DEF JobsKeep
<1>4. claims' \subseteq Claims /\ ClaimsInherit
      BY FewerClaims
<1>5. TypeOK'
      BY <1>1, <1>2, OneJobWritten DEF IInv, TypeOK
<1>6. CancelOnlyWhileCancelling'
      BY <1>1, <1>2, OneJobWritten DEF IInv, CancelOnlyWhileCancelling
<1> QED BY <1>3, <1>4, <1>5, <1>6, QuietStep, AttemptsUnchanged

LEMMA HeartbeatKeeps ==
  ASSUME IInv, NEW c \in claims, Heartbeat(c)
  PROVE  IInv'
<1>1. c.job \in Jobs
      BY DEF IInv, TypeOK, Claims
<1>2. LeaseTicks \in 0..LeaseTicks
      BY BoundsAreNatural
<1> QED BY <1>1, <1>2, LeaseKeeps DEF Heartbeat

LEMMA LeaseTickKeeps ==
  ASSUME IInv, NEW j \in Jobs, LeaseTick(j)
  PROVE  IInv'
<1>1. job[j].lease - 1 \in 0..LeaseTicks
      BY BoundsAreNatural DEF IInv, TypeOK, JobRecords, LeaseTick
<1>2. job' = [job EXCEPT ![j].lease = job[j].lease - 1]
      BY DEF LeaseTick
<1> QED BY <1>1, <1>2, LeaseKeeps DEF LeaseTick

LEMMA CancelResearchRunKeeps ==
  ASSUME IInv, NEW r \in Runs, CancelResearchRun(r)
  PROVE  IInv'
<1> DEFINE active == {a \in ActiveAttempts : attempt[a].job \in JobsOf(r)}
           withdrawn(j) == job[j].status \in {"queued", "leased", "retry-wait"}
           asked(j) == job[j].status \in ActiveStatuses /\ active # {}
<1>1. \A j \in Jobs : job[j] \in JobRecords /\ RunOf(j) \in Runs
      BY JobsFacts DEF IInv, TypeOK
<1>2. /\ run[r].status \in {"queued", "running"}
      /\ run' = [run EXCEPT ![r].status =
                   IF active = {} THEN "cancelled" ELSE "cancelling"]
      /\ UNCHANGED <<attempt, prepared, claims, down, outages, resumes>>
      BY DEF CancelResearchRun
<1>3. ASSUME NEW j \in Jobs
      PROVE  /\ job'[j] \in JobRecords
             /\ job'[j].attempt = job[j].attempt
             /\ job'[j].status = IF j \in JobsOf(r) /\ withdrawn(j) THEN "cancelled"
                                 ELSE IF j \in JobsOf(r) /\ asked(j) THEN "cancel-requested"
                                 ELSE job[j].status
             /\ ~withdrawn(j) => job'[j].owner = job[j].owner
  <2>1. job[j].status \in ActiveStatuses => ~withdrawn(j)
        BY DEF ActiveStatuses
  <2>2. CASE j \in JobsOf(r) /\ withdrawn(j)
    <3>1. job'[j] = Unleased(job[j], "cancelled")
          BY <1>3, <2>1, <2>2 DEF CancelResearchRun
    <3> QED BY <1>1, <2>2, <3>1, UnleasedFacts DEF JobStatuses
  <2>3. CASE j \in JobsOf(r) /\ asked(j)
    <3>1. job'[j] = [job[j] EXCEPT !.status = "cancel-requested"]
          BY <1>3, <2>1, <2>3 DEF CancelResearchRun
    <3> QED BY <1>1, <2>1, <2>3, <3>1 DEF JobRecords, JobStatuses
  <2>4. CASE ~(j \in JobsOf(r) /\ (withdrawn(j) \/ asked(j)))
    <3>1. job'[j] = job[j]
          BY <1>3, <2>4 DEF CancelResearchRun
    <3> QED BY <1>1, <2>4, <3>1
  <2> QED BY <2>2, <2>3, <2>4
<1>4. JobsKeep
      BY <1>3 DEF JobsKeep, JobKeeps, ProcessJob, ActiveStatuses
<1>5. job' \in [Jobs -> JobRecords]
      BY <1>3 DEF CancelResearchRun
<1>6. run' \in [Runs -> RunRecords]
      BY <1>2 DEF IInv, TypeOK, RunRecords, RunStatuses
<1>7. claims' \subseteq Claims /\ ClaimsInherit
      BY <1>2, FewerClaims
<1>8. TypeOK'
      BY <1>2, <1>5, <1>6, <1>7 DEF IInv, TypeOK
<1>9. CancelOnlyWhileCancelling'
  <2> SUFFICES ASSUME NEW j \in Jobs, job'[j].status = "cancel-requested"
               PROVE  run'[RunOf(j)].status = "cancelling"
      BY DEF CancelOnlyWhileCancelling
  <2>1. CASE j \in JobsOf(r) /\ asked(j)
    <3>1. RunOf(j) = r
          BY <2>1, JobsFacts
    <3>2. run'[r].status = "cancelling"
          BY <1>2, <2>1 DEF IInv, TypeOK, RunRecords
    <3> QED BY <3>1, <3>2
  <2>2. CASE ~(j \in JobsOf(r) /\ asked(j))
    <3>1. job[j].status = "cancel-requested"
          BY <1>3, <2>2
    <3>2. run[RunOf(j)].status = "cancelling"
          BY <3>1 DEF IInv, CancelOnlyWhileCancelling
    <3>3. RunOf(j) # r
          BY <1>2, <3>2
    <3> QED BY <1>1, <1>2, <3>2, <3>3 DEF IInv, TypeOK
  <2> QED BY <2>1, <2>2
<1> QED BY <1>2, <1>4, <1>7, <1>8, <1>9, QuietStep, AttemptsUnchanged

LEMMA ReserveExhaustedKeeps ==
  ASSUME IInv, NEW c \in claims, ReserveExhausted(c)
  PROVE  IInv'
<1> DEFINE r == RunOf(c.job)
<1>1. r \in Runs /\ \A j \in Jobs : job[j] \in JobRecords /\ RunOf(j) \in Runs
      BY JobsFacts DEF IInv, TypeOK, Claims
<1>2. /\ run[r].status = "running"
      /\ run' = [run EXCEPT ![r].status = "incomplete"]
      /\ job' = [j \in Jobs |-> IF j \in Pending(r) THEN Unleased(job[j], "failed")
                                ELSE job[j]]
      /\ UNCHANGED <<attempt, prepared, down, outages, resumes>>
      /\ claims' \subseteq claims
      BY DEF ReserveExhausted, Drop
<1>3. ASSUME NEW j \in Jobs
      PROVE  /\ job'[j] \in JobRecords
             /\ job'[j].attempt = job[j].attempt
             /\ \/ job'[j].status = "failed" /\ job[j].status \notin TerminalJob
                \/ job'[j] = job[j]
  <2>1. CASE j \in Pending(r)
        BY <1>1, <1>2, <2>1, UnleasedFacts DEF JobStatuses, Pending, PendingIn, TerminalJob
  <2>2. CASE j \notin Pending(r)
        BY <1>1, <1>2, <2>2
  <2> QED BY <2>1, <2>2
<1>4. JobsKeep
      BY <1>3 DEF JobsKeep, JobKeeps, ProcessJob, TerminalJob
<1>5. job' \in [Jobs -> JobRecords]
      BY <1>2, <1>3
<1>6. run' \in [Runs -> RunRecords]
      BY <1>2 DEF IInv, TypeOK, RunRecords, RunStatuses
<1>7. claims' \subseteq Claims /\ ClaimsInherit
      BY <1>2, FewerClaims
<1>8. TypeOK'
      BY <1>2, <1>5, <1>6, <1>7 DEF IInv, TypeOK
<1>9. CancelOnlyWhileCancelling'
  <2> SUFFICES ASSUME NEW j \in Jobs, job'[j].status = "cancel-requested"
               PROVE  run'[RunOf(j)].status = "cancelling"
      BY DEF CancelOnlyWhileCancelling
  <2>1. run[RunOf(j)].status = "cancelling"
        BY <1>3 DEF IInv, CancelOnlyWhileCancelling
  <2> QED BY <1>1, <1>2, <2>1 DEF IInv, TypeOK
<1> QED BY <1>2, <1>4, <1>7, <1>8, <1>9, QuietStep, AttemptsUnchanged

\* Jobs that had no row are queued for the first time.
LEMMA JobsInserted ==
  ASSUME IInv, NEW S \in SUBSET Jobs, NEW rec \in JobRecords,
         \A j \in S : job[j].status = "absent" /\ rec.attempt = job[j].attempt,
         rec.status = "queued",
         job' = [j \in Jobs |-> IF j \in S THEN rec ELSE job[j]],
         UNCHANGED <<run, attempt>>
  PROVE  /\ job' \in [Jobs -> JobRecords]
         /\ JobsKeep /\ AttemptsSame /\ CancelOnlyWhileCancelling'
<1>1. job' \in [Jobs -> JobRecords]
      BY DEF IInv, TypeOK
<1>2. JobsKeep
      BY DEF JobsKeep, JobKeeps, ProcessJob
<1>3. CancelOnlyWhileCancelling'
      BY DEF IInv, CancelOnlyWhileCancelling
<1> QED BY <1>1, <1>2, <1>3, AttemptsUnchanged

LEMMA StageSpecialistsKeeps ==
  ASSUME IInv, NEW c \in claims, StageSpecialists(c)
  PROVE  IInv'
<1> DEFINE S == {RunOf(c.job)} \X MemoKeys
           rec == [AbsentJob EXCEPT !.status = "queued"]
<1>1. S \in SUBSET Jobs
      BY JobsFacts DEF IInv, TypeOK, Claims, Keys
<1>2. rec \in JobRecords /\ rec.status = "queued" /\ rec.attempt = None
      BY BoundsAreNatural DEF AbsentJob, JobRecords, JobStatuses, Classes
<1>3. \A j \in S : job[j].status = "absent"
      BY DEF StageSpecialists
<1>4. \A j \in S : job[j].attempt = None
  <2> SUFFICES ASSUME NEW j \in S, job[j].attempt # None
               PROVE  FALSE
      OBVIOUS
  <2> QED BY <1>1, <1>3 DEF IInv, PointersResolve, AttemptsHaveJobs, TypeOK, JobRecords
<1>5. job' = [j \in Jobs |-> IF j \in S THEN rec ELSE job[j]]
      BY DEF StageSpecialists
<1>6. /\ job' \in [Jobs -> JobRecords]
      /\ JobsKeep /\ AttemptsSame /\ CancelOnlyWhileCancelling'
      BY <1>1, <1>2, <1>3, <1>4, <1>5, JobsInserted DEF StageSpecialists
<1>7. claims' \subseteq Claims /\ ClaimsInherit
      BY AdvanceFacts DEF StageSpecialists, Collects, Phases, Launched
<1>8. TypeOK'
      BY <1>6, <1>7 DEF IInv, TypeOK, StageSpecialists
<1> QED BY <1>6, <1>7, <1>8, QuietStep

LEMMA StageReviewKeeps ==
  ASSUME IInv, NEW r \in Runs, StageReview(r)
  PROVE  IInv'
<1> DEFINE j == <<r, ReviewKey>>
           rec == [job[j] EXCEPT !.status = "queued"]
<1>1. j \in Jobs /\ job[j].status = "absent"
      BY JobsFacts DEF StageReview, Keys
<1>2. rec \in JobRecords /\ rec.status = "queued" /\ rec.attempt = job[j].attempt
      BY <1>1 DEF IInv, TypeOK, JobRecords, JobStatuses
<1>3. job' = [i \in Jobs |-> IF i \in {j} THEN rec ELSE job[i]]
      BY <1>1 DEF StageReview, IInv, TypeOK
<1>4. {j} \in SUBSET Jobs /\ \A i \in {j} : job[i].status = "absent"
                                           /\ rec.attempt = job[i].attempt
      BY <1>1, <1>2
<1>5. UNCHANGED <<run, attempt, prepared, claims, down, outages, resumes>>
      BY DEF StageReview
<1>6. /\ job' \in [Jobs -> JobRecords]
      /\ JobsKeep /\ AttemptsSame /\ CancelOnlyWhileCancelling'
      BY <1>2, <1>3, <1>4, <1>5, JobsInserted
<1>7. claims' \subseteq Claims /\ ClaimsInherit
      BY <1>5, FewerClaims
<1>8. TypeOK'
      BY <1>5, <1>6, <1>7 DEF IInv, TypeOK
<1> QED BY <1>6, <1>7, <1>8, QuietStep

LEMMA ReleaseReservationKeeps ==
  ASSUME IInv, NEW c \in claims, ReleaseSystemCollectionReservation(c)
  PROVE  IInv'
<1> DEFINE r == RunOf(c.job)
<1>1. r \in Runs /\ run[r].base \in Nat
      BY JobsFacts DEF IInv, TypeOK, Claims, RunRecords
<1>2. /\ attempt' = [attempt EXCEPT ![c.attempt].ordinal = 0]
      /\ UNCHANGED <<job, prepared, down, outages, resumes>>
      BY DEF ReleaseSystemCollectionReservation
<1>3. PICK n \in Nat : run' = [run EXCEPT ![r].base = n]
  <2>1. run' = [run EXCEPT ![r].base = run[r].base + 1] \/ run' = run
        BY DEF ReleaseSystemCollectionReservation
  <2>2. CASE run' = [run EXCEPT ![r].base = run[r].base + 1]
    <3>1. run[r].base + 1 \in Nat
          BY <1>1
    <3> QED BY <2>2, <3>1
  <2>3. CASE run' = run
    <3>1. run' = [run EXCEPT ![r].base = run[r].base]
          BY <1>1, <2>3 DEF IInv, TypeOK, RunRecords
    <3> QED BY <1>1, <3>1
  <2> QED BY <2>1, <2>2, <2>3
<1>4. run' \in [Runs -> RunRecords] /\ \A s \in Runs : run'[s].status = run[s].status
      BY <1>1, <1>3 DEF IInv, TypeOK, RunRecords
<1>5. attempt' \in [AttemptIds -> AttemptRecords] /\ AttemptsSame
      BY <1>2 DEF IInv, TypeOK, AttemptRecords, AttemptsSame
<1>6. claims' \subseteq Claims /\ ClaimsInherit
      BY AdvanceFacts DEF ReleaseSystemCollectionReservation, Collects, Phases, Launched
<1>7. TypeOK'
      BY <1>2, <1>4, <1>5, <1>6 DEF IInv, TypeOK
<1>8. CancelOnlyWhileCancelling'
      BY <1>2, <1>4, JobsFacts DEF IInv, CancelOnlyWhileCancelling
<1>9. JobsKeep
      BY <1>2 DEF JobsKeep, JobKeeps
<1> QED BY <1>5, <1>6, <1>7, <1>8, <1>9, QuietStep

-----------------------------------------------------------------------------
(* The steps that end an execution. *)

\* A job that executes and its attempt end together, and only in agreement on
\* whether the output was accepted.
LEMMA ExecutionEnds ==
  ASSUME IInv, NEW j \in Jobs, NEW rec \in JobRecords,
         NEW s \in {"succeeded", "failed", "cancelled", "unknown"},
         job[j].status \in ProcessJob,
         rec.status \in {"succeeded", "failed", "cancelled", "retry-wait"},
         rec.attempt = job[j].attempt,
         rec.status = "succeeded" <=> s = "succeeded",
         job' = [job EXCEPT ![j] = rec],
         attempt' = [attempt EXCEPT ![job[j].attempt].status = s],
         TypeOK', ClaimsInherit, CancelOnlyWhileCancelling'
  PROVE  IInv'
<1> DEFINE a == job[j].attempt
<1>1. /\ a \in ActiveAttempts /\ a \in AttemptIds /\ a # None
      /\ Exists(a) /\ attempt[a].job = j
      BY DEF IInv, ExecutingIsActive, ActiveAttempts, ActiveStatuses, Exists,
             PointersResolve, None, AttemptIds
<1>2. /\ \A b \in AttemptIds : b # a => attempt'[b] = attempt[b]
      /\ attempt'[a].status = s /\ attempt'[a].job = j
      BY <1>1 DEF IInv, TypeOK, AttemptRecords
<1>3. /\ \A i \in Jobs : i # j => job'[i] = job[i]
      /\ job'[j] = rec
      BY DEF IInv, TypeOK
<1>4. ActiveAttempts' = ActiveAttempts \ {a}
      BY <1>1, <1>2 DEF ActiveAttempts, ActiveStatuses
<1>5. AttemptsHaveJobs'
      BY <1>1, <1>2, <1>3 DEF IInv, AttemptsHaveJobs, Exists
<1>6. PointersResolve'
  <2> SUFFICES ASSUME NEW i \in Jobs, job'[i].attempt # None
               PROVE  /\ attempt'[job'[i].attempt].status # "unborn"
                      /\ attempt'[job'[i].attempt].job = i
      BY DEF PointersResolve, Exists
  <2>1. job'[i].attempt = job[i].attempt /\ job[i].attempt \in AttemptIds
        BY <1>3 DEF IInv, TypeOK, JobRecords
  <2> QED BY <1>1, <1>2, <2>1 DEF IInv, PointersResolve, Exists
<1>7. ActiveIsCurrent'
  <2> SUFFICES ASSUME NEW b \in ActiveAttempts, b # a
               PROVE  /\ job'[attempt'[b].job].attempt = b
                      /\ job'[attempt'[b].job].status \in ProcessJob \cup {"failed"}
      BY <1>4 DEF ActiveIsCurrent
  <2>1. b \in AttemptIds /\ attempt[b].job \in Jobs
        BY DEF IInv, AttemptsHaveJobs, ActiveAttempts, ActiveStatuses, Exists
  <2>2. /\ job[attempt[b].job].attempt = b
        /\ job[attempt[b].job].status \in ProcessJob \cup {"failed"}
        BY DEF IInv, ActiveIsCurrent
  <2>3. attempt[b].job # j
        BY <2>2
  <2> QED BY <1>2, <1>3, <2>1, <2>2, <2>3
<1>8. ExecutingIsActive'
  <2> SUFFICES ASSUME NEW i \in Jobs, job'[i].status \in ProcessJob
               PROVE  /\ job'[i].attempt \in ActiveAttempts \ {a}
                      /\ job'[i].owner # NoWorker
                      /\ job'[i].status = "running" =>
                           attempt'[job'[i].attempt].status = "running"
      BY <1>4 DEF ExecutingIsActive, ProcessJob
  <2>1. i # j
        BY <1>3 DEF ProcessJob
  <2>2. /\ job[i].status \in ProcessJob /\ job[i].attempt \in ActiveAttempts
        /\ job[i].owner # NoWorker
        /\ job[i].status = "running" => attempt[job[i].attempt].status = "running"
        BY <1>3, <2>1 DEF IInv, ExecutingIsActive
  <2>3. job[i].attempt \in AttemptIds /\ attempt[job[i].attempt].job = i
        BY <2>2 DEF IInv, PointersResolve, ActiveAttempts, AttemptIds, None
  <2>4. job[i].attempt # a
        BY <1>1, <2>1, <2>3
  <2> QED BY <1>2, <1>3, <2>1, <2>2, <2>3, <2>4
<1>9. ClaimsNameTheirAttempts'
  <2>1. AttemptsKeep
        BY <1>1, <1>2 DEF AttemptsKeep, Exists
  <2> QED BY <2>1, InheritedClaims
<1>10. AcceptedOnce'
  <2> SUFFICES ASSUME NEW b \in AttemptIds, NEW i \in Jobs, attempt'[b].job = i
               PROVE  attempt'[b].status = "succeeded"
                        <=> job'[i].status = "succeeded" /\ job'[i].attempt = b
      BY DEF AcceptedOnce
  <2>1. attempt[b].job = i
        BY <1>1, <1>2
  <2>2. attempt[b].status = "succeeded"
          <=> job[i].status = "succeeded" /\ job[i].attempt = b
        BY <2>1 DEF IInv, AcceptedOnce
  <2>3. CASE b = a
        BY <1>1, <1>2, <1>3, <2>1, <2>3
  <2>4. CASE b # a /\ i = j
        BY <1>2, <1>3, <2>2, <2>4
  <2>5. CASE b # a /\ i # j
        BY <1>2, <1>3, <2>2, <2>5
  <2> QED BY <2>3, <2>4, <2>5
<1> QED BY <1>5, <1>6, <1>7, <1>8, <1>9, <1>10 DEF IInv

\* Its types, when the run's record changes too.
LEMMA EndedTypes ==
  ASSUME IInv, NEW j \in Jobs, NEW rec \in JobRecords, NEW s \in AttemptStatuses,
         job' = [job EXCEPT ![j] = rec],
         attempt' = [attempt EXCEPT ![job[j].attempt].status = s],
         run' \in [Runs -> RunRecords], claims' \subseteq claims,
         UNCHANGED <<prepared, down, outages, resumes>>
  PROVE  TypeOK' /\ ClaimsInherit
<1>1. job' \in [Jobs -> JobRecords]
      BY DEF IInv, TypeOK
<1>2. attempt' \in [AttemptIds -> AttemptRecords]
      BY DEF IInv, TypeOK, AttemptRecords
<1>3. claims' \subseteq Claims /\ ClaimsInherit
      BY FewerClaims
<1> QED BY <1>1, <1>2, <1>3 DEF IInv, TypeOK

LEMMA CommitAcceptedOutputKeeps ==
  ASSUME IInv, NEW c \in claims, CommitAcceptedOutput(c)
  PROVE  IInv'
<1> DEFINE rec == Unleased(job[c.job], "succeeded")
<1>1. /\ c.job \in Jobs /\ job[c.job] \in JobRecords
      /\ rec \in JobRecords /\ rec.status = "succeeded"
      /\ rec.attempt = job[c.job].attempt
      BY UnleasedFacts DEF IInv, TypeOK, Claims, JobStatuses
<1>2. /\ job[c.job].status = "running" /\ job[c.job].attempt = c.current
      /\ job' = [job EXCEPT ![c.job] = rec]
      /\ attempt' = [attempt EXCEPT ![job[c.job].attempt].status = "succeeded"]
      /\ claims' \subseteq claims
      /\ UNCHANGED <<run, prepared, down, outages, resumes>>
      BY DEF CommitAcceptedOutput, BindingActive, Drop
<1>3. "succeeded" \in AttemptStatuses /\ run' \in [Runs -> RunRecords]
      BY <1>2 DEF IInv, TypeOK, AttemptStatuses
<1>4. TypeOK' /\ ClaimsInherit
      BY <1>1, <1>2, <1>3, EndedTypes
<1>5. CancelOnlyWhileCancelling'
      BY <1>1, <1>2, OneJobWritten DEF IInv, CancelOnlyWhileCancelling
<1>6. job[c.job].status \in ProcessJob
      BY <1>2 DEF ProcessJob
<1> QED BY <1>1, <1>2, <1>4, <1>5, <1>6, ExecutionEnds

LEMMA RejectFinallyKeeps ==
  ASSUME IInv, NEW c \in claims, RejectFinally(c)
  PROVE  IInv'
<1> DEFINE rec == Unleased(job[c.job], "failed")
<1>1. /\ c.job \in Jobs /\ job[c.job] \in JobRecords
      /\ rec \in JobRecords /\ rec.status = "failed"
      /\ rec.attempt = job[c.job].attempt
      BY UnleasedFacts DEF IInv, TypeOK, Claims, JobStatuses
<1>2. job[c.job].status = "running" /\ job[c.job].attempt = c.current
  <2>1. /\ c.current \in AttemptIds /\ attempt[c.current].job = c.job
        /\ attempt[c.current].status = "running" /\ job[c.job].status = "running"
        BY DEF IInv, ClaimsNameTheirAttempts, RejectFinally, BindingActive, Launched
  <2>2. c.current \in ActiveAttempts
        BY <2>1 DEF ActiveAttempts, ActiveStatuses
  <2> QED BY <2>1, <2>2 DEF IInv, ActiveIsCurrent
<1>3. /\ job' = [job EXCEPT ![c.job] = rec]
      /\ attempt' = [attempt EXCEPT ![job[c.job].attempt].status = "failed"]
      /\ claims' \subseteq claims
      /\ UNCHANGED <<run, prepared, down, outages, resumes>>
      BY <1>2 DEF RejectFinally, Drop
<1>4. "failed" \in AttemptStatuses /\ run' \in [Runs -> RunRecords]
      BY <1>3 DEF IInv, TypeOK, AttemptStatuses
<1>5. TypeOK' /\ ClaimsInherit
      BY <1>1, <1>3, <1>4, EndedTypes
<1>6. CancelOnlyWhileCancelling'
      BY <1>1, <1>3, OneJobWritten DEF IInv, CancelOnlyWhileCancelling
<1>7. job[c.job].status \in ProcessJob
      BY <1>2 DEF ProcessJob
<1> QED BY <1>1, <1>3, <1>5, <1>6, <1>7, ExecutionEnds

LEMMA CommitRequestedCancellationKeeps ==
  ASSUME IInv, NEW c \in claims, CommitRequestedCancellation(c)
  PROVE  IInv'
<1> DEFINE r == RunOf(c.job)
           rec == Unleased(job[c.job], "cancelled")
<1>1. /\ c.job \in Jobs /\ job[c.job] \in JobRecords /\ r \in Runs
      /\ rec \in JobRecords /\ rec.status = "cancelled"
      /\ rec.attempt = job[c.job].attempt
      BY UnleasedFacts, JobsFacts DEF IInv, TypeOK, Claims, JobStatuses
<1>2. job[c.job].status = "cancel-requested" /\ job[c.job].attempt = c.attempt
      BY DEF CommitRequestedCancellation, CancelCommits
<1>3. job[c.job].status \in ProcessJob
      BY <1>2 DEF ProcessJob
<1>4. c.attempt \in AttemptIds /\ attempt[c.attempt].status \in ActiveStatuses
      BY <1>1, <1>2, <1>3 DEF IInv, ExecutingIsActive, ActiveAttempts
<1>5. /\ job' = [job EXCEPT ![c.job] = rec]
      /\ attempt' = [attempt EXCEPT ![job[c.job].attempt].status = "cancelled"]
      /\ claims' \subseteq claims
      /\ UNCHANGED <<prepared, down, outages, resumes>>
      BY <1>2, <1>4 DEF CommitRequestedCancellation, Drop
<1>6. PICK s \in RunStatuses :
        /\ run' = [run EXCEPT ![r].status = s]
        /\ \/ s = run[r].status
           \/ \A j \in JobsOf(r) : job'[j].status # "cancel-requested"
  <2>1. run' = [run EXCEPT ![r].status = CancelledWhenDone(r, job')]
        BY DEF CommitRequestedCancellation
  <2>2. /\ CancelledWhenDone(r, job') \in RunStatuses
        /\ \/ CancelledWhenDone(r, job') = run[r].status
           \/ \A j \in JobsOf(r) : job'[j].status # "cancel-requested"
        BY <1>1 DEF CancelledWhenDone, IInv, TypeOK, RunRecords, RunStatuses
  <2> QED BY <2>1, <2>2
<1>7. "cancelled" \in AttemptStatuses /\ run' \in [Runs -> RunRecords]
      BY <1>1, <1>6 DEF IInv, TypeOK, AttemptStatuses, RunRecords
<1>8. TypeOK' /\ ClaimsInherit
      BY <1>1, <1>5, <1>7, EndedTypes
<1>9. CancelOnlyWhileCancelling'
  <2> SUFFICES ASSUME NEW j \in Jobs, job'[j].status = "cancel-requested"
               PROVE  run'[RunOf(j)].status = "cancelling"
      BY DEF CancelOnlyWhileCancelling
  <2>1. job[j].status = "cancel-requested" /\ RunOf(j) \in Runs
        BY <1>1, <1>5, OneJobWritten, JobsFacts
  <2>2. run[RunOf(j)].status = "cancelling"
        BY <2>1 DEF IInv, CancelOnlyWhileCancelling
  <2>3. RunOf(j) = r => s = run[r].status
        BY <1>1, <1>6, JobsFacts
  <2> QED BY <1>1, <1>6, <2>1, <2>2, <2>3 DEF IInv, TypeOK, RunRecords
<1> QED BY <1>1, <1>3, <1>5, <1>8, <1>9, ExecutionEnds

LEMMA CommitAttemptKeeps ==
  ASSUME IInv, NEW c \in claims, NEW outcome \in Outcomes(c), CommitAttempt(c, outcome)
  PROVE  IInv'
<1> DEFINE r == RunOf(c.job)
           status == JobStatusAfter(outcome)
           retried == [job[c.job] EXCEPT !.class =
                         IF status = "retry-wait" THEN outcome ELSE job[c.job].class]
           rec == Unleased(retried, status)
           ended == IF outcome = "accepted" THEN "succeeded" ELSE "failed"
<1>1. c.job \in Jobs /\ job[c.job] \in JobRecords /\ r \in Runs
      BY JobsFacts DEF IInv, TypeOK, Claims
<1>2. outcome \in {"accepted", "transient", "repair", "permanent", "incomplete"}
      BY DEF Outcomes
<1>3. /\ status \in {"succeeded", "failed", "retry-wait"}
      /\ status = "succeeded" <=> ended = "succeeded"
      /\ status = "retry-wait" => outcome \in Classes
      BY <1>2 DEF JobStatusAfter, Classes
<1>4. retried \in JobRecords /\ retried.attempt = job[c.job].attempt
  <2> DEFINE class == IF status = "retry-wait" THEN outcome ELSE job[c.job].class
  <2>1. class \in Classes
        BY <1>1, <1>3 DEF JobRecords
  <2>2. retried = [job[c.job] EXCEPT !.class = class]
        OBVIOUS
  <2> HIDE DEF class
  <2> QED BY <1>1, <2>1, <2>2 DEF JobRecords
<1>5. rec \in JobRecords /\ rec.status = status /\ rec.attempt = job[c.job].attempt
  <2>1. status \in JobStatuses
        BY <1>3 DEF JobStatuses
  <2> HIDE DEF status, retried
  <2> QED BY <1>4, <2>1, UnleasedFacts
<1>6. job[c.job].status = "running" /\ job[c.job].attempt = c.attempt
      BY DEF CommitAttempt, CommitFenceHolds
<1>7. job[c.job].status \in ProcessJob
      BY <1>6 DEF ProcessJob
<1>8. c.attempt \in AttemptIds /\ attempt[c.attempt].status = "running"
      BY <1>1, <1>6, <1>7 DEF IInv, ExecutingIsActive, ActiveAttempts
<1>9. /\ job' = [job EXCEPT ![c.job] = rec]
      /\ claims' \subseteq claims
      /\ UNCHANGED <<prepared, down, outages, resumes>>
      BY DEF CommitAttempt, Drop
<1>10. attempt' = [attempt EXCEPT ![job[c.job].attempt].status = ended]
      BY <1>6, <1>8 DEF CommitAttempt
<1>11. PICK s \in RunStatuses, p \in BOOLEAN :
        /\ run' = [run EXCEPT ![r].permanent = p, ![r].status = s]
        /\ s = run[r].status \/ run[r].status = "running"
      BY <1>1, <1>2 DEF CommitAttempt, ExhaustedIn, ExhaustedStatus, IInv, TypeOK,
                        RunRecords, RunStatuses
<1>12. ended \in AttemptStatuses /\ run' \in [Runs -> RunRecords]
      BY <1>1, <1>11 DEF IInv, TypeOK, AttemptStatuses, RunRecords
<1>13. TypeOK' /\ ClaimsInherit
      BY <1>1, <1>5, <1>9, <1>10, <1>12, EndedTypes
<1>14. CancelOnlyWhileCancelling'
  <2> SUFFICES ASSUME NEW j \in Jobs, job'[j].status = "cancel-requested"
               PROVE  run'[RunOf(j)].status = "cancelling"
      BY DEF CancelOnlyWhileCancelling
  <2>1. job[j].status = "cancel-requested" /\ RunOf(j) \in Runs
        BY <1>1, <1>3, <1>5, <1>9, OneJobWritten, JobsFacts
  <2>2. run[RunOf(j)].status = "cancelling"
        BY <2>1 DEF IInv, CancelOnlyWhileCancelling
  <2> QED BY <1>1, <1>11, <2>1, <2>2 DEF IInv, TypeOK, RunRecords
<1> QED BY <1>1, <1>3, <1>5, <1>7, <1>9, <1>10, <1>13, <1>14, ExecutionEnds

-----------------------------------------------------------------------------
(* The steps that begin one: a launch, and a rewrite inside an attempt. *)

\* Every attempt but a stays what it is, except that one of job j ends; none
\* of job j is at work any more.
OthersStop(j, a) ==
  \A b \in AttemptIds : b # a =>
    /\ attempt'[b].job = attempt[b].job
    /\ \/ attempt'[b].status = attempt[b].status
       \/ /\ attempt'[b].status = "failed"
          /\ b \in ActiveAttempts /\ attempt[b].job = j
    /\ attempt'[b].status \in ActiveStatuses => attempt[b].job # j

\* A job begins to execute with an attempt that did not exist, when no other
\* attempt of it stays at work.
LEMMA ExecutionBegins ==
  ASSUME IInv, NEW j \in Jobs, NEW rec \in JobRecords, NEW a \in AttemptIds,
         job[j].status \notin {"absent", "succeeded"},
         attempt[a].status = "unborn",
         rec.status \in ActiveStatuses, rec.attempt = a, rec.owner # NoWorker,
         job' = [job EXCEPT ![j] = rec],
         attempt'[a].status = rec.status, attempt'[a].job = j,
         OthersStop(j, a),
         TypeOK', ClaimsNameTheirAttempts', CancelOnlyWhileCancelling'
  PROVE  IInv'
<1> USE DEF OthersStop
<1>1. /\ \A i \in Jobs : i # j => job'[i] = job[i]
      /\ job'[j] = rec
      BY DEF IInv, TypeOK
<1>2. attempt[a].job = NoJob /\ \A i \in Jobs : job[i].attempt # a
      BY DEF IInv, AttemptsHaveJobs, PointersResolve, Exists, None, AttemptIds
<1>3. \A b \in AttemptIds : attempt[b].job \in Jobs => b # a
      BY <1>2, NullsAreFresh
<1>4. \A b \in ActiveAttempts' : b # a =>
        b \in ActiveAttempts /\ attempt[b].job \in Jobs /\ attempt[b].job # j
      BY DEF IInv, AttemptsHaveJobs, ActiveAttempts, ActiveStatuses, Exists
<1>5. a \in ActiveAttempts'
      BY DEF ActiveAttempts
<1>6. AttemptsHaveJobs'
  <2> SUFFICES ASSUME NEW b \in AttemptIds
               PROVE  /\ attempt'[b].status # "unborn" => attempt'[b].job \in Jobs
                      /\ attempt'[b].status = "unborn" => attempt'[b].job = NoJob
                      /\ attempt'[b].status # "unborn" => job'[attempt'[b].job].status # "absent"
      BY DEF AttemptsHaveJobs, Exists
  <2>1. CASE b = a
        BY <1>1, <2>1 DEF ActiveStatuses
  <2>2. CASE b # a
    <3>1. /\ attempt[b].status # "unborn" => attempt[b].job \in Jobs
          /\ attempt[b].status = "unborn" => attempt[b].job = NoJob
          /\ attempt[b].status # "unborn" => job[attempt[b].job].status # "absent"
          BY DEF IInv, AttemptsHaveJobs, Exists
    <3>2. attempt'[b].status = "unborn" <=> attempt[b].status = "unborn"
          BY <2>2 DEF ActiveAttempts, ActiveStatuses
    <3>3. rec.status # "absent"
          BY DEF ActiveStatuses
    <3> QED BY <1>1, <2>2, <3>1, <3>2, <3>3
  <2> QED BY <2>1, <2>2
<1>7. PointersResolve'
  <2> SUFFICES ASSUME NEW i \in Jobs, job'[i].attempt # None
               PROVE  /\ attempt'[job'[i].attempt].status # "unborn"
                      /\ attempt'[job'[i].attempt].job = i
      BY DEF PointersResolve, Exists
  <2>1. CASE i = j
        BY <1>1, <2>1 DEF ActiveStatuses
  <2>2. CASE i # j
    <3>1. /\ job'[i].attempt = job[i].attempt /\ job[i].attempt \in AttemptIds
          /\ job[i].attempt # a
          BY <1>1, <1>2, <2>2 DEF IInv, TypeOK, JobRecords
    <3>2. /\ attempt[job[i].attempt].status # "unborn"
          /\ attempt[job[i].attempt].job = i
          BY <3>1 DEF IInv, PointersResolve, Exists
    <3> QED BY <3>1, <3>2
  <2> QED BY <2>1, <2>2
<1>8. ActiveIsCurrent'
  <2> SUFFICES ASSUME NEW b \in ActiveAttempts'
               PROVE  /\ job'[attempt'[b].job].attempt = b
                      /\ job'[attempt'[b].job].status \in ProcessJob \cup {"failed"}
      BY DEF ActiveIsCurrent
  <2>1. CASE b = a
        BY <1>1, <2>1 DEF ActiveStatuses, ProcessJob
  <2>2. CASE b # a
    <3>1. /\ b \in AttemptIds
          /\ job[attempt[b].job].attempt = b
          /\ job[attempt[b].job].status \in ProcessJob \cup {"failed"}
          BY <1>4, <2>2 DEF IInv, ActiveIsCurrent, ActiveAttempts
    <3> QED BY <1>1, <1>4, <2>2, <3>1
  <2> QED BY <2>1, <2>2
<1>9. ExecutingIsActive'
  <2> SUFFICES ASSUME NEW i \in Jobs, job'[i].status \in ProcessJob
               PROVE  /\ job'[i].attempt \in ActiveAttempts'
                      /\ job'[i].owner # NoWorker
                      /\ job'[i].status = "running" =>
                           attempt'[job'[i].attempt].status = "running"
      BY DEF ExecutingIsActive, ProcessJob
  <2>1. CASE i = j
        BY <1>1, <1>5, <2>1
  <2>2. CASE i # j
    <3>1. /\ job[i].status \in ProcessJob /\ job[i].attempt \in ActiveAttempts
          /\ job[i].owner # NoWorker
          /\ job[i].status = "running" => attempt[job[i].attempt].status = "running"
          BY <1>1, <2>2 DEF IInv, ExecutingIsActive
    <3>2. /\ job[i].attempt \in AttemptIds /\ attempt[job[i].attempt].job = i
          /\ job[i].attempt # a
          BY <1>2, <3>1 DEF IInv, PointersResolve, ActiveAttempts, AttemptIds, None
    <3>3. attempt'[job[i].attempt].status = attempt[job[i].attempt].status
          BY <2>2, <3>2
    <3> QED BY <1>1, <2>2, <3>1, <3>2, <3>3 DEF ActiveAttempts
  <2> QED BY <2>1, <2>2
<1>10. AcceptedOnce'
  <2> SUFFICES ASSUME NEW b \in AttemptIds, NEW i \in Jobs, attempt'[b].job = i
               PROVE  attempt'[b].status = "succeeded"
                        <=> job'[i].status = "succeeded" /\ job'[i].attempt = b
      BY DEF AcceptedOnce
  <2>1. rec.status # "succeeded"
        BY DEF ActiveStatuses
  <2>2. CASE b = a
        BY <1>1, <2>1, <2>2
  <2>3. CASE b # a
    <3>1. attempt[b].status = "succeeded"
            <=> job[i].status = "succeeded" /\ job[i].attempt = b
          BY <2>3 DEF IInv, AcceptedOnce
    <3>2. attempt'[b].status = "succeeded" <=> attempt[b].status = "succeeded"
          BY <2>3 DEF ActiveAttempts, ActiveStatuses
    <3> QED BY <1>1, <2>1, <3>1, <3>2
  <2> QED BY <2>2, <2>3
<1> QED BY <1>6, <1>7, <1>8, <1>9, <1>10 DEF IInv

LEMMA LaunchKeeps ==
  ASSUME IInv, NEW c \in claims, Launch(c)
  PROVE  IInv'
<1> DEFINE r == RunOf(c.job)
<1>1. c \in Claims /\ c.job \in Jobs /\ job[c.job] \in JobRecords /\ r \in Runs
      BY JobsFacts DEF IInv, TypeOK, Claims
<1>2. /\ CanReserve(c) /\ FenceHolds(c)
      /\ UNCHANGED <<prepared, down, outages, resumes>>
      BY DEF Launch
<1>3. PICK o \in 1..MaxPhysicalLaunches, a \in AttemptIds :
        /\ IsFresh(a)
        /\ attempt' = [attempt EXCEPT ![a] =
             [status |-> "running", job |-> c.job, ordinal |-> o,
              replaces |-> IF Rewrites(c) THEN c.prior ELSE None]]
        /\ job' = [job EXCEPT ![c.job].status = "running", ![c.job].attempt = a]
        /\ claims' = (claims \ {c}) \cup
             {[c EXCEPT !.phase = "running", !.attempt = a, !.current = a]}
      BY DEF Launch
<1> DEFINE rec == [job[c.job] EXCEPT !.status = "running", !.attempt = a]
           born == [status |-> "running", job |-> c.job, ordinal |-> o,
                    replaces |-> IF Rewrites(c) THEN c.prior ELSE None]
           d == [c EXCEPT !.phase = "running", !.attempt = a, !.current = a]
<1>4. /\ job[c.job].status = "leased" /\ job[c.job].owner = c.owner
      /\ c.owner # NoWorker /\ attempt[a].status = "unborn"
      BY <1>1, <1>2, <1>3, NullsAreFresh DEF FenceHolds, Claims, IsFresh
<1>5. /\ rec \in JobRecords /\ rec.status = "running" /\ rec.attempt = a
      /\ rec.owner = job[c.job].owner
  <2>1. "running" \in JobStatuses
        BY DEF JobStatuses
  <2> QED BY <1>1, <2>1, Zenon DEF JobRecords
<1>6. job' = [job EXCEPT ![c.job] = rec]
      BY <1>3
<1>7. born \in AttemptRecords
  <2>1. (IF Rewrites(c) THEN c.prior ELSE None) \in AttemptIds \cup {None}
        BY <1>1 DEF Claims
  <2>2. o \in Nat
        BY BoundsAreNatural
  <2> QED BY <1>1, <2>1, <2>2 DEF AttemptRecords, AttemptStatuses
<1>8. /\ attempt' \in [AttemptIds -> AttemptRecords]
      /\ attempt'[a].status = "running" /\ attempt'[a].job = c.job
      /\ \A b \in AttemptIds : b # a => attempt'[b] = attempt[b]
      BY <1>3, <1>7 DEF IInv, TypeOK
<1>9. /\ d \in Claims /\ d.job = c.job /\ d.attempt = a /\ d.current = a
      BY <1>1 DEF Claims, Phases
<1>10. claims' \subseteq Claims
      BY <1>3, <1>9 DEF IInv, TypeOK
<1>11. /\ run' \in [Runs -> RunRecords]
       /\ \A s \in Runs : run'[s].status = run[s].status
  <2> DEFINE base == IF BudgetColumn(c) = "base" THEN run[r].base - 1 ELSE run[r].base
             repl == IF BudgetColumn(c) = "repl" THEN run[r].repl - 1 ELSE run[r].repl
  <2>1. run[r].base \in Nat /\ run[r].repl \in Nat
        BY <1>1 DEF IInv, TypeOK, RunRecords
  <2>2. base \in Nat /\ repl \in Nat
        BY <1>2, <2>1 DEF CanReserve, OverBudget
  <2>3. run' = [run EXCEPT ![r].base = base, ![r].repl = repl]
        BY DEF Launch
  <2> HIDE DEF base, repl
  <2> QED BY <1>1, <2>2, <2>3 DEF IInv, TypeOK, RunRecords
<1>12. TypeOK'
      BY <1>1, <1>2, <1>5, <1>6, <1>8, <1>10, <1>11, OneJobWritten DEF IInv, TypeOK
<1>13. ClaimsNameTheirAttempts'
  <2> SUFFICES ASSUME NEW e \in claims', e.phase \in Launched
               PROVE  /\ e.attempt \in AttemptIds /\ attempt'[e.attempt].status # "unborn"
                      /\ attempt'[e.attempt].job = e.job
                      /\ e.current \in AttemptIds /\ attempt'[e.current].status # "unborn"
                      /\ attempt'[e.current].job = e.job
      BY DEF ClaimsNameTheirAttempts, Exists, Launched
  <2>1. CASE e = d
        BY <1>8, <1>9, <2>1
  <2>2. CASE e # d
    <3>1. e \in claims
          BY <1>3, <2>2
    <3> QED BY <1>4, <1>8, <3>1 DEF IInv, ClaimsNameTheirAttempts, Exists
  <2> QED BY <2>1, <2>2
<1>14. CancelOnlyWhileCancelling'
      BY <1>1, <1>5, <1>6, <1>11, OneJobWritten, JobsFacts DEF IInv, CancelOnlyWhileCancelling
<1>15. \A b \in AttemptIds :
         b # a /\ attempt[b].status \in ActiveStatuses => attempt[b].job # c.job
      BY <1>4 DEF IInv, ActiveIsCurrent, ActiveAttempts, ProcessJob
<1>16. OthersStop(c.job, a)
      BY <1>8, <1>15 DEF OthersStop
<1>17. /\ c.job \in Jobs /\ rec \in JobRecords /\ a \in AttemptIds
       /\ job[c.job].status \notin {"absent", "succeeded"}
       /\ attempt[a].status = "unborn"
       /\ rec.status \in ActiveStatuses /\ rec.attempt = a /\ rec.owner # NoWorker
       /\ attempt'[a].status = rec.status /\ attempt'[a].job = c.job
      BY <1>1, <1>4, <1>5, <1>8 DEF ActiveStatuses
<1> HIDE DEF rec, born, d
<1> QED BY <1>6, <1>12, <1>13, <1>14, <1>16, <1>17, ExecutionBegins

LEMMA RejectForRewriteKeeps ==
  ASSUME IInv, NEW c \in claims, RejectForRewrite(c)
  PROVE  IInv'
<1>1. c \in Claims /\ c.job \in Jobs /\ job[c.job] \in JobRecords
      BY DEF IInv, TypeOK, Claims
<1>2. /\ c.phase = "running" /\ job[c.job].status = "running"
      /\ attempt[c.current].status = "running" /\ job[c.job].attempt = c.current
      /\ HoldsLease(c)
      /\ UNCHANGED <<run, prepared, down, outages, resumes>>
      BY DEF RejectForRewrite, BindingActive
<1>3. PICK o \in 1..MaxPhysicalLaunches, a \in AttemptIds :
        /\ IsFresh(a)
        /\ attempt' = [attempt EXCEPT
             ![c.current].status = "failed",
             ![a] = [status |-> "spawn-reserved", job |-> c.job, ordinal |-> o,
                     replaces |-> c.current]]
        /\ job' = [job EXCEPT ![c.job].status = "spawn-reserved",
                              ![c.job].attempt = a]
        /\ claims' = (claims \ {c}) \cup
             {[c EXCEPT !.phase = "rejected", !.current = a]}
      BY DEF RejectForRewrite
<1> DEFINE rec == [job[c.job] EXCEPT !.status = "spawn-reserved", !.attempt = a]
           born == [status |-> "spawn-reserved", job |-> c.job, ordinal |-> o,
                    replaces |-> c.current]
           d == [c EXCEPT !.phase = "rejected", !.current = a]
<1>4. /\ c.current \in AttemptIds /\ attempt[c.current].job = c.job
      /\ c.attempt \in AttemptIds /\ Exists(c.attempt) /\ attempt[c.attempt].job = c.job
      /\ c.current \in ActiveAttempts
      BY <1>2 DEF IInv, ClaimsNameTheirAttempts, Launched, ActiveAttempts, ActiveStatuses
<1>5. /\ c.owner # NoWorker /\ job[c.job].owner = c.owner
      /\ attempt[a].status = "unborn" /\ a # c.current
      BY <1>1, <1>2, <1>3, NullsAreFresh DEF HoldsLease, Claims, IsFresh
<1>6. /\ rec \in JobRecords /\ rec.status = "spawn-reserved" /\ rec.attempt = a
      /\ rec.owner = job[c.job].owner
  <2>1. "spawn-reserved" \in JobStatuses
        BY DEF JobStatuses
  <2> QED BY <1>1, <2>1, Zenon DEF JobRecords
<1>7. job' = [job EXCEPT ![c.job] = rec]
      BY <1>3
<1>8. born \in AttemptRecords
  <2>1. o \in Nat
        BY BoundsAreNatural
  <2> QED BY <1>1, <1>4, <2>1 DEF AttemptRecords, AttemptStatuses
<1>9. /\ attempt' \in [AttemptIds -> AttemptRecords]
      /\ attempt'[a].status = "spawn-reserved" /\ attempt'[a].job = c.job
      /\ attempt'[c.current].status = "failed" /\ attempt'[c.current].job = c.job
      /\ \A b \in AttemptIds : b # a /\ b # c.current => attempt'[b] = attempt[b]
      BY <1>3, <1>4, <1>5, <1>8 DEF IInv, TypeOK, AttemptRecords, AttemptStatuses
<1>10. d \in Claims /\ d.job = c.job /\ d.attempt = c.attempt /\ d.current = a
      BY <1>1 DEF Claims, Phases
<1>11. claims' \subseteq Claims
      BY <1>3, <1>10 DEF IInv, TypeOK
<1>12. TypeOK'
      BY <1>1, <1>2, <1>6, <1>7, <1>9, <1>11, OneJobWritten DEF IInv, TypeOK
<1>13. ClaimsNameTheirAttempts'
  <2> SUFFICES ASSUME NEW e \in claims', e.phase \in Launched
               PROVE  /\ e.attempt \in AttemptIds /\ attempt'[e.attempt].status # "unborn"
                      /\ attempt'[e.attempt].job = e.job
                      /\ e.current \in AttemptIds /\ attempt'[e.current].status # "unborn"
                      /\ attempt'[e.current].job = e.job
      BY DEF ClaimsNameTheirAttempts, Exists, Launched
  <2>1. \A b \in AttemptIds : attempt[b].status # "unborn" =>
          attempt'[b].status # "unborn" /\ attempt'[b].job = attempt[b].job
        BY <1>4, <1>5, <1>9
  <2>2. CASE e = d
        BY <1>4, <1>9, <1>10, <2>1, <2>2 DEF Exists
  <2>3. CASE e # d
    <3>1. e \in claims
          BY <1>3, <2>3
    <3> QED BY <2>1, <3>1 DEF IInv, ClaimsNameTheirAttempts, Exists
  <2> QED BY <2>2, <2>3
<1>14. CancelOnlyWhileCancelling'
      BY <1>1, <1>2, <1>6, <1>7, OneJobWritten DEF IInv, CancelOnlyWhileCancelling
<1>15. \A b \in AttemptIds :
         b # c.current /\ attempt[b].status \in ActiveStatuses => attempt[b].job # c.job
      BY <1>2 DEF IInv, ActiveIsCurrent, ActiveAttempts
<1>16. /\ "spawn-reserved" \in ActiveStatuses
       /\ "failed" \notin ActiveStatuses
      BY DEF ActiveStatuses
<1>17. OthersStop(c.job, a)
      BY <1>4, <1>9, <1>15, <1>16 DEF OthersStop
<1>18. /\ c.job \in Jobs /\ rec \in JobRecords /\ a \in AttemptIds
       /\ job[c.job].status \notin {"absent", "succeeded"}
       /\ attempt[a].status = "unborn"
       /\ rec.status \in ActiveStatuses /\ rec.attempt = a /\ rec.owner # NoWorker
       /\ attempt'[a].status = rec.status /\ attempt'[a].job = c.job
      BY <1>1, <1>2, <1>5, <1>6, <1>9, <1>16
<1> HIDE DEF rec, born, d
<1> QED BY <1>7, <1>12, <1>13, <1>14, <1>17, <1>18, ExecutionBegins

LEMMA MarkReplacementRunningKeeps ==
  ASSUME IInv, NEW c \in claims, MarkReplacementRunning(c)
  PROVE  IInv'
<1> DEFINE j == c.job
           a == c.current
           started == IF attempt[a].status = "spawn-reserved" THEN "running"
                      ELSE attempt[a].status
           status == IF job[j].attempt = a /\ job[j].status = "spawn-reserved"
                     THEN "running" ELSE job[j].status
           rec == [job[j] EXCEPT !.status = status]
<1>1. /\ j \in Jobs /\ job[j] \in JobRecords
      /\ a \in AttemptIds /\ Exists(a) /\ attempt[a].job = j
      /\ attempt[a] \in AttemptRecords
      BY DEF IInv, TypeOK, Claims, ClaimsNameTheirAttempts, MarkReplacementRunning, Launched
<1>2. /\ job' = [job EXCEPT ![j] = rec]
      /\ attempt' = [attempt EXCEPT ![a].status = started]
      /\ Advance(c, "running") /\ c.phase = "charged"
      /\ UNCHANGED <<run, prepared, down, outages, resumes>>
  <2>1. job' = [job EXCEPT ![j].status = status]
        BY DEF MarkReplacementRunning
  <2>2. attempt' = [attempt EXCEPT ![a].status = started]
        BY DEF MarkReplacementRunning
  <2> QED BY <2>1, <2>2 DEF MarkReplacementRunning
<1>3. status \in JobStatuses /\ started \in AttemptStatuses
      BY <1>1 DEF JobRecords, JobStatuses, AttemptRecords, AttemptStatuses
<1>4. /\ rec \in JobRecords /\ rec.status = status /\ rec.attempt = job[j].attempt
      /\ rec.owner = job[j].owner
  <2> HIDE DEF status
  <2> QED BY <1>1, <1>3 DEF JobRecords
<1> HIDE DEF rec
<1>5. job' \in [Jobs -> JobRecords] /\ job'[j] = rec
      /\ \A i \in Jobs : i # j => job'[i] = job[i]
      BY <1>1, <1>2, <1>4, OneJobWritten
<1>6. /\ attempt' \in [AttemptIds -> AttemptRecords]
      /\ \A b \in AttemptIds : attempt'[b].job = attempt[b].job
      /\ attempt'[a].status = started
      /\ \A b \in AttemptIds : b # a => attempt'[b] = attempt[b]
  <2> HIDE DEF started
  <2> QED BY <1>1, <1>2, <1>3 DEF IInv, TypeOK, AttemptRecords
<1>7. claims' \subseteq Claims /\ ClaimsInherit
      BY <1>2, AdvanceFacts DEF Phases, Launched
<1>8. TypeOK'
      BY <1>2, <1>5, <1>6, <1>7 DEF IInv, TypeOK
<1>9. ActiveAttempts' = ActiveAttempts
      BY <1>6 DEF ActiveAttempts, ActiveStatuses
<1>10. /\ \A b \in AttemptIds : /\ attempt'[b].status = "unborn" <=> attempt[b].status = "unborn"
                                /\ attempt'[b].status = "succeeded" <=> attempt[b].status = "succeeded"
       /\ \A i \in Jobs : /\ job'[i].attempt = job[i].attempt /\ job'[i].owner = job[i].owner
                          /\ job'[i].status \in ProcessJob <=> job[i].status \in ProcessJob
                          /\ job'[i].status \notin {"running"} => job'[i].status = job[i].status
                          /\ job'[i].status = "running" =>
                               job[i].status \in ProcessJob
      BY <1>4, <1>5, <1>6 DEF ProcessJob
<1>11. AttemptsHaveJobs'
  <2>1. \A i \in Jobs : job[i].status # "absent" => job'[i].status # "absent"
        BY <1>10
  <2> QED BY <1>6, <1>10, <2>1 DEF IInv, AttemptsHaveJobs, Exists
<1>12. PointersResolve'
  <2>1. \A i \in Jobs : job[i].attempt # None => job[i].attempt \in AttemptIds
        BY DEF IInv, TypeOK, JobRecords
  <2> QED BY <1>6, <1>10, <2>1 DEF IInv, PointersResolve, Exists
<1>13. ActiveIsCurrent'
  <2> SUFFICES ASSUME NEW b \in ActiveAttempts
               PROVE  /\ job'[attempt'[b].job].attempt = b
                      /\ job'[attempt'[b].job].status \in ProcessJob \cup {"failed"}
      BY <1>9 DEF ActiveIsCurrent
  <2>1. b \in AttemptIds /\ attempt[b].job \in Jobs
        BY DEF IInv, AttemptsHaveJobs, ActiveAttempts, ActiveStatuses, Exists
  <2>2. /\ job[attempt[b].job].attempt = b
        /\ job[attempt[b].job].status \in ProcessJob \cup {"failed"}
        BY DEF IInv, ActiveIsCurrent
  <2>3. job'[attempt[b].job].status = "running" => "running" \in ProcessJob
        BY DEF ProcessJob
  <2> QED BY <1>6, <1>10, <2>1, <2>2, <2>3
<1>14. ExecutingIsActive'
  <2> SUFFICES ASSUME NEW i \in Jobs, job'[i].status \in ProcessJob
               PROVE  /\ job'[i].attempt \in ActiveAttempts
                      /\ job'[i].owner # NoWorker
                      /\ job'[i].status = "running" =>
                           attempt'[job'[i].attempt].status = "running"
      BY <1>9 DEF ExecutingIsActive, ProcessJob
  <2>1. /\ job[i].attempt \in ActiveAttempts /\ job[i].owner # NoWorker
        /\ job[i].status = "running" => attempt[job[i].attempt].status = "running"
        BY <1>10 DEF IInv, ExecutingIsActive
  <2>2. job[i].attempt \in AttemptIds /\ attempt[job[i].attempt].job = i
        BY <2>1 DEF IInv, PointersResolve, ActiveAttempts, AttemptIds, None
  <2>3. CASE job[i].attempt = a
    <3>1. attempt[a].status \in ActiveStatuses
          BY <2>1, <2>3 DEF ActiveAttempts
    <3>2. attempt'[a].status = "running"
          BY <1>6, <3>1 DEF ActiveStatuses
    <3> QED BY <1>10, <2>1, <2>3, <3>2
  <2>4. CASE job[i].attempt # a
    <3>1. job'[i].status = "running" => job[i].status = "running"
      <4>1. CASE i = j
            BY <1>4, <1>5, <2>4, <4>1
      <4>2. CASE i # j
            BY <1>5, <4>2
      <4> QED BY <4>1, <4>2
    <3> QED BY <1>6, <1>10, <2>1, <2>2, <2>4, <3>1
  <2> QED BY <2>3, <2>4
<1>15. ClaimsNameTheirAttempts'
  <2>1. AttemptsKeep
        BY <1>6, <1>10 DEF AttemptsKeep, Exists
  <2> QED BY <1>7, <2>1, InheritedClaims
<1>16. CancelOnlyWhileCancelling'
      BY <1>2, <1>10 DEF IInv, CancelOnlyWhileCancelling
<1>17. AcceptedOnce'
  <2>1. \A i \in Jobs : job'[i].status = "succeeded" <=> job[i].status = "succeeded"
        BY <1>4, <1>5 DEF ProcessJob
  <2> QED BY <1>6, <1>10, <2>1 DEF IInv, AcceptedOnce
<1> QED BY <1>8, <1>11, <1>12, <1>13, <1>14, <1>15, <1>16, <1>17 DEF IInv

-----------------------------------------------------------------------------
(* The steps that write many jobs and attempts at once. *)

\* Attempts keep their job, and only those at work are given up.
AttemptsGivenUp ==
  \A b \in AttemptIds :
    /\ attempt'[b].job = attempt[b].job
    /\ \/ attempt'[b].status = attempt[b].status
       \/ /\ attempt[b].status \in ActiveStatuses
          /\ attempt'[b].status \in {"unknown", "cancelled"}

\* Jobs keep their attempt and their result; a job that is written leaves no
\* attempt at work, and one that goes on executing has lost nothing.
JobGivenUp(i) ==
  /\ job'[i].attempt = job[i].attempt
  /\ job[i].status # "absent" => job'[i].status # "absent"
  /\ job'[i].status = "succeeded" <=> job[i].status = "succeeded"
  /\ job'[i].status \in ProcessJob =>
       /\ job'[i] = job[i]
       /\ attempt'[job[i].attempt].status = attempt[job[i].attempt].status
  /\ \/ job'[i].status = job[i].status
     \/ job[i].attempt = None
     \/ attempt'[job[i].attempt].status \notin ActiveStatuses
JobsGivenUp == \A i \in Jobs : JobGivenUp(i)

LEMMA ManyGivenUp ==
  ASSUME IInv, TypeOK', CancelOnlyWhileCancelling', UNCHANGED claims,
         AttemptsGivenUp, JobsGivenUp
  PROVE  IInv'
<1> USE DEF AttemptsGivenUp, JobsGivenUp, JobGivenUp
<1>1. \A b \in AttemptIds :
        /\ attempt'[b].status = "unborn" <=> attempt[b].status = "unborn"
        /\ attempt'[b].status = "succeeded" <=> attempt[b].status = "succeeded"
        /\ attempt'[b].status \in ActiveStatuses =>
             attempt'[b].status = attempt[b].status
      BY DEF ActiveStatuses
<1>2. \A i \in Jobs : job[i].attempt # None => job[i].attempt \in AttemptIds
      BY DEF IInv, TypeOK, JobRecords
<1>3. AttemptsHaveJobs'
      BY <1>1 DEF IInv, AttemptsHaveJobs, Exists
<1>4. PointersResolve'
      BY <1>1, <1>2 DEF IInv, PointersResolve, Exists
<1>5. ActiveIsCurrent'
  <2> SUFFICES ASSUME NEW b \in AttemptIds, attempt'[b].status \in ActiveStatuses
               PROVE  /\ job'[attempt'[b].job].attempt = b
                      /\ job'[attempt'[b].job].status \in ProcessJob \cup {"failed"}
      BY DEF ActiveIsCurrent, ActiveAttempts
  <2>1. /\ b \in ActiveAttempts /\ attempt[b].job \in Jobs
        /\ b # None
        BY <1>1 DEF IInv, AttemptsHaveJobs, ActiveAttempts, ActiveStatuses, Exists,
                    AttemptIds, None
  <2>2. /\ job[attempt[b].job].attempt = b
        /\ job[attempt[b].job].status \in ProcessJob \cup {"failed"}
        BY <2>1 DEF IInv, ActiveIsCurrent
  <2> QED BY <2>1, <2>2
<1>6. ExecutingIsActive'
  <2> SUFFICES ASSUME NEW i \in Jobs, job'[i].status \in ProcessJob
               PROVE  /\ attempt'[job'[i].attempt].status \in ActiveStatuses
                      /\ job'[i].attempt \in AttemptIds
                      /\ job'[i].owner # NoWorker
                      /\ job'[i].status = "running" =>
                           attempt'[job'[i].attempt].status = "running"
      BY DEF ExecutingIsActive, ActiveAttempts, ProcessJob
  <2>1. job'[i] = job[i]
        OBVIOUS
  <2>2. /\ job[i].attempt \in ActiveAttempts /\ job[i].owner # NoWorker
        /\ job[i].status = "running" => attempt[job[i].attempt].status = "running"
        BY <2>1 DEF IInv, ExecutingIsActive
  <2> QED BY <2>1, <2>2 DEF ActiveAttempts
<1>7. ClaimsNameTheirAttempts'
  <2>1. AttemptsKeep
        BY <1>1 DEF AttemptsKeep, Exists
  <2>2. ClaimsInherit
        BY DEF ClaimsInherit, Inherits
  <2> QED BY <2>1, <2>2, InheritedClaims
<1>8. AcceptedOnce'
      BY <1>1 DEF IInv, AcceptedOnce
<1> QED BY <1>3, <1>4, <1>5, <1>6, <1>7, <1>8 DEF IInv

LEMMA RetryResearchRunKeeps ==
  ASSUME IInv, NEW r \in Runs, RetryResearchRun(r)
  PROVE  IInv'
<1> DEFINE stops(j) == job[j].status \in {"leased", "spawn-reserved", "running", "failed"}
           waiting(j) == IF stops(j) THEN Unleased(job[j], "retry-wait") ELSE job[j]
           requeued(j) == IF waiting(j).status = "retry-wait" /\ waiting(j).class # "none"
                          THEN [waiting(j) EXCEPT !.class = "transient"] ELSE waiting(j)
<1>1. /\ run[r].status \in {"failed", "incomplete"}
      /\ run' = [run EXCEPT ![r].status = "queued"]
      /\ attempt' = [a \in AttemptIds |->
                       IF a \in ActiveAttempts /\ attempt[a].job \in JobsOf(r)
                       THEN [attempt[a] EXCEPT !.status = "unknown"] ELSE attempt[a]]
      /\ job' = [j \in Jobs |-> IF j \in JobsOf(r) THEN requeued(j) ELSE job[j]]
      /\ resumes' = resumes + 1 /\ resumes < MaxResumes
      /\ UNCHANGED <<prepared, claims, down, outages>>
      BY DEF RetryResearchRun
<1>2. \A j \in Jobs : job[j] \in JobRecords
      BY DEF IInv, TypeOK
<1>3. \A a \in AttemptIds : attempt[a] \in AttemptRecords
      BY DEF IInv, TypeOK
<1>4. ASSUME NEW j \in Jobs
      PROVE  /\ waiting(j) \in JobRecords
             /\ waiting(j).attempt = job[j].attempt
             /\ waiting(j).status = IF stops(j) THEN "retry-wait" ELSE job[j].status
  <2>1. CASE stops(j)
        BY <1>2, <2>1, UnleasedFacts DEF JobStatuses
  <2>2. CASE ~stops(j)
        BY <1>2, <2>2
  <2> QED BY <2>1, <2>2
<1>5. ASSUME NEW j \in Jobs
      PROVE  /\ requeued(j) \in JobRecords
             /\ requeued(j).attempt = job[j].attempt
             /\ requeued(j).status = IF stops(j) THEN "retry-wait" ELSE job[j].status
  <2> HIDE DEF waiting, stops
  <2> QED BY <1>4 DEF JobRecords, Classes
<1> HIDE DEF waiting, requeued
<1>6. \A j \in Jobs : j \in JobsOf(r) => job[j].status # "cancel-requested"
      BY <1>1, JobsFacts DEF IInv, CancelOnlyWhileCancelling
<1>7. ASSUME NEW a \in AttemptIds
      PROVE  /\ attempt'[a] \in AttemptRecords /\ attempt'[a].job = attempt[a].job
             /\ attempt'[a].status = IF a \in ActiveAttempts /\ attempt[a].job \in JobsOf(r)
                                     THEN "unknown" ELSE attempt[a].status
      BY <1>1, <1>3 DEF AttemptRecords, AttemptStatuses
<1>8. TypeOK'
  <2>1. job' \in [Jobs -> JobRecords]
        BY <1>1, <1>2, <1>5
  <2>2. attempt' \in [AttemptIds -> AttemptRecords]
        BY <1>1, <1>7
  <2>3. run' \in [Runs -> RunRecords]
        BY <1>1 DEF IInv, TypeOK, RunRecords, RunStatuses
  <2>4. resumes' \in 0..MaxResumes
        BY <1>1, BoundsAreNatural DEF IInv, TypeOK
  <2> QED BY <1>1, <2>1, <2>2, <2>3, <2>4 DEF IInv, TypeOK
<1>9. CancelOnlyWhileCancelling'
  <2> SUFFICES ASSUME NEW j \in Jobs, job'[j].status = "cancel-requested"
               PROVE  run'[RunOf(j)].status = "cancelling"
      BY DEF CancelOnlyWhileCancelling
  <2>1. j \notin JobsOf(r) /\ job[j].status = "cancel-requested"
        BY <1>1, <1>5, <1>6
  <2>2. run[RunOf(j)].status = "cancelling" /\ RunOf(j) # r /\ RunOf(j) \in Runs
        BY <2>1, JobsFacts DEF IInv, CancelOnlyWhileCancelling
  <2> QED BY <1>1, <2>2 DEF IInv, TypeOK
<1>10. AttemptsGivenUp
      BY <1>7 DEF AttemptsGivenUp, ActiveAttempts
<1>11. ASSUME NEW i \in Jobs
       PROVE  JobGivenUp(i)
  <2>1. job[i].attempt # None =>
          job[i].attempt \in AttemptIds /\ attempt[job[i].attempt].job = i
        BY <1>2 DEF IInv, PointersResolve, JobRecords
  <2>2. CASE i \in JobsOf(r)
    <3>1. job'[i] = requeued(i)
          BY <1>1, <2>2
    <3>2. job'[i].status \notin ProcessJob
          BY <1>5, <1>6, <2>2, <3>1 DEF ProcessJob
    <3>3. job[i].attempt # None => attempt'[job[i].attempt].status \notin ActiveStatuses
          BY <1>7, <2>1, <2>2 DEF ActiveAttempts, ActiveStatuses
    <3> QED BY <1>5, <3>1, <3>2, <3>3 DEF JobGivenUp
  <2>3. CASE i \notin JobsOf(r)
    <3>1. job'[i] = job[i]
          BY <1>1, <2>3
    <3>2. job[i].status \in ProcessJob => job[i].attempt # None
          BY DEF IInv, ExecutingIsActive, ActiveAttempts, AttemptIds, None
    <3>3. job[i].attempt # None =>
            attempt'[job[i].attempt].status = attempt[job[i].attempt].status
          BY <1>7, <2>1, <2>3
    <3> QED BY <3>1, <3>2, <3>3 DEF JobGivenUp
  <2> QED BY <2>2, <2>3
<1>12. JobsGivenUp
      BY <1>11 DEF JobsGivenUp
<1> QED BY <1>1, <1>8, <1>9, <1>10, <1>12, ManyGivenUp

LEMMA RecoverExpiredKeeps ==
  ASSUME IInv, RecoverExpired
  PROVE  IInv'
<1> DEFINE runs == {r \in Runs : \E a \in ActiveAttempts :
                      attempt[a].job \in JobsOf(r) /\ CancelExpired(attempt[a].job)}
           withdrawn(j) == runs # {} /\ CancelExpired(j)
           cancelled == [j \in Jobs |-> IF withdrawn(j)
                           THEN Unleased(job[j], "cancelled") ELSE job[j]]
           lost(j) == /\ job[j].attempt # None
                      /\ attempt'[job[j].attempt].status = "unknown"
           waiting(j) == Unleased(cancelled[j], "retry-wait")
           requeued(j) == [waiting(j) EXCEPT !.class = "transient"]
<1>1. attempt' = [a \in AttemptIds |->
        IF a \notin ExpiredAttempts THEN attempt[a]
        ELSE [attempt[a] EXCEPT !.status =
                IF withdrawn(attempt[a].job) THEN "cancelled" ELSE "unknown"]]
      BY DEF RecoverExpired
<1>2. job' = [j \in Jobs |-> IF lost(j) THEN requeued(j) ELSE cancelled[j]]
      BY <1>1 DEF RecoverExpired
<1>3. /\ run' = [r \in Runs |-> [run[r] EXCEPT !.status =
                   IF r \in runs THEN CancelledWhenDone(r, cancelled) ELSE run[r].status]]
      /\ UNCHANGED <<prepared, claims, down, outages, resumes>>
      BY DEF RecoverExpired
<1>4. /\ \A j \in Jobs : job[j] \in JobRecords
      /\ \A a \in AttemptIds : attempt[a] \in AttemptRecords
      /\ \A r \in Runs : run[r] \in RunRecords
      BY DEF IInv, TypeOK
<1>5. ASSUME NEW j \in Jobs
      PROVE  /\ cancelled[j] \in JobRecords
             /\ cancelled[j].attempt = job[j].attempt
             /\ withdrawn(j) => cancelled[j].status = "cancelled"
             /\ ~withdrawn(j) => cancelled[j] = job[j]
  <2>1. CASE withdrawn(j)
        BY <1>4, <2>1, UnleasedFacts DEF JobStatuses
  <2>2. CASE ~withdrawn(j)
        BY <1>4, <2>2
  <2> QED BY <2>1, <2>2
<1>6. ASSUME NEW j \in Jobs
      PROVE  /\ requeued(j) \in JobRecords
             /\ requeued(j).attempt = job[j].attempt
             /\ requeued(j).status = "retry-wait"
  <2>1. /\ waiting(j) \in JobRecords
        /\ waiting(j).attempt = job[j].attempt
        /\ waiting(j).status = "retry-wait"
    <3> HIDE DEF cancelled
    <3> QED BY <1>5, UnleasedFacts DEF JobStatuses
  <2> HIDE DEF waiting
  <2> QED BY <2>1 DEF JobRecords, Classes
<1> HIDE DEF cancelled, requeued
<1>7. ASSUME NEW a \in AttemptIds
      PROVE  /\ attempt'[a] \in AttemptRecords /\ attempt'[a].job = attempt[a].job
             /\ attempt'[a].status =
                  IF a \notin ExpiredAttempts THEN attempt[a].status
                  ELSE IF withdrawn(attempt[a].job) THEN "cancelled" ELSE "unknown"
  <2> HIDE DEF withdrawn
  <2>1. CASE a \notin ExpiredAttempts
        BY <1>1, <1>4, <2>1
  <2>2. CASE a \in ExpiredAttempts
        BY <1>1, <1>4, <2>2 DEF AttemptRecords, AttemptStatuses
  <2> QED BY <2>1, <2>2
<1>8. ASSUME NEW j \in Jobs
      PROVE  /\ job'[j] \in JobRecords /\ job'[j].attempt = job[j].attempt
             /\ lost(j) => job'[j].status = "retry-wait"
             /\ ~lost(j) /\ withdrawn(j) => job'[j].status = "cancelled"
             /\ ~lost(j) /\ ~withdrawn(j) => job'[j] = job[j]
      BY <1>2, <1>5, <1>6
<1>9. ASSUME NEW r \in Runs
      PROVE  /\ run'[r] \in RunRecords
             /\ \/ run'[r].status = run[r].status
                \/ \A j \in JobsOf(r) : cancelled[j].status # "cancel-requested"
  <2>1. CancelledWhenDone(r, cancelled) = run[r].status
          \/ /\ CancelledWhenDone(r, cancelled) = "cancelled"
             /\ \A j \in JobsOf(r) : cancelled[j].status # "cancel-requested"
        BY DEF CancelledWhenDone
  <2> DEFINE status == IF r \in runs THEN CancelledWhenDone(r, cancelled) ELSE run[r].status
  <2>2. run'[r] = [run[r] EXCEPT !.status = status]
        BY <1>3
  <2>3. \/ status = run[r].status
        \/ /\ status = "cancelled"
           /\ \A j \in JobsOf(r) : cancelled[j].status # "cancel-requested"
        BY <2>1
  <2> HIDE DEF status
  <2> QED BY <1>4, <2>2, <2>3 DEF RunRecords, RunStatuses
<1>10. TypeOK'
  <2>1. job' \in [Jobs -> JobRecords]
        BY <1>2, <1>8
  <2>2. attempt' \in [AttemptIds -> AttemptRecords]
        BY <1>1, <1>7
  <2>3. run' \in [Runs -> RunRecords]
        BY <1>3, <1>9
  <2> QED BY <1>3, <2>1, <2>2, <2>3 DEF IInv, TypeOK
<1>11. CancelOnlyWhileCancelling'
  <2> SUFFICES ASSUME NEW j \in Jobs, job'[j].status = "cancel-requested"
               PROVE  run'[RunOf(j)].status = "cancelling"
      BY DEF CancelOnlyWhileCancelling
  <2>1. /\ RunOf(j) \in Runs /\ j \in JobsOf(RunOf(j))
        /\ job[j].status = "cancel-requested" /\ cancelled[j] = job[j]
        BY <1>5, <1>8, JobsFacts
  <2>2. run[RunOf(j)].status = "cancelling"
        BY <2>1 DEF IInv, CancelOnlyWhileCancelling
  <2> QED BY <1>9, <2>1, <2>2
<1>12. AttemptsGivenUp
      BY <1>7 DEF AttemptsGivenUp, ExpiredAttempts, ActiveAttempts
<1>13. ASSUME NEW i \in Jobs
       PROVE  JobGivenUp(i)
  <2> DEFINE a == job[i].attempt
  <2>1. a # None => a \in AttemptIds /\ attempt[a].job = i /\ Exists(a)
        BY <1>4 DEF IInv, PointersResolve, JobRecords
  <2>2. job[i].status \in ProcessJob => a \in ActiveAttempts /\ a # None
        BY DEF IInv, ExecutingIsActive, ActiveAttempts, AttemptIds, None
  <2>3. job[i].status = "succeeded" /\ a # None => attempt[a].status = "succeeded"
        BY <2>1 DEF IInv, AcceptedOnce
  <2>4. withdrawn(i) => job[i].status = "cancel-requested" /\ Expired(i)
        BY DEF CancelExpired
  <2>5. CASE lost(i)
    <3>1. job[i].status # "succeeded"
          BY <1>7, <2>1, <2>3, <2>5 DEF ExpiredAttempts, ActiveAttempts, ActiveStatuses
    <3>2. attempt[a].status # "unborn" /\ job[i].status # "absent"
          BY <2>1, <2>5 DEF IInv, AttemptsHaveJobs, Exists
    <3> QED BY <1>8, <2>5, <3>1, <3>2 DEF JobGivenUp, ProcessJob, ActiveStatuses
  <2>6. CASE ~lost(i) /\ withdrawn(i)
    <3>1. a \in ExpiredAttempts
          BY <2>1, <2>2, <2>4, <2>6 DEF ExpiredAttempts, ProcessJob
    <3>2. attempt'[a].status = "cancelled"
          BY <1>7, <2>1, <2>2, <2>4, <2>6, <3>1 DEF ProcessJob
    <3> QED BY <1>8, <2>4, <2>6, <3>2 DEF JobGivenUp, ProcessJob, ActiveStatuses
  <2>7. CASE ~lost(i) /\ ~withdrawn(i)
    <3>1. job'[i] = job[i]
          BY <1>8, <2>7
    <3>2. a # None => a \notin ExpiredAttempts
          BY <1>7, <2>1, <2>7
    <3>3. a # None => attempt'[a].status = attempt[a].status
          BY <1>7, <2>1, <3>2
    <3> QED BY <2>2, <3>1, <3>3 DEF JobGivenUp
  <2> QED BY <2>5, <2>6, <2>7
<1>14. JobsGivenUp
      BY <1>13 DEF JobsGivenUp
<1> QED BY <1>3, <1>10, <1>11, <1>12, <1>14, ManyGivenUp

-----------------------------------------------------------------------------
(* Every step. *)

LEMMA StutterKeeps ==
  ASSUME IInv, UNCHANGED vars
  PROVE  IInv'
<1>1. UNCHANGED <<run, job, attempt, prepared, claims, down, outages, resumes>>
      BY DEF vars
<1>2. ClaimsInherit
      BY <1>1, FewerClaims
<1>3. TypeOK' /\ CancelOnlyWhileCancelling'
      BY <1>1 DEF IInv, TypeOK, CancelOnlyWhileCancelling
<1> QED BY <1>1, <1>2, <1>3, QuietStep, JobsAndAttemptsUnchanged

LEMMA NextKeeps ==
  ASSUME IInv, [Next]_vars
  PROVE  IInv'
<1>1. ASSUME NEW r \in Runs,
             \/ Create(r) \/ CancelResearchRun(r) \/ RetryResearchRun(r)
             \/ ActivateNextRun(r) \/ StageReview(r)
             \/ PublishReport(r) \/ TerminalizeWorkflowFailure(r)
      PROVE  IInv'
  <2>1. CASE Create(r)
        BY <2>1, CreateKeeps
  <2>2. CASE CancelResearchRun(r)
        BY <2>2, CancelResearchRunKeeps
  <2>3. CASE RetryResearchRun(r)
        BY <2>3, RetryResearchRunKeeps
  <2>4. CASE ActivateNextRun(r)
        BY <2>4, ActivateKeeps
  <2>5. CASE StageReview(r)
        BY <2>5, StageReviewKeeps
  <2>6. CASE PublishReport(r) \/ TerminalizeWorkflowFailure(r)
        BY <2>6, EndKeeps
  <2> QED BY <1>1, <2>1, <2>2, <2>3, <2>4, <2>5, <2>6
<1>2. ASSUME NEW w \in Workers, NEW j \in Jobs, Claim(w, j)
      PROVE  IInv'
      BY <1>2, ClaimKeeps
<1>3. ASSUME NEW c \in claims, Poll(c)
      PROVE  IInv'
  <2>1. CASE ReserveAtCapacity(c)
        BY <2>1, AdvanceKeeps
  <2>2. CASE ReserveDeclined(c) \/ ReserveThrows(c)
        BY <2>2, DropKeeps
  <2>3. CASE ReserveExhausted(c)
        BY <2>3, ReserveExhaustedKeeps
  <2>4. CASE Launch(c)
        BY <2>4, LaunchKeeps
  <2>5. CASE Release(c)
        BY <2>5, ReleaseKeeps
  <2> QED BY <1>3, <2>1, <2>2, <2>3, <2>4, <2>5 DEF Poll
<1>4. ASSUME NEW c \in claims, Handle(c)
      PROVE  IInv'
  <2>1. CASE PersistJobs(c)
        BY <2>1, AdvanceKeeps
  <2>2. CASE StageSpecialists(c)
        BY <2>2, StageSpecialistsKeeps
  <2>3. CASE ReleaseSystemCollectionReservation(c)
        BY <2>3, ReleaseReservationKeeps
  <2>4. CASE CommitAcceptedOutput(c)
        BY <2>4, CommitAcceptedOutputKeeps
  <2>5. CASE RejectFinally(c)
        BY <2>5, RejectFinallyKeeps
  <2>6. CASE RejectForRewrite(c)
        BY <2>6, RejectForRewriteKeeps
  <2>7. CASE ConsumeReplacementBudget(c)
        BY <2>7, ConsumeReplacementKeeps
  <2>8. CASE MarkReplacementRunning(c)
        BY <2>8, MarkReplacementRunningKeeps
  <2> QED BY <1>4, <2>1, <2>2, <2>3, <2>4, <2>5, <2>6, <2>7, <2>8 DEF Handle
<1>5. ASSUME NEW c \in claims, Commit(c)
      PROVE  IInv'
  <2>1. CASE CommitRequestedCancellation(c)
        BY <2>1, CommitRequestedCancellationKeeps
  <2>2. ASSUME NEW outcome \in Outcomes(c), CommitAttempt(c, outcome)
        PROVE  IInv'
        BY <2>2, CommitAttemptKeeps
  <2>3. CASE CommitStale(c)
        BY <2>3, DropKeeps
  <2> QED BY <1>5, <2>1, <2>2, <2>3 DEF Commit
<1>6. ASSUME NEW c \in claims, Heartbeat(c)
      PROVE  IInv'
      BY <1>6, HeartbeatKeeps
<1>7. CASE RecoverExpired
      BY <1>7, RecoverExpiredKeeps
<1>8. ASSUME NEW w \in Workers, Crash(w) \/ Shutdown(w) \/ Restart(w)
      PROVE  IInv'
      BY <1>8, OutageKeeps
<1>9. ASSUME NEW j \in Jobs, LeaseTick(j)
      PROVE  IInv'
      BY <1>9, LeaseTickKeeps
<1>10. CASE UNCHANGED vars
      BY <1>10, StutterKeeps
<1> QED BY <1>1, <1>2, <1>3, <1>4, <1>5, <1>6, <1>7, <1>8, <1>9, <1>10 DEF Next

-----------------------------------------------------------------------------
(* The theorems. *)

\* The records of runs, jobs and attempts agree in every reachable state,
\* whatever workers, recovery and the owner's commands do: IInv is inductive.
THEOREM Invariance == Spec => []IInv
<1>1. IInv /\ [Next]_vars => IInv'
      BY NextKeeps
<1> QED BY InitEstablishes, <1>1, PTL DEF Spec

LEMMA IInvImpliesOneExecutor == IInv => OneExecutor
<1> SUFFICES ASSUME IInv PROVE OneExecutor
    OBVIOUS
<1>1. \A a \in ActiveAttempts : job[attempt[a].job].attempt = a
      BY DEF IInv, ActiveIsCurrent
<1>2. ASSUME NEW j \in Jobs, job[j].status \in ProcessJob
      PROVE  /\ job[j].attempt \in ActiveAttempts
             /\ attempt[job[j].attempt].job = j
             /\ job[j].owner # NoWorker
  <2>1. job[j].attempt \in ActiveAttempts /\ job[j].owner # NoWorker
        BY <1>2 DEF IInv, ExecutingIsActive
  <2>2. job[j].attempt # None
        BY <2>1 DEF ActiveAttempts, AttemptIds, None
  <2> QED BY <2>1, <2>2 DEF IInv, PointersResolve
<1> QED BY <1>1, <1>2 DEF OneExecutor

\* The state is well typed: no budget column is ever driven below zero
\* (reserveWithinRunBudget, consumeReplacementBudget).
THEOREM TypeCorrect == Spec => []TypeOK
<1>1. IInv => TypeOK
      BY DEF IInv
<1> QED BY Invariance, <1>1, PTL

\* However leases expire, workers overlap, crash or take over, a job never has
\* two attempts at work, and one that counts as executing has one.
THEOREM OneExecutorAlways == Spec => []OneExecutor
BY Invariance, IInvImpliesOneExecutor, PTL

\* An output is accepted once and by the attempt its job names, so a commit
\* that comes after its lease was lost adds nothing.
THEOREM AcceptedOnceAlways == Spec => []AcceptedOnce
<1>1. IInv => AcceptedOnce
      BY DEF IInv
<1> QED BY Invariance, <1>1, PTL
=============================================================================
