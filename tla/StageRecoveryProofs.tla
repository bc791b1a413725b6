------------------------ MODULE StageRecoveryProofs ------------------------
(***************************************************************************)
(* Proofs about StageRecovery, for every number of workers, failures,      *)
(* launches, crashes and retries.                                          *)
(***************************************************************************)
EXTENDS StageRecovery, TLAPS

-----------------------------------------------------------------------------
(* Facts about the records. *)

LEMMA UnleasedType ==
  ASSUME NEW j \in JobRecords, NEW status \in JobStatuses
  PROVE  /\ Unleased(j, status) \in JobRecords
         /\ Unleased(j, status).status = status
  BY Zenon DEF Unleased, JobRecords

LEMMA MovedType ==
  ASSUME run \in RunRecords, NEW to \in RunStatuses
  PROVE  Moved(to) \in RunRecords /\ Moved(to).status = to
  BY DEF Moved, RunRecords

LEMMA ClassType ==
  ASSUME NEW j \in JobRecords, NEW class \in {"none", "transient", "repair"}
  PROVE  [j EXCEPT !.class = class] \in JobRecords
  BY Zenon DEF JobRecords

LEMMA AtRestBuilds ==
  ASSUME NEW audit, NEW jobs
  PROVE  AtRest \in CoordinatorRecords /\ BuildsOnAccepted(AtRest, audit, jobs)
  BY DEF AtRest, CoordinatorRecords, Points, Stages, Reasons,
         BuildsOnAccepted, Structural, Semantic, Chair, Publication

\* What a coordinator builds on stays accepted.
LEMMA BuildsStays ==
  ASSUME NEW c, NEW audit, NEW later, NEW jobs, NEW newer,
         BuildsOnAccepted(c, audit, jobs),
         audit = "publishable" => later = "publishable",
         \A k \in Rounds : jobs[k].status = "succeeded"
                             => newer[k].status = "succeeded"
  PROVE  BuildsOnAccepted(c, later, newer)
  BY DEF BuildsOnAccepted, Rounds

-----------------------------------------------------------------------------
(* What a step has to keep. *)

AcceptedStays ==
  /\ structural = "publishable" => structural' = "publishable"
  /\ \A k \in Rounds : job[k].status = "succeeded"
                         => job'[k].status = "succeeded"
StagesOnAccepted ==
  /\ job'[Semantic].status # "absent" =>
       job[Semantic].status # "absent" \/ structural = "publishable"
  /\ job'[Chair].status # "absent" =>
       job[Chair].status # "absent" \/ job[Semantic].status = "succeeded"
PublishesAccepted ==
  run'.status = "completed" =>
    run.status = "completed" \/ job[Chair].status = "succeeded"
CoordinatorsBuild ==
  \A w \in Workers : BuildsOnAccepted(coordinator'[w], structural', job')
HandlerBuilds ==
  handler'.at # "none" => handler.at # "none" \/ job'[Chair].status = "succeeded"

LEMMA StepKeeps ==
  ASSUME IInv, TypeOK', AcceptedStays, StagesOnAccepted, PublishesAccepted,
         CoordinatorsBuild, HandlerBuilds
  PROVE  IInv'
<1>1. StagesInOrder'
  BY DEF IInv, StagesInOrder, AcceptedStays, StagesOnAccepted,
         PublishesAccepted, Rounds
<1>2. HandlerBuildsOnAccepted'
  BY DEF IInv, HandlerBuildsOnAccepted, AcceptedStays, HandlerBuilds, Rounds
<1>3. (\A w \in Workers : BuildsOnAccepted(coordinator[w], structural, job))'
  BY DEF CoordinatorsBuild
<1>4. QED
  BY <1>1, <1>2, <1>3 DEF IInv

\* Coordinators that do not move.
LEMMA CoordinatorsRest ==
  ASSUME IInv, AcceptedStays, UNCHANGED coordinator
  PROVE  CoordinatorsBuild
<1> SUFFICES ASSUME NEW w \in Workers
             PROVE  BuildsOnAccepted(coordinator'[w], structural', job')
  BY DEF CoordinatorsBuild
<1>2. BuildsOnAccepted(coordinator[w], structural, job)
  BY DEF IInv
<1>3. BuildsOnAccepted(coordinator[w], structural', job')
  BY <1>2, BuildsStays DEF AcceptedStays
<1>4. QED
  BY <1>3

\* One coordinator moves.
LEMMA CoordinatorMoves ==
  ASSUME IInv, AcceptedStays, NEW w \in Workers,
         coordinator' = [coordinator EXCEPT ![w] = coordinator'[w]],
         coordinator'[w] \in CoordinatorRecords,
         BuildsOnAccepted(coordinator'[w], structural', job')
  PROVE  /\ CoordinatorsBuild
         /\ coordinator' \in [Workers -> CoordinatorRecords]
<1>1. coordinator' \in [Workers -> CoordinatorRecords]
  BY Zenon DEF IInv, TypeOK
<1>2. ASSUME NEW v \in Workers
      PROVE  BuildsOnAccepted(coordinator'[v], structural', job')
  <2>1. CASE v = w
    BY <2>1
  <2>2. CASE v # w
    <3>1. coordinator'[v] = coordinator[v]
      BY <2>2, Zenon DEF IInv, TypeOK
    <3>2. BuildsOnAccepted(coordinator[v], structural, job)
      BY DEF IInv
    <3>3. BuildsOnAccepted(coordinator[v], structural', job')
      BY <3>2, BuildsStays DEF AcceptedStays
    <3>4. QED
      BY <3>1, <3>3
  <2>3. QED
    BY <2>1, <2>2
<1>3. QED
  BY <1>1, <1>2 DEF CoordinatorsBuild

\* The steps of the coordinator that write neither jobs nor the audit.
LEMMA CoordinatorOnly ==
  ASSUME IInv, NEW w \in Workers,
         coordinator' = [coordinator EXCEPT ![w] = coordinator'[w]],
         coordinator'[w] \in CoordinatorRecords,
         BuildsOnAccepted(coordinator'[w], structural, job),
         run' \in RunRecords, PublishesAccepted,
         recovery' \in [Stages -> RecoveryRecords],
         tries' \in [Stages -> Nat],
         notices' \subseteq Workers \X Rounds,
         UNCHANGED <<structural, job, handler, Processes>>
  PROVE  IInv'
<1>1. AcceptedStays /\ StagesOnAccepted /\ HandlerBuilds
  BY DEF AcceptedStays, StagesOnAccepted, HandlerBuilds
<1>2. /\ CoordinatorsBuild
      /\ coordinator' \in [Workers -> CoordinatorRecords]
  BY <1>1, CoordinatorMoves
<1>3. TypeOK'
  BY <1>2 DEF IInv, TypeOK, Processes
<1>4. QED
  BY <1>1, <1>2, <1>3, StepKeeps

\* The steps of the engine, the owner and the processes: coordinators rest.
LEMMA JobsOnly ==
  ASSUME IInv, run' \in RunRecords, job' \in [Rounds -> JobRecords],
         AcceptedStays, StagesOnAccepted, PublishesAccepted,
         handler' \in HandlerRecords, HandlerBuilds,
         notices' \subseteq Workers \X Rounds,
         UNCHANGED <<structural, Coordination, Processes>>
  PROVE  IInv'
<1>1. CoordinatorsBuild
  BY CoordinatorsRest DEF Coordination
<1>2. TypeOK'
  BY DEF IInv, TypeOK, Coordination, Processes
<1>3. QED
  BY <1>1, <1>2, StepKeeps

-----------------------------------------------------------------------------
(* The initial state, the owner and the engine. *)

LEMMA InitHolds == Init => IInv
<1> SUFFICES ASSUME Init PROVE IInv
  OBVIOUS
<1>2. TypeOK
  <2>1. run \in RunRecords
    BY DEF Init, RunRecords, RunStatuses
  <2>2. job \in [Rounds -> JobRecords]
    BY LimitsAreNatural DEF Init, JobRecords, JobStatuses
  <2>3. recovery \in [Stages -> RecoveryRecords]
    BY DEF Init, NoRow, RecoveryRecords
  <2>4. coordinator \in [Workers -> CoordinatorRecords]
    BY AtRestBuilds DEF Init
  <2>5. handler \in HandlerRecords
    BY DEF Init, NoHandler, HandlerRecords
  <2>6. QED
    BY <2>1, <2>2, <2>3, <2>4, <2>5, LimitsAreNatural DEF Init, TypeOK
<1>3. StagesInOrder
  BY DEF Init, StagesInOrder, Rounds, Semantic, Chair
<1>4. \A w \in Workers : BuildsOnAccepted(coordinator[w], structural, job)
  BY AtRestBuilds DEF Init
<1>5. HandlerBuildsOnAccepted
  BY DEF Init, NoHandler, HandlerBuildsOnAccepted
<1>6. QED
  BY <1>2, <1>3, <1>4, <1>5 DEF IInv

\* Steps that change the status of the run and no job.
LEMMA RunMoves ==
  ASSUME IInv, run' \in RunRecords, run'.status # "completed",
         UNCHANGED <<structural, job, handler, notices, Coordination, Processes>>
  PROVE  IInv'
<1>1. /\ job' \in [Rounds -> JobRecords]
      /\ handler' \in HandlerRecords
      /\ notices' \subseteq Workers \X Rounds
  BY DEF IInv, TypeOK
<1>2. AcceptedStays /\ StagesOnAccepted /\ PublishesAccepted /\ HandlerBuilds
  BY DEF AcceptedStays, StagesOnAccepted, PublishesAccepted, HandlerBuilds
<1>3. QED
  BY <1>1, <1>2, JobsOnly

LEMMA CreateKeeps == IInv /\ Create => IInv'
<1> SUFFICES ASSUME IInv, Create PROVE IInv'
  OBVIOUS
<1>2. run' \in RunRecords /\ run'.status # "completed"
  BY DEF IInv, TypeOK, Create, RunRecords, RunStatuses
<1>3. QED
  BY <1>2, RunMoves DEF Create

LEMMA ActivateKeeps == IInv /\ Activate => IInv'
<1> SUFFICES ASSUME IInv, Activate PROVE IInv'
  OBVIOUS
<1>2. PICK to \in {"failed", "incomplete", "running"} : run' = Moved(to)
  BY DEF Activate
<1>3. run' \in RunRecords /\ run'.status # "completed"
  BY <1>2, MovedType DEF IInv, TypeOK, RunStatuses
<1>4. QED
  BY <1>3, RunMoves DEF Activate

\* Steps of the owner and the engine that give jobs up or requeue them: a job
\* that succeeded, or does not exist, stays as it is.
LEMMA JobsStop ==
  ASSUME IInv, run' \in RunRecords, PublishesAccepted,
         job' \in [Rounds -> JobRecords],
         \A k \in Rounds : job[k].status \in {"succeeded", "absent"}
                              => job'[k] = job[k],
         UNCHANGED <<structural, handler, notices, Coordination, Processes>>
  PROVE  IInv'
<1>1. AcceptedStays /\ StagesOnAccepted /\ HandlerBuilds
  BY DEF AcceptedStays, StagesOnAccepted, HandlerBuilds, Rounds
<1>2. handler' \in HandlerRecords /\ notices' \subseteq Workers \X Rounds
  BY DEF IInv, TypeOK
<1>3. QED
  BY <1>1, <1>2, JobsOnly

LEMMA RetryKeeps == IInv /\ RetryResearchRun => IInv'
<1> SUFFICES ASSUME IInv, RetryResearchRun PROVE IInv'
  OBVIOUS
<1>2. run' \in RunRecords /\ run'.status # "completed"
  BY MovedType DEF IInv, TypeOK, RetryResearchRun, RunStatuses
<1>3. ASSUME NEW k \in Rounds
      PROVE  /\ job'[k] \in JobRecords
             /\ job[k].status \in {"succeeded", "absent"} => job'[k] = job[k]
  <2> DEFINE waiting == IF job[k].status \in {"running", "failed"}
                        THEN Unleased(job[k], "retry-wait") ELSE job[k]
  <2>1. job[k] \in JobRecords
    BY DEF IInv, TypeOK
  <2>2. waiting \in JobRecords
    BY <2>1, UnleasedType DEF JobStatuses
  <2>3. [waiting EXCEPT !.class = "transient"] \in JobRecords
    BY <2>2, ClassType
  <2>4. job'[k] = IF waiting.status = "retry-wait" /\ waiting.class # "none"
                  THEN [waiting EXCEPT !.class = "transient"] ELSE waiting
    BY DEF RetryResearchRun
  <2>5. job[k].status \in {"succeeded", "absent"} => waiting = job[k]
    OBVIOUS
  <2> HIDE DEF waiting
  <2>6. QED
    BY <2>2, <2>3, <2>4, <2>5
<1>4. job' \in [Rounds -> JobRecords]
  <2>1. job' = [k \in Rounds |-> job'[k]]
    BY DEF RetryResearchRun
  <2>2. QED
    BY <1>3, <2>1
<1>5. AcceptedStays /\ StagesOnAccepted /\ PublishesAccepted /\ HandlerBuilds
  BY <1>2, <1>3 DEF AcceptedStays, StagesOnAccepted, PublishesAccepted,
     HandlerBuilds, Rounds, RetryResearchRun
<1>6. CoordinatorsBuild
  BY <1>5, CoordinatorsRest DEF RetryResearchRun
<1>7. recovery' \in [Stages -> RecoveryRecords] /\ tries' \in [Stages -> Nat]
  BY DEF RetryResearchRun, NoRow, RecoveryRecords, Reasons
<1>8. resumes' \in 0..MaxResumes
  BY LimitsAreNatural DEF IInv, TypeOK, RetryResearchRun
<1>9. TypeOK'
  BY <1>2, <1>4, <1>7, <1>8 DEF IInv, TypeOK, RetryResearchRun
<1>10. QED
  BY <1>5, <1>6, <1>9, StepKeeps

-----------------------------------------------------------------------------
(* The engine. *)

\* One job changes, that has neither succeeded nor is absent.
LEMMA JobChanges ==
  ASSUME IInv, NEW k \in Rounds, job[k].status \notin {"succeeded", "absent"},
         job' = [job EXCEPT ![k] = job'[k]], job'[k] \in JobRecords,
         run' \in RunRecords, PublishesAccepted,
         UNCHANGED <<structural, handler, notices, Coordination, Processes>>
  PROVE  IInv'
<1>1. job' \in [Rounds -> JobRecords]
  BY Zenon DEF IInv, TypeOK
<1>2. \A i \in Rounds : job[i].status \in {"succeeded", "absent"}
                           => job'[i] = job[i]
  BY Zenon DEF IInv, TypeOK
<1>3. QED
  BY <1>1, <1>2, JobsStop

\* The run ends, and its pending jobs with it.
LEMMA PendingStops ==
  ASSUME IInv, NEW status \in {"failed", "cancelled"},
         NEW to \in {"incomplete", "cancelled"},
         run' = Moved(to),
         job' = [k \in Rounds |-> IF job[k].status \in Pending
                                  THEN Unleased(job[k], status) ELSE job[k]],
         UNCHANGED <<structural, handler, notices, Coordination, Processes>>
  PROVE  IInv'
<1>1. run' \in RunRecords /\ PublishesAccepted
  BY MovedType DEF IInv, TypeOK, RunStatuses, PublishesAccepted
<1>2. \A k \in Rounds : job[k] \in JobRecords
                         /\ Unleased(job[k], status) \in JobRecords
  BY UnleasedType DEF IInv, TypeOK, JobStatuses
<1>3. job' \in [Rounds -> JobRecords]
  BY <1>2
<1>4. \A k \in Rounds : job[k].status \in {"succeeded", "absent"}
                           => job'[k] = job[k]
  BY DEF Pending
<1>5. QED
  BY <1>1, <1>3, <1>4, JobsStop

LEMMA CancelKeeps == IInv /\ CancelResearchRun => IInv'
  BY PendingStops DEF CancelResearchRun

LEMMA LaunchesAreNatural ==
  ASSUME IInv
  PROVE  /\ \A k \in Rounds : /\ job[k].launches \in Nat
                              /\ job[k].launches <= Launches
                              /\ job[k].rewrites \in Nat
         /\ MaxPhysicalLaunches \in Nat /\ MaxAttemptsPerLogicalArtifact \in Nat
<1>1. job[Semantic] \in JobRecords /\ job[Chair] \in JobRecords
  BY DEF IInv, TypeOK, Rounds
<1>2. /\ job[Semantic].launches \in Nat /\ job[Chair].launches \in Nat
      /\ job[Semantic].rewrites \in Nat /\ job[Chair].rewrites \in Nat
  BY <1>1, LimitsAreNatural DEF JobRecords
<1>3. QED
  BY <1>2, LimitsAreNatural DEF Launches, Rounds

\* A launch within the budget.
LEMMA LaunchedType ==
  ASSUME IInv, NEW k \in Rounds, NEW w \in Workers, NEW extra \in {0, 1},
         Launches < MaxPhysicalLaunches, extra = 1 => ~NoRewriteLeft(k)
  PROVE  [status |-> "running", worker |-> w, class |-> job[k].class,
          launches |-> job[k].launches + 1,
          rewrites |-> job[k].rewrites + extra] \in JobRecords
<1>1. job[k].launches + 1 \in 0..MaxPhysicalLaunches
  BY LaunchesAreNatural DEF Launches, Rounds
<1>2. job[k] \in JobRecords
  BY DEF IInv, TypeOK
<1>3. job[k].rewrites + extra \in 0..(MaxAttemptsPerLogicalArtifact - 1)
  <2>1. CASE extra = 1
    BY <2>1, LaunchesAreNatural DEF NoRewriteLeft
  <2>2. CASE extra = 0
    BY <2>2, <1>2, LimitsAreNatural DEF JobRecords
  <2>3. QED
    BY <2>1, <2>2
<1>4. job[k].class \in {"none", "transient", "repair"}
  BY <1>2 DEF JobRecords
<1>5. QED
  BY <1>1, <1>3, <1>4 DEF JobRecords, JobStatuses

LEMMA LaunchKeeps ==
  ASSUME IInv, NEW w \in Workers, NEW k \in Rounds, Launch(w, k)
  PROVE  IInv'
<1>1. CASE OverBudget(k)
  BY <1>1, PendingStops DEF Launch
<1>2. CASE ~OverBudget(k)
  <2> DEFINE extra == IF IsRewrite(k) THEN 1 ELSE 0
             j == [status |-> "running", worker |-> w, class |-> job[k].class,
                   launches |-> job[k].launches + 1,
                   rewrites |-> job[k].rewrites + extra]
  <2>1. job[k] \in JobRecords /\ job \in [Rounds -> JobRecords]
    BY DEF IInv, TypeOK
  <2>2. job'[k] = j
    BY <1>2, <2>1, LaunchesAreNatural DEF Launch, JobRecords
  <2>3. job' = [job EXCEPT ![k] = job'[k]]
    BY <1>2, <2>1 DEF Launch
  <2>4. j \in JobRecords
    <3>1. extra \in {0, 1} /\ (extra = 1 => ~NoRewriteLeft(k))
      BY <1>2 DEF OverBudget
    <3>2. Launches < MaxPhysicalLaunches
      BY <1>2, LaunchesAreNatural DEF OverBudget, Launches, Rounds
    <3> HIDE DEF extra
    <3>3. QED
      BY <3>1, <3>2, LaunchedType
  <2>5. run' \in RunRecords /\ PublishesAccepted
    BY <1>2 DEF Launch, IInv, TypeOK, PublishesAccepted
  <2>6. QED
    BY <2>2, <2>3, <2>4, <2>5, JobChanges DEF Launch
<1>3. QED
  BY <1>1, <1>2

LEMMA AcceptKeeps ==
  ASSUME IInv, NEW w \in Workers, NEW k \in Rounds, Accept(w, k)
  PROVE  IInv'
<1>1. job \in [Rounds -> JobRecords] /\ job[k] \in JobRecords
  BY DEF IInv, TypeOK
<1>2. /\ Unleased(job[k], "succeeded") \in JobRecords
      /\ Unleased(job[k], "succeeded").status = "succeeded"
  BY <1>1, UnleasedType DEF JobStatuses
<1>3. job' = [job EXCEPT ![k] = Unleased(job[k], "succeeded")]
  BY DEF Accept
<1>4. job' \in [Rounds -> JobRecords]
  BY <1>1, <1>2, <1>3
<1>5. /\ job'[k].status = "succeeded"
      /\ \A i \in Rounds : i # k => job'[i] = job[i]
  BY <1>1, <1>2, <1>3, Zenon
<1>6. AcceptedStays /\ StagesOnAccepted /\ PublishesAccepted
  BY <1>5 DEF Accept, Executes, AcceptedStays, StagesOnAccepted,
     PublishesAccepted, Rounds
<1>7. handler' \in HandlerRecords /\ HandlerBuilds
  BY <1>5 DEF Accept, IInv, TypeOK, HandlerRecords, HandlerBuilds
<1>8. notices' \subseteq Workers \X Rounds
  BY DEF Accept, IInv, TypeOK
<1>9. run' \in RunRecords
  BY DEF Accept, IInv, TypeOK
<1>10. QED
  BY <1>4, <1>6, <1>7, <1>8, <1>9, JobsOnly DEF Accept

LEMMA RejectKeeps ==
  ASSUME IInv, NEW w \in Workers, NEW k \in Rounds, Reject(w, k)
  PROVE  IInv'
<1>1. job \in [Rounds -> JobRecords] /\ job[k] \in JobRecords
  BY DEF IInv, TypeOK
<1>2. job[k].status \notin {"succeeded", "absent"}
  BY DEF Reject, Executes
<1>3. run' \in RunRecords /\ PublishesAccepted
  BY DEF Reject, IInv, TypeOK, PublishesAccepted
<1>4. CASE NoRewriteLeft(k) \/ Launches >= MaxPhysicalLaunches
  <2>1. job' = [job EXCEPT ![k] = Unleased(job[k], "failed")]
    BY <1>4 DEF Reject
  <2>2. job'[k] \in JobRecords /\ job' = [job EXCEPT ![k] = job'[k]]
    BY <1>1, <2>1, UnleasedType, Zenon DEF JobStatuses
  <2>3. QED
    BY <1>2, <1>3, <2>2, JobChanges DEF Reject
<1>5. CASE ~(NoRewriteLeft(k) \/ Launches >= MaxPhysicalLaunches)
  <2>1. job' = [job EXCEPT ![k].launches = @ + 1, ![k].rewrites = @ + 1]
    BY <1>5 DEF Reject
  <2>2. job'[k] = [status |-> "running", worker |-> w, class |-> job[k].class,
                   launches |-> job[k].launches + 1,
                   rewrites |-> job[k].rewrites + 1]
    BY <1>1, <2>1 DEF Reject, Executes, JobRecords
  <2>3. job' = [job EXCEPT ![k] = job'[k]]
    BY <1>1, <2>1
  <2>4. job'[k] \in JobRecords
    <3>1. Launches < MaxPhysicalLaunches
      BY <1>5, LaunchesAreNatural DEF Launches, Rounds
    <3>2. \A extra \in {0, 1} : (extra = 1 => ~NoRewriteLeft(k)) =>
            [status |-> "running", worker |-> w, class |-> job[k].class,
             launches |-> job[k].launches + 1,
             rewrites |-> job[k].rewrites + extra] \in JobRecords
      BY <3>1, LaunchedType
    <3>3. [status |-> "running", worker |-> w, class |-> job[k].class,
           launches |-> job[k].launches + 1,
           rewrites |-> job[k].rewrites + 1] \in JobRecords
      BY <1>5, <3>2
    <3>4. QED
      BY <2>2, <3>3
  <2>5. QED
    BY <1>2, <1>3, <2>3, <2>4, JobChanges DEF Reject
<1>6. QED
  BY <1>4, <1>5

LEMMA FailKeeps ==
  ASSUME IInv, NEW w \in Workers, NEW k \in Rounds, Fail(w, k)
  PROVE  IInv'
<1>1. job \in [Rounds -> JobRecords] /\ job[k] \in JobRecords
  BY DEF IInv, TypeOK
<1>2. job[k].status \notin {"succeeded", "absent"}
  BY DEF Fail, Executes
<1>3. run' \in RunRecords /\ PublishesAccepted
  BY MovedType DEF Fail, IInv, TypeOK, PublishesAccepted, RunStatuses, Moved
<1>4. PICK j \in JobRecords : job' = [job EXCEPT ![k] = j]
  <2>1. \A class \in {"transient", "repair"} :
          [Unleased(job[k], "retry-wait") EXCEPT !.class = class] \in JobRecords
    <3>1. Unleased(job[k], "retry-wait") \in JobRecords
      BY <1>1, UnleasedType DEF JobStatuses
    <3>2. QED
      BY <3>1, ClassType
  <2>2. Unleased(job[k], "failed") \in JobRecords
    BY <1>1, UnleasedType DEF JobStatuses
  <2>3. QED
    BY <2>1, <2>2 DEF Fail
<1>5. job' = [job EXCEPT ![k] = job'[k]] /\ job'[k] \in JobRecords
  BY <1>1, <1>4
<1>6. QED
  BY <1>2, <1>3, <1>5, JobChanges DEF Fail

LEMMA RecoverExpiredKeeps ==
  ASSUME IInv, NEW k \in Rounds, RecoverExpired(k)
  PROVE  IInv'
<1>1. job \in [Rounds -> JobRecords] /\ job[k] \in JobRecords
  BY DEF IInv, TypeOK
<1>2. Unleased(job[k], "retry-wait") \in JobRecords
  BY <1>1, UnleasedType DEF JobStatuses
<1>3. [Unleased(job[k], "retry-wait") EXCEPT !.class = "transient"]
        \in JobRecords
  BY <1>2, ClassType
<1>4. job' = [job EXCEPT ![k] = job'[k]] /\ job'[k] \in JobRecords
  BY <1>1, <1>3, Zenon DEF RecoverExpired
<1>5. run' \in RunRecords /\ PublishesAccepted
  BY DEF RecoverExpired, IInv, TypeOK, PublishesAccepted
<1>6. job[k].status \notin {"succeeded", "absent"}
  BY DEF RecoverExpired
<1>7. QED
  BY <1>4, <1>5, <1>6, JobChanges DEF RecoverExpired

\* The handler publishes only what its accepted chair is behind.
LEMMA HandlerKeeps ==
  ASSUME IInv, HandlerStep
  PROVE  IInv'
<1>1. handler' \in HandlerRecords /\ HandlerBuilds
  <2>1. handler \in HandlerRecords /\ run \in RunRecords
    BY DEF IInv, TypeOK
  <2>2. NoHandler \in HandlerRecords /\ NoHandler.at = "none"
    BY DEF NoHandler, HandlerRecords
  <2>3. [handler EXCEPT !.at = "publish", !.seen = run.version]
          \in HandlerRecords
    <3>1. run.version \in Nat
      BY <2>1 DEF RunRecords
    <3>2. QED
      BY <2>1, <3>1, Zenon DEF HandlerRecords
  <2>4. QED
    BY <2>1, <2>2, <2>3 DEF HandlerStep, HandlerLoads, HandlerPublishes,
       HandlerBuilds
<1>2. run' \in RunRecords
  BY MovedType DEF IInv, TypeOK, HandlerStep, HandlerLoads, HandlerPublishes,
     RunStatuses
<1>3. PublishesAccepted
  BY DEF IInv, HandlerBuildsOnAccepted, HandlerStep, HandlerLoads,
     HandlerPublishes, PublishesAccepted
<1>4. job' \in [Rounds -> JobRecords] /\ AcceptedStays /\ StagesOnAccepted
  BY DEF IInv, TypeOK, HandlerStep, HandlerLoads, HandlerPublishes,
     AcceptedStays, StagesOnAccepted
<1>5. notices' \subseteq Workers \X Rounds
  BY DEF IInv, TypeOK, HandlerStep, HandlerLoads, HandlerPublishes, Up, Rounds
<1>6. QED
  BY <1>1, <1>2, <1>3, <1>4, <1>5, JobsOnly DEF HandlerStep, HandlerLoads,
     HandlerPublishes

-----------------------------------------------------------------------------
(* The coordinator. *)

\* A coordinator that goes on at the same stage, to a point that promises
\* nothing.
LEMMA SameStage ==
  ASSUME IInv, NEW w \in Workers,
         NEW at \in Points \ {"idle", "replay", "publish", "clear"},
         NEW why \in Reasons, NEW seen \in Nat,
         NEW c \in { [coordinator[w] EXCEPT !.at = at],
                     [coordinator[w] EXCEPT !.at = at, !.why = why],
                     [coordinator[w] EXCEPT !.at = at, !.seen = seen],
                     AtRest }
  PROVE  c \in CoordinatorRecords /\ BuildsOnAccepted(c, structural, job)
<1>1. coordinator[w] \in CoordinatorRecords
  BY DEF IInv, TypeOK
<1>2. BuildsOnAccepted(coordinator[w], structural, job)
  BY DEF IInv
<1>3. CASE c = AtRest
  BY <1>3, AtRestBuilds
<1>4. CASE c # AtRest
  <2>1. c \in CoordinatorRecords
    BY <1>1, <1>4, Zenon DEF CoordinatorRecords
  <2>2. c.stage = coordinator[w].stage /\ c.at = at
    BY <1>1, <1>4 DEF CoordinatorRecords
  <2>3. QED
    BY <1>2, <2>1, <2>2 DEF BuildsOnAccepted
<1>5. QED
  BY <1>3, <1>4

\* The coordinator reads, or writes what it alone writes.
LEMMA CoordinatorStays ==
  ASSUME IInv, NEW w \in Workers, NEW c \in CoordinatorRecords,
         coordinator' = [coordinator EXCEPT ![w] = c],
         BuildsOnAccepted(c, structural, job),
         recovery' \in [Stages -> RecoveryRecords], tries' \in [Stages -> Nat],
         UNCHANGED Outside
  PROVE  IInv'
<1>1. coordinator'[w] = c
  BY DEF IInv, TypeOK
<1>2. run' \in RunRecords /\ PublishesAccepted
  BY DEF IInv, TypeOK, Outside, PublishesAccepted
<1>3. notices' \subseteq Workers \X Rounds
  BY DEF IInv, TypeOK, Outside
<1>4. QED
  BY <1>1, <1>2, <1>3, CoordinatorOnly DEF Outside

LEMMA BeginKeeps ==
  ASSUME IInv, NEW w \in Workers, Begin(w)
  PROVE  IInv'
<1> DEFINE c == [coordinator[w] EXCEPT !.at = "replay"]
<1>1. coordinator[w] \in CoordinatorRecords
  BY DEF IInv, TypeOK
<1>2. c \in CoordinatorRecords
  BY <1>1, Zenon DEF CoordinatorRecords, Points
<1>3. BuildsOnAccepted(c, structural, job)
  <2>1. BuildsOnAccepted(coordinator[w], structural, job)
    BY DEF IInv
  <2>2. coordinator[w].at = "idle"
    BY DEF Begin, Is
  <2>3. c.stage = coordinator[w].stage /\ c.at = "replay"
    BY <1>1 DEF CoordinatorRecords
  <2> HIDE DEF c
  <2>4. QED
    BY <2>1, <2>2, <2>3 DEF BuildsOnAccepted
<1>4. coordinator' = [coordinator EXCEPT ![w] = c] /\ coordinator'[w] = c
  BY DEF Begin, Goes, IInv, TypeOK
<1> HIDE DEF c
<1>5. run' \in RunRecords /\ PublishesAccepted
  BY DEF Begin, IInv, TypeOK, PublishesAccepted
<1>6. notices' \subseteq Workers \X Rounds
  BY DEF Begin, IInv, TypeOK
<1>7. recovery' \in [Stages -> RecoveryRecords] /\ tries' \in [Stages -> Nat]
  BY DEF Begin, IInv, TypeOK
<1>8. QED
  BY <1>2, <1>3, <1>4, <1>5, <1>6, <1>7, CoordinatorOnly DEF Begin

LEMMA ReplayKeeps ==
  ASSUME IInv, NEW w \in Workers, Replay(w)
  PROVE  IInv'
<1> DEFINE s == coordinator[w].stage
<1>1. coordinator[w] \in CoordinatorRecords /\ s \in Stages
  BY DEF IInv, TypeOK, CoordinatorRecords
<1>2. recovery' \in [Stages -> RecoveryRecords] /\ tries' \in [Stages -> Nat]
  BY DEF Replay, IInv, TypeOK
<1>3. BuildsOnAccepted(coordinator[w], structural, job)
  BY DEF IInv
<1>4. UNCHANGED Outside
  BY DEF Replay
<1>5. CASE Advances(s)
  <2> DEFINE at == IF s = Chair THEN "check" ELSE "replay"
             c == [coordinator[w] EXCEPT !.stage = NextStage(s), !.at = at]
  <2>1. s # Publication
    BY <1>3 DEF Replay, Is, BuildsOnAccepted
  <2>2. /\ s = Structural => NextStage(s) = Semantic
        /\ s = Semantic => NextStage(s) = Chair
        /\ s = Chair => NextStage(s) = Publication
    BY DEF NextStage, Structural, Semantic, Chair
  <2>3. NextStage(s) \in Stages /\ at \in Points
    BY <1>1, <2>1, <2>2 DEF Stages, Points
  <2>4. c \in CoordinatorRecords /\ c.stage = NextStage(s) /\ c.at = at
    <3> HIDE DEF at
    <3>1. QED
      BY <1>1, <2>3, Zenon DEF CoordinatorRecords
  <2>5. coordinator' = [coordinator EXCEPT ![w] = c]
    BY <1>5 DEF Replay
  <2>6. AcceptedStage(s)
    BY <1>5 DEF Advances
  <2> HIDE DEF c
  <2>7. BuildsOnAccepted(c, structural, job)
    BY <1>1, <1>3, <2>1, <2>2, <2>4, <2>6 DEF BuildsOnAccepted, AcceptedStage,
       Stages, Structural, Semantic, Chair, Publication
  <2>8. QED
    BY <1>2, <1>4, <2>4, <2>5, <2>7, CoordinatorStays
<1>6. CASE ~Advances(s)
  <2> DEFINE stop == [coordinator[w] EXCEPT !.at = "closing",
                                           !.why = "replacement_exhausted"]
             go == [coordinator[w] EXCEPT !.at = "check"]
  <2>1. \/ coordinator' = [coordinator EXCEPT ![w] = AtRest]
        \/ coordinator' = [coordinator EXCEPT ![w] = stop]
        \/ coordinator' = [coordinator EXCEPT ![w] = go]
    BY <1>6 DEF Replay, Goes, Rests, Stops
  <2>2. \A c \in {AtRest, stop, go} :
          c \in CoordinatorRecords /\ BuildsOnAccepted(c, structural, job)
    <3>1. go \in CoordinatorRecords /\ BuildsOnAccepted(go, structural, job)
      BY SameStage DEF Points, Reasons
    <3>2. stop \in CoordinatorRecords /\ BuildsOnAccepted(stop, structural, job)
      BY SameStage DEF Points, Reasons
    <3> HIDE DEF stop, go
    <3>3. QED
      BY <3>1, <3>2, AtRestBuilds
  <2> HIDE DEF stop, go
  <2>3. PICK c \in {AtRest, stop, go} :
          coordinator' = [coordinator EXCEPT ![w] = c]
    BY <2>1
  <2>4. QED
    BY <1>2, <1>4, <2>2, <2>3, CoordinatorStays
<1>7. QED
  BY <1>5, <1>6

LEMMA CheckKeeps ==
  ASSUME IInv, NEW w \in Workers, Check(w)
  PROVE  IInv'
<1> DEFINE go == [coordinator[w] EXCEPT !.at = "work"]
<1>1. PICK c \in {go, AtRest} : coordinator' = [coordinator EXCEPT ![w] = c]
  BY DEF Check, Goes, Rests
<1>2. /\ go \in CoordinatorRecords /\ BuildsOnAccepted(go, structural, job)
      /\ AtRest \in CoordinatorRecords
      /\ BuildsOnAccepted(AtRest, structural, job)
  BY SameStage, AtRestBuilds DEF Points, Reasons
<1>3. recovery' \in [Stages -> RecoveryRecords] /\ tries' \in [Stages -> Nat]
  BY DEF Check, IInv, TypeOK
<1> HIDE DEF go
<1>4. c \in CoordinatorRecords /\ BuildsOnAccepted(c, structural, job)
  BY <1>2
<1>5. QED
  BY <1>1, <1>3, <1>4, CoordinatorStays DEF Check

\* The coordinator works: it may change the run, the audit, the jobs and the
\* history, and no other part.
LEMMA CoordinatorWorks ==
  ASSUME IInv, NEW w \in Workers, NEW c \in CoordinatorRecords,
         coordinator' = [coordinator EXCEPT ![w] = c],
         BuildsOnAccepted(c, structural', job'),
         AcceptedStays, StagesOnAccepted, PublishesAccepted,
         run' \in RunRecords,
         structural' \in {"none", "unpublishable", "publishable"},
         job' \in [Rounds -> JobRecords],
         tries' \in [Stages -> Nat],
         UNCHANGED <<recovery, handler, notices, Processes>>
  PROVE  IInv'
<1>1. coordinator'[w] = c
  BY DEF IInv, TypeOK
<1>2. /\ CoordinatorsBuild
      /\ coordinator' \in [Workers -> CoordinatorRecords]
  BY <1>1, CoordinatorMoves
<1>3. TypeOK'
  BY <1>2 DEF IInv, TypeOK, Processes
<1>4. HandlerBuilds
  BY DEF HandlerBuilds
<1>5. QED
  BY <1>2, <1>3, <1>4, StepKeeps

\* Its work on a stage fails: what it is at now, whatever it fails for.
LEMMA WorkFails ==
  ASSUME IInv, NEW w \in Workers, Blocked(w)
  PROVE  /\ tries' \in [Stages -> Nat]
         /\ \E c \in CoordinatorRecords :
              /\ coordinator' = [coordinator EXCEPT ![w] = c]
              /\ BuildsOnAccepted(c, structural, job)
<1>1. coordinator[w].stage \in Stages /\ tries \in [Stages -> Nat]
  BY DEF IInv, TypeOK, CoordinatorRecords
<1>2. CASE Fails(w)
  <2> DEFINE c == [coordinator[w] EXCEPT !.at = "failed"]
  <2>1. c \in CoordinatorRecords /\ BuildsOnAccepted(c, structural, job)
    BY SameStage DEF Points, Reasons
  <2>2. coordinator' = [coordinator EXCEPT ![w] = c]
    BY <1>2 DEF Fails, Goes
  <2>3. tries' \in [Stages -> Nat]
    BY <1>1, <1>2 DEF Fails
  <2> HIDE DEF c
  <2>4. QED
    BY <2>1, <2>2, <2>3
<1>3. CASE Stops(w, "not_recoverable") /\ UNCHANGED tries
  <2> DEFINE c == [coordinator[w] EXCEPT !.at = "closing",
                                        !.why = "not_recoverable"]
  <2>1. c \in CoordinatorRecords /\ BuildsOnAccepted(c, structural, job)
    BY SameStage DEF Points, Reasons
  <2>2. coordinator' = [coordinator EXCEPT ![w] = c]
    BY <1>3 DEF Stops
  <2> HIDE DEF c
  <2>3. QED
    BY <1>1, <1>3, <2>1, <2>2
<1>4. QED
  BY <1>2, <1>3 DEF Blocked

\* ... or is done, and the failures of the stage are cleared next.
LEMMA WorkDone ==
  ASSUME IInv, NEW w \in Workers, Goes(w, "clear"),
         coordinator[w].stage = Structural => structural' = "publishable",
         AcceptedStays
  PROVE  \E c \in CoordinatorRecords :
           /\ coordinator' = [coordinator EXCEPT ![w] = c]
           /\ BuildsOnAccepted(c, structural', job')
<1> DEFINE c == [coordinator[w] EXCEPT !.at = "clear"]
<1>1. coordinator[w] \in CoordinatorRecords
  BY DEF IInv, TypeOK
<1>2. c \in CoordinatorRecords
  BY <1>1, Zenon DEF CoordinatorRecords, Points
<1>3. c.stage = coordinator[w].stage /\ c.at = "clear"
  BY <1>1 DEF CoordinatorRecords
<1>4. coordinator' = [coordinator EXCEPT ![w] = c]
  BY DEF Goes
<1> HIDE DEF c
<1>5. BuildsOnAccepted(coordinator[w], structural, job)
  BY DEF IInv
<1>6. BuildsOnAccepted(coordinator[w], structural', job')
  BY <1>5, BuildsStays DEF AcceptedStays
<1>7. BuildsOnAccepted(c, structural', job')
  BY <1>3, <1>6 DEF BuildsOnAccepted
<1>8. QED
  BY <1>2, <1>4, <1>7

LEMMA AuditStructureKeeps ==
  ASSUME IInv, NEW w \in Workers, AuditStructure(w)
  PROVE  IInv'
<1>1. AcceptedStays /\ StagesOnAccepted /\ PublishesAccepted
  BY DEF AuditStructure, AcceptedStays, StagesOnAccepted, PublishesAccepted
<1>2. /\ run' \in RunRecords /\ job' \in [Rounds -> JobRecords]
      /\ structural' \in {"none", "unpublishable", "publishable"}
      /\ UNCHANGED <<recovery, handler, notices, Processes>>
  BY DEF AuditStructure, IInv, TypeOK
<1>3. /\ tries' \in [Stages -> Nat]
      /\ \E c \in CoordinatorRecords :
           /\ coordinator' = [coordinator EXCEPT ![w] = c]
           /\ BuildsOnAccepted(c, structural', job')
  <2>1. CASE structural' = "publishable" /\ Goes(w, "clear") /\ UNCHANGED tries
    BY <1>1, <2>1, WorkDone DEF IInv, TypeOK
  <2>2. CASE Blocked(w)
    <3>1. /\ tries' \in [Stages -> Nat]
          /\ \E c \in CoordinatorRecords :
               /\ coordinator' = [coordinator EXCEPT ![w] = c]
               /\ BuildsOnAccepted(c, structural, job)
      BY <2>2, WorkFails
    <3>2. QED
      BY <1>1, <3>1, BuildsStays DEF AcceptedStays
  <2>3. Fails(w) => Blocked(w)
    BY DEF Blocked
  <2>4. QED
    BY <2>1, <2>2, <2>3 DEF AuditStructure
<1>4. QED
  BY <1>1, <1>2, <1>3, CoordinatorWorks

LEMMA StageRoundKeeps ==
  ASSUME IInv, NEW w \in Workers, StageRound(w)
  PROVE  IInv'
<1> DEFINE s == coordinator[w].stage
<1>1. job \in [Rounds -> JobRecords] /\ s \in Rounds
  BY DEF StageRound, IInv, TypeOK
<1>2. /\ job' \in [Rounds -> JobRecords]
      /\ \A k \in Rounds : k # s => job'[k] = job[k]
      /\ job[s].status # "absent" => job'[s] = job[s]
  <2>1. [job[s] EXCEPT !.status = "queued"] \in JobRecords
    BY <1>1, Zenon DEF JobRecords, JobStatuses
  <2>2. job' = job \/ (/\ job[s].status = "absent"
                       /\ job' = [job EXCEPT ![s] =
                                    [job[s] EXCEPT !.status = "queued"]])
    BY DEF StageRound
  <2>3. QED
    BY <1>1, <2>1, <2>2
<1>3. AcceptedStays
  BY <1>1, <1>2 DEF StageRound, AcceptedStays
<1>4. StagesOnAccepted
  <2>1. BuildsOnAccepted(coordinator[w], structural, job)
    BY DEF IInv
  <2>2. QED
    BY <1>1, <1>2, <2>1 DEF StagesOnAccepted, BuildsOnAccepted, Rounds,
       Structural, Semantic, Chair, Publication
<1>5. /\ run' \in RunRecords /\ PublishesAccepted
      /\ structural' \in {"none", "unpublishable", "publishable"}
      /\ UNCHANGED <<recovery, handler, notices, Processes>>
  BY DEF StageRound, IInv, TypeOK, PublishesAccepted
<1>6. /\ tries' \in [Stages -> Nat]
      /\ \E c \in CoordinatorRecords :
           /\ coordinator' = [coordinator EXCEPT ![w] = c]
           /\ BuildsOnAccepted(c, structural', job')
  <2>1. CASE Goes(w, "clear") /\ UNCHANGED tries
    <3>1. coordinator[w].stage # Structural
      BY <1>1 DEF Rounds, Structural, Semantic, Chair
    <3>2. QED
      BY <1>3, <2>1, <3>1, WorkDone DEF IInv, TypeOK
  <2>2. CASE Blocked(w)
    <3>1. /\ tries' \in [Stages -> Nat]
          /\ \E c \in CoordinatorRecords :
               /\ coordinator' = [coordinator EXCEPT ![w] = c]
               /\ BuildsOnAccepted(c, structural, job)
      BY <2>2, WorkFails
    <3>2. QED
      BY <1>3, <3>1, BuildsStays DEF AcceptedStays
  <2>3. QED
    BY <2>1, <2>2 DEF StageRound
<1>7. QED
  BY <1>2, <1>3, <1>4, <1>5, <1>6, CoordinatorWorks

LEMMA LoadAuthorityKeeps ==
  ASSUME IInv, NEW w \in Workers, LoadAuthority(w)
  PROVE  IInv'
<1> DEFINE load == [coordinator[w] EXCEPT !.at = "publish", !.seen = run.version]
           stop == [coordinator[w] EXCEPT !.at = "closing",
                                          !.why = "not_recoverable"]
<1>1. coordinator[w] \in CoordinatorRecords /\ run.version \in Nat
  BY DEF IInv, TypeOK, RunRecords
<1>2. load \in CoordinatorRecords /\ BuildsOnAccepted(load, structural, job)
  <2>1. load \in CoordinatorRecords
    BY <1>1, Zenon DEF CoordinatorRecords, Points
  <2>2. load.stage = coordinator[w].stage /\ load.at = "publish"
    BY <1>1 DEF CoordinatorRecords
  <2>3. BuildsOnAccepted(coordinator[w], structural, job)
    BY DEF IInv
  <2>4. coordinator[w].stage = Publication
    BY DEF LoadAuthority
  <2> HIDE DEF load
  <2>5. QED
    BY <2>1, <2>2, <2>3, <2>4 DEF BuildsOnAccepted
<1>3. stop \in CoordinatorRecords /\ BuildsOnAccepted(stop, structural, job)
  BY SameStage DEF Points, Reasons
<1>4. PICK c \in {load, stop} : coordinator' = [coordinator EXCEPT ![w] = c]
  BY DEF LoadAuthority, Stops
<1>5. recovery' \in [Stages -> RecoveryRecords] /\ tries' \in [Stages -> Nat]
  BY DEF LoadAuthority, IInv, TypeOK
<1> HIDE DEF load, stop
<1>6. QED
  BY <1>2, <1>3, <1>4, <1>5, CoordinatorStays DEF LoadAuthority

\* A coordinator at publication has an accepted chair behind it.
LEMMA PublishReportKeeps ==
  ASSUME IInv, NEW w \in Workers, PublishReport(w)
  PROVE  IInv'
<1>1. AcceptedStays /\ StagesOnAccepted
  BY DEF PublishReport, AcceptedStays, StagesOnAccepted
<1>2. coordinator[w].stage = Publication /\ job[Chair].status = "succeeded"
  BY DEF IInv, BuildsOnAccepted, PublishReport, Is
<1>3. PublishesAccepted
  BY <1>2 DEF PublishesAccepted
<1>4. /\ run' \in RunRecords /\ job' \in [Rounds -> JobRecords]
      /\ structural' \in {"none", "unpublishable", "publishable"}
      /\ UNCHANGED <<structural, job, recovery, handler, notices, Processes>>
  BY MovedType DEF PublishReport, IInv, TypeOK, RunStatuses
<1>5. /\ tries' \in [Stages -> Nat]
      /\ \E c \in CoordinatorRecords :
           /\ coordinator' = [coordinator EXCEPT ![w] = c]
           /\ BuildsOnAccepted(c, structural', job')
  <2>1. CASE Goes(w, "clear") /\ UNCHANGED tries
    <3>1. coordinator[w].stage # Structural
      BY <1>2 DEF Publication, Structural
    <3>2. QED
      BY <1>1, <2>1, <3>1, WorkDone DEF IInv, TypeOK
  <2>2. CASE Blocked(w)
    BY <1>4, <2>2, WorkFails
  <2>3. QED
    BY <2>1, <2>2 DEF PublishReport
<1>6. QED
  BY <1>1, <1>3, <1>4, <1>5, CoordinatorWorks

LEMMA ReadFailuresKeeps ==
  ASSUME IInv, NEW w \in Workers, ReadFailures(w)
  PROVE  IInv'
<1> DEFINE count == recovery[coordinator[w].stage].count
           c == [coordinator[w] EXCEPT !.at = "counted", !.seen = count]
<1>1. count \in Nat
  BY DEF IInv, TypeOK, CoordinatorRecords, RecoveryRecords
<1>2. c \in CoordinatorRecords /\ BuildsOnAccepted(c, structural, job)
  <2> HIDE DEF count
  <2>1. QED
    BY <1>1, SameStage DEF Points, Reasons
<1>3. coordinator' = [coordinator EXCEPT ![w] = c]
  BY DEF ReadFailures
<1>4. recovery' \in [Stages -> RecoveryRecords] /\ tries' \in [Stages -> Nat]
  BY DEF ReadFailures, IInv, TypeOK
<1> HIDE DEF c
<1>5. QED
  BY <1>2, <1>3, <1>4, CoordinatorStays DEF ReadFailures

LEMMA ScheduleStageRecoveryKeeps ==
  ASSUME IInv, NEW w \in Workers, ScheduleStageRecovery(w)
  PROVE  IInv'
<1> DEFINE stop == [coordinator[w] EXCEPT !.at = "closing",
                      !.why = "automatic_recovery_exhausted"]
           count == coordinator[w].seen + 1
           row == [count |-> count, due |-> FALSE,
                   exhausted |-> ExhaustedAt(count)]
<1>1. stop \in CoordinatorRecords /\ BuildsOnAccepted(stop, structural, job)
  BY SameStage DEF Points, Reasons
<1>2. PICK c \in {stop, AtRest} : coordinator' = [coordinator EXCEPT ![w] = c]
  BY DEF ScheduleStageRecovery, AfterRecord, Stops, Rests
<1>3. row \in RecoveryRecords
  <2>1. count \in Nat
    BY DEF IInv, TypeOK, CoordinatorRecords
  <2>2. ExhaustedAt(count) \in BOOLEAN
    BY DEF ExhaustedAt
  <2> HIDE DEF count
  <2>3. QED
    BY <2>1, <2>2, Zenon DEF RecoveryRecords
<1>4. recovery' = [recovery EXCEPT ![coordinator[w].stage] = row]
  BY DEF ScheduleStageRecovery
<1> HIDE DEF row, stop
<1>5. recovery' \in [Stages -> RecoveryRecords]
  BY <1>3, <1>4 DEF IInv, TypeOK
<1>6. tries' \in [Stages -> Nat]
  BY DEF ScheduleStageRecovery, IInv, TypeOK
<1>7. QED
  BY <1>1, <1>2, <1>5, <1>6, AtRestBuilds, CoordinatorStays
     DEF ScheduleStageRecovery

LEMMA ReadRunKeeps ==
  ASSUME IInv, NEW w \in Workers, ReadRun(w)
  PROVE  IInv'
<1> DEFINE read == [coordinator[w] EXCEPT !.at = "transition",
                                         !.seen = run.version]
<1>1. read \in CoordinatorRecords /\ BuildsOnAccepted(read, structural, job)
  <2>1. run.version \in Nat
    BY DEF IInv, TypeOK, RunRecords
  <2>2. QED
    BY <2>1, SameStage DEF Points, Reasons
<1>2. PICK c \in {read, AtRest} : coordinator' = [coordinator EXCEPT ![w] = c]
  BY DEF ReadRun, Rests
<1>3. recovery' \in [Stages -> RecoveryRecords] /\ tries' \in [Stages -> Nat]
  BY DEF ReadRun, IInv, TypeOK
<1> HIDE DEF read
<1>4. QED
  BY <1>1, <1>2, <1>3, AtRestBuilds, CoordinatorStays DEF ReadRun

LEMMA TerminalizeKeeps ==
  ASSUME IInv, NEW w \in Workers, TerminalizeWorkflowFailure(w)
  PROVE  IInv'
<1>1. run' \in RunRecords /\ PublishesAccepted
  BY MovedType DEF TerminalizeWorkflowFailure, IInv, TypeOK, RunStatuses,
     PublishesAccepted
<1>2. AcceptedStays /\ StagesOnAccepted
  BY DEF TerminalizeWorkflowFailure, AcceptedStays, StagesOnAccepted
<1>3. /\ job' \in [Rounds -> JobRecords] /\ tries' \in [Stages -> Nat]
      /\ structural' \in {"none", "unpublishable", "publishable"}
      /\ UNCHANGED <<recovery, handler, notices, Processes>>
  BY DEF TerminalizeWorkflowFailure, IInv, TypeOK
<1>4. coordinator' = [coordinator EXCEPT ![w] = AtRest]
  BY DEF TerminalizeWorkflowFailure, Rests
<1>5. AtRest \in CoordinatorRecords /\ BuildsOnAccepted(AtRest, structural', job')
  BY AtRestBuilds
<1>6. QED
  BY <1>1, <1>2, <1>3, <1>4, <1>5, CoordinatorWorks

LEMMA ClearStageRecoveryKeeps ==
  ASSUME IInv, NEW w \in Workers, ClearStageRecovery(w)
  PROVE  IInv'
<1> DEFINE c == [coordinator[w] EXCEPT !.at = "replay", !.stage = Semantic]
<1>1. coordinator[w] \in CoordinatorRecords
  BY DEF IInv, TypeOK
<1>2. c \in CoordinatorRecords
  BY <1>1, Zenon DEF CoordinatorRecords, Points, Stages
<1>3. c.stage = Semantic /\ c.at = "replay"
  BY <1>1 DEF CoordinatorRecords
<1>4. recovery' \in [Stages -> RecoveryRecords] /\ tries' \in [Stages -> Nat]
  BY DEF ClearStageRecovery, IInv, TypeOK, NoRow, RecoveryRecords, Reasons
<1>5. UNCHANGED Outside
  BY DEF ClearStageRecovery
<1>6. CASE coordinator[w].stage = Structural
  <2>1. BuildsOnAccepted(coordinator[w], structural, job)
    BY DEF IInv
  <2>2. structural = "publishable"
    BY <1>6, <2>1 DEF BuildsOnAccepted, ClearStageRecovery, Is
  <2>3. coordinator' = [coordinator EXCEPT ![w] = c]
    BY <1>6 DEF ClearStageRecovery
  <2> HIDE DEF c
  <2>4. BuildsOnAccepted(c, structural, job)
    BY <1>3, <2>2 DEF BuildsOnAccepted, Semantic, Chair, Publication
  <2>5. QED
    BY <1>2, <1>4, <1>5, <2>3, <2>4, CoordinatorStays
<1>7. CASE coordinator[w].stage # Structural
  <2>1. coordinator' = [coordinator EXCEPT ![w] = AtRest]
    BY <1>7 DEF ClearStageRecovery, Rests
  <2>2. QED
    BY <1>4, <1>5, <2>1, AtRestBuilds, CoordinatorStays
<1>8. QED
  BY <1>6, <1>7

-----------------------------------------------------------------------------
(* Time and processes. *)

LEMMA RetryDueKeeps ==
  ASSUME IInv, NEW s \in Stages, RetryDue(s)
  PROVE  IInv'
<1>1. recovery' \in [Stages -> RecoveryRecords]
  <2>1. recovery[s] \in RecoveryRecords
    BY DEF IInv, TypeOK
  <2>2. [recovery[s] EXCEPT !.due = TRUE] \in RecoveryRecords
    BY <2>1, Zenon DEF RecoveryRecords
  <2>3. recovery' = [recovery EXCEPT ![s] = [recovery[s] EXCEPT !.due = TRUE]]
    BY DEF RetryDue
  <2>4. QED
    BY <2>2, <2>3 DEF IInv, TypeOK
<1>2. /\ AcceptedStays /\ StagesOnAccepted /\ PublishesAccepted
      /\ HandlerBuilds
  BY DEF RetryDue, Outside, AcceptedStays, StagesOnAccepted, PublishesAccepted,
     HandlerBuilds
<1>3. CoordinatorsBuild
  BY <1>2, CoordinatorsRest DEF RetryDue
<1>4. TypeOK'
  BY <1>1 DEF RetryDue, Outside, Processes, IInv, TypeOK
<1>5. QED
  BY <1>2, <1>3, <1>4, StepKeeps

LEMMA CrashKeeps ==
  ASSUME IInv, NEW w \in Workers, Crash(w)
  PROVE  IInv'
<1>1. /\ job' \in [Rounds -> JobRecords]
      /\ \A k \in Rounds : job'[k].status = job[k].status
  <2>1. ASSUME NEW k \in Rounds
        PROVE  /\ [job[k] EXCEPT !.worker = NoWorker] \in JobRecords
               /\ [job[k] EXCEPT !.worker = NoWorker].status = job[k].status
    <3>1. job[k] \in JobRecords
      BY DEF IInv, TypeOK
    <3>2. QED
      BY <3>1, Zenon DEF JobRecords
  <2>2. \A k \in Rounds : job[k] \in JobRecords
    BY DEF IInv, TypeOK
  <2>3. QED
    BY <2>1, <2>2 DEF Crash
<1>2. /\ AcceptedStays /\ StagesOnAccepted /\ PublishesAccepted
      /\ HandlerBuilds
  BY <1>1 DEF Crash, AcceptedStays, StagesOnAccepted, PublishesAccepted,
     HandlerBuilds, NoHandler, Rounds
<1>3. coordinator' = [coordinator EXCEPT ![w] = AtRest] /\ coordinator'[w] = AtRest
  BY DEF Crash, Rests, IInv, TypeOK
<1>4. /\ CoordinatorsBuild
      /\ coordinator' \in [Workers -> CoordinatorRecords]
  BY <1>2, <1>3, AtRestBuilds, CoordinatorMoves
<1>5. handler' \in HandlerRecords
  BY DEF Crash, IInv, TypeOK, NoHandler, HandlerRecords
<1>6. down' \subseteq Workers /\ outages' \in 0..MaxOutages
  BY LimitsAreNatural DEF Crash, IInv, TypeOK, Up
<1>7. TypeOK'
  BY <1>1, <1>4, <1>5, <1>6 DEF Crash, IInv, TypeOK
<1>8. QED
  BY <1>2, <1>4, <1>7, StepKeeps

LEMMA RestartKeeps ==
  ASSUME IInv, NEW w \in Workers, Restart(w)
  PROVE  IInv'
<1>1. /\ AcceptedStays /\ StagesOnAccepted /\ PublishesAccepted
      /\ HandlerBuilds
  BY DEF Restart, AcceptedStays, StagesOnAccepted, PublishesAccepted,
     HandlerBuilds
<1>2. CoordinatorsBuild
  BY <1>1, CoordinatorsRest DEF Restart, Coordination
<1>3. TypeOK'
  BY DEF Restart, Coordination, IInv, TypeOK
<1>4. QED
  BY <1>1, <1>2, <1>3, StepKeeps

-----------------------------------------------------------------------------
(* The invariant, and what follows from it. *)

LEMMA CoordinateKeeps ==
  ASSUME IInv, NEW w \in Workers, Coordinate(w)
  PROVE  IInv'
  BY ReplayKeeps, CheckKeeps, AuditStructureKeeps, StageRoundKeeps,
     LoadAuthorityKeeps, PublishReportKeeps, ReadFailuresKeeps,
     ScheduleStageRecoveryKeeps, ReadRunKeeps, TerminalizeKeeps,
     ClearStageRecoveryKeeps
  DEF Coordinate

LEMMA NextKeeps == IInv /\ [Next]_vars => IInv'
<1> SUFFICES ASSUME IInv, [Next]_vars PROVE IInv'
  OBVIOUS
<1>1. CASE Create \/ Activate \/ CancelResearchRun \/ RetryResearchRun
  BY <1>1, CreateKeeps, ActivateKeeps, CancelKeeps, RetryKeeps
<1>2. CASE \E w \in Workers : Begin(w) \/ Coordinate(w) \/ Crash(w) \/ Restart(w)
  BY <1>2, BeginKeeps, CoordinateKeeps, CrashKeeps, RestartKeeps
<1>3. CASE \E w \in Workers, k \in Rounds : Launch(w, k) \/ Handle(w, k)
  BY <1>3, LaunchKeeps, AcceptKeeps, RejectKeeps, FailKeeps DEF Handle
<1>4. CASE \E k \in Rounds : RecoverExpired(k)
  BY <1>4, RecoverExpiredKeeps
<1>5. CASE HandlerStep
  BY <1>5, HandlerKeeps
<1>6. CASE \E s \in Stages : RetryDue(s)
  BY <1>6, RetryDueKeeps
<1>7. CASE UNCHANGED vars
  <2>1. UNCHANGED <<structural, job, handler, notices, Coordination, Processes>>
    BY <1>7 DEF vars, Coordination, Processes
  <2>2. /\ run' \in RunRecords /\ job' \in [Rounds -> JobRecords]
        /\ handler' \in HandlerRecords /\ notices' \subseteq Workers \X Rounds
    BY <1>7 DEF vars, IInv, TypeOK
  <2>3. AcceptedStays /\ StagesOnAccepted /\ PublishesAccepted /\ HandlerBuilds
    BY <1>7 DEF vars, AcceptedStays, StagesOnAccepted, PublishesAccepted,
       HandlerBuilds
  <2>4. QED
    BY <2>1, <2>2, <2>3, JobsOnly
<1>8. QED
  BY <1>1, <1>2, <1>3, <1>4, <1>5, <1>6, <1>7 DEF Next

\* For any workers, limits, crashes and retries: the records keep their shape,
\* and every coordinator, the chair's handler and the published report build on
\* what is accepted.
THEOREM StageInvariance == Spec => []IInv
  BY InitHolds, NextKeeps, PTL DEF Spec

\* However the coordinators of several workers, the chair's handler, crashes and
\* retries of the owner interleave: no stage is started, and no report
\* published, before what it builds on is accepted.
THEOREM StagesInOrderAlways == Spec => []StagesInOrder
<1>1. IInv => StagesInOrder
  BY DEF IInv
<1>2. QED
  BY <1>1, StageInvariance, PTL

-----------------------------------------------------------------------------
(* The promise to the owner.  Every step of the stages is a step of           *)
(* RunContract or changes nothing it speaks of; what is accepted is accepted  *)
(* for a run that executes, because no job executes for another one.          *)

ExecutesForRun ==
  \A k \in Rounds : job[k].status = "running"
                      => run.status \in {"running", "incomplete"}
CInv == IInv /\ ExecutesForRun

Succeeded(k) == job[k].status = "succeeded"
Edges == {<<"absent", "queued">>, <<"queued", "running">>,
          <<"running", "failed">>, <<"running", "incomplete">>,
          <<"queued", "cancelled">>, <<"running", "cancelled">>,
          <<"failed", "queued">>, <<"incomplete", "queued">>}
SameAccepted == \A k \in Rounds : job'[k].status = "succeeded" <=> Succeeded(k)
StatusMoves == \/ run'.status = run.status
               \/ <<run.status, run'.status>> \in Edges
               \/ /\ <<run.status, run'.status>> = <<"running", "completed">>
                  /\ \A k \in Rounds : Succeeded(k)
AcceptsOne ==
  /\ run'.status = run.status /\ run.status \in {"running", "incomplete"}
  /\ \E k \in Rounds :
       /\ ~Succeeded(k) /\ job'[k].status = "succeeded"
       /\ \A i \in Rounds \ {k} : job'[i].status = "succeeded" <=> Succeeded(i)
       /\ k = Chair => Succeeded(Semantic)
Promised == /\ ExecutesForRun'
            /\ \/ SameAccepted /\ StatusMoves
               \/ AcceptsOne

LEMMA PromisedIsContract ==
  ASSUME Promised
  PROVE  Contract!Next
<1> DEFINE status == [r \in {"run"} |-> run.status]
           accepted == [r \in {"run"} |-> {k \in Rounds : Succeeded(k)}]
<1>1. /\ DOMAIN status' = {"run"} /\ DOMAIN accepted' = {"run"}
      /\ status["run"] = run.status /\ status'["run"] = run'.status
      /\ accepted["run"] = {k \in Rounds : Succeeded(k)}
      /\ accepted'["run"] = {k \in Rounds : job'[k].status = "succeeded"}
  BY DEF Succeeded
<1>2. CASE SameAccepted /\ StatusMoves
  <2>1. accepted'["run"] = accepted["run"]
    BY <1>1, <1>2 DEF SameAccepted
  <2>2. (\A k \in Rounds : Succeeded(k)) => accepted["run"] = Rounds
    BY <1>1
  <2> HIDE DEF accepted, status
  <2>3. \/ status'["run"] = status["run"]
        \/ <<status["run"], status'["run"]>> \in Edges
        \/ /\ status["run"] = "running" /\ status'["run"] = "completed"
           /\ accepted["run"] = Rounds
    BY <1>1, <1>2, <2>2 DEF StatusMoves
  <2>4. \A r \in {"run"} :
           \/ Contract!Submit(r) \/ Contract!Start(r) \/ Contract!Stop(r)
           \/ Contract!Cancel(r) \/ Contract!Resume(r) \/ Contract!Publish(r)
           \/ Contract!Idle(r)
    BY <2>1, <2>3 DEF Edges, status, accepted, Succeeded, Contract!Submit,
       Contract!Start, Contract!Stop, Contract!Cancel, Contract!Resume,
       Contract!Publish, Contract!Idle, Contract!Moves, Contract!Keeps
  <2>5. QED
    BY <1>1, <2>4 DEF Contract!Next, status, accepted, Succeeded
<1>3. CASE AcceptsOne
  <2>1. PICK k \in Rounds :
       /\ ~Succeeded(k) /\ job'[k].status = "succeeded"
       /\ \A i \in Rounds \ {k} : job'[i].status = "succeeded" <=> Succeeded(i)
       /\ k = Chair => Succeeded(Semantic)
    BY <1>3 DEF AcceptsOne
  <2>2. /\ k \in Rounds \ accepted["run"]
        /\ accepted'["run"] = accepted["run"] \cup {k}
        /\ k = Chair => accepted["run"] = Rounds \ {Chair}
    BY <1>1, <2>1 DEF Rounds, Semantic, Chair
  <2>3. Contract!Accept("run")
    BY <1>1, <1>3, <2>2 DEF AcceptsOne, Contract!Accept, Succeeded
  <2>4. QED
    BY <1>1, <2>3 DEF Contract!Next, Succeeded
<1>4. QED
  BY <1>2, <1>3 DEF Promised

\* Steps that write neither jobs nor the run.
LEMMA RunAndJobsStay ==
  ASSUME CInv, UNCHANGED <<run, job>>
  PROVE  Promised
  BY DEF CInv, Promised, ExecutesForRun, SameAccepted, StatusMoves, Succeeded

\* Steps that write the run alone.
LEMMA RunIsMoved ==
  ASSUME CInv, UNCHANGED job, StatusMoves,
         (\E k \in Rounds : job[k].status = "running")
            => run'.status \in {"running", "incomplete"}
  PROVE  Promised
  BY DEF CInv, Promised, ExecutesForRun, SameAccepted, Succeeded

\* Steps that accept nothing.
LEMMA NothingAccepted ==
  ASSUME CInv, StatusMoves, SameAccepted,
         \A k \in Rounds : job'[k].status = "running" =>
            run'.status \in {"running", "incomplete"}
  PROVE  Promised
  BY DEF Promised, ExecutesForRun

LEMMA CreatePromised == ASSUME CInv, Create PROVE Promised
<1>1. run \in RunRecords
  BY DEF CInv, IInv, TypeOK
<1>2. run'.status = "queued"
  BY <1>1 DEF Create, RunRecords
<1>3. QED
  BY <1>2, RunIsMoved DEF CInv, ExecutesForRun, Create, StatusMoves, Edges

LEMMA ActivatePromised == ASSUME CInv, Activate PROVE Promised
  BY RunIsMoved DEF Activate, Moved, StatusMoves, Edges, JobsExhausted, Pending

LEMMA PendingPromised ==
  ASSUME CInv, NEW status \in {"failed", "cancelled"},
         NEW to \in {"incomplete", "cancelled"}, run' = Moved(to),
         <<run.status, to>> \in Edges,
         job' = [k \in Rounds |-> IF job[k].status \in Pending
                                  THEN Unleased(job[k], status) ELSE job[k]]
  PROVE  Promised
<1>1. \A k \in Rounds : job[k] \in JobRecords
  BY DEF CInv, IInv, TypeOK
<1>2. \A k \in Rounds : Unleased(job[k], status).status = status
  BY <1>1, UnleasedType DEF JobStatuses
<1>3. \A k \in Rounds :
        job'[k].status = IF job[k].status \in Pending
                         THEN status ELSE job[k].status
  BY <1>2
<1>4. run'.status = to
  BY DEF Moved
<1>5. QED
  BY <1>3, <1>4, NothingAccepted
     DEF Pending, StatusMoves, SameAccepted, Succeeded

LEMMA CancelPromised == ASSUME CInv, CancelResearchRun PROVE Promised
  BY PendingPromised DEF CancelResearchRun, Edges

LEMMA RetryPromised == ASSUME CInv, RetryResearchRun PROVE Promised
<1>1. run'.status = "queued"
  BY DEF RetryResearchRun, Moved
<1>2. ASSUME NEW k \in Rounds
      PROVE  /\ job'[k].status # "running"
             /\ job'[k].status = "succeeded" <=> job[k].status = "succeeded"
  <2> DEFINE waiting == IF job[k].status \in {"running", "failed"}
                        THEN Unleased(job[k], "retry-wait") ELSE job[k]
  <2>1. job[k] \in JobRecords
    BY DEF CInv, IInv, TypeOK
  <2>2. /\ Unleased(job[k], "retry-wait") \in JobRecords
        /\ Unleased(job[k], "retry-wait").status = "retry-wait"
    BY <2>1, UnleasedType DEF JobStatuses
  <2>3. waiting \in JobRecords /\ waiting.status # "running"
        /\ (waiting.status = "succeeded" <=> job[k].status = "succeeded")
    BY <2>1, <2>2
  <2>4. job'[k] = IF waiting.status = "retry-wait" /\ waiting.class # "none"
                  THEN [waiting EXCEPT !.class = "transient"] ELSE waiting
    BY DEF RetryResearchRun
  <2> HIDE DEF waiting
  <2>5. [waiting EXCEPT !.class = "transient"].status = waiting.status
    BY <2>3, Zenon DEF JobRecords
  <2>6. QED
    BY <2>3, <2>4, <2>5
<1>3. QED
  BY <1>1, <1>2, NothingAccepted
     DEF RetryResearchRun, StatusMoves, Edges, SameAccepted, Succeeded

\* One job changes and is not accepted.
LEMMA OneJobPromised ==
  ASSUME CInv, NEW k \in Rounds, job[k].status # "succeeded", StatusMoves,
         \A i \in Rounds : i # k => job'[i] = job[i],
         job'[k].status # "succeeded",
         \A i \in Rounds : job'[i].status = "running" =>
            run'.status \in {"running", "incomplete"}
  PROVE  Promised
  BY NothingAccepted DEF SameAccepted, Succeeded

LEMMA LaunchPromised ==
  ASSUME CInv, NEW w \in Workers, NEW k \in Rounds, Launch(w, k)
  PROVE  Promised
<1>1. CASE OverBudget(k)
  BY <1>1, PendingPromised DEF Launch, Edges
<1>2. CASE ~OverBudget(k)
  <2>1. job \in [Rounds -> JobRecords] /\ job[k] \in JobRecords
    BY DEF CInv, IInv, TypeOK
  <2>2. job'[k].status = "running"
    BY <1>2, <2>1 DEF Launch, JobRecords
  <2>3. \A i \in Rounds : i # k => job'[i] = job[i]
    BY <1>2, <2>1 DEF Launch
  <2>4. QED
    BY <1>2, <2>2, <2>3, OneJobPromised DEF Launch, StatusMoves
<1>3. QED
  BY <1>1, <1>2

LEMMA AcceptPromised ==
  ASSUME CInv, NEW w \in Workers, NEW k \in Rounds, Accept(w, k)
  PROVE  Promised
<1>1. job \in [Rounds -> JobRecords] /\ job[k] \in JobRecords
  BY DEF CInv, IInv, TypeOK
<1>2. Unleased(job[k], "succeeded").status = "succeeded"
  BY <1>1, UnleasedType DEF JobStatuses
<1>3. /\ job'[k].status = "succeeded"
      /\ \A i \in Rounds : i # k => job'[i] = job[i]
  BY <1>1, <1>2 DEF Accept
<1>4. job[k].status = "running" /\ run' = run
  BY DEF Accept, Executes
<1>5. run.status \in {"running", "incomplete"}
  BY <1>4 DEF CInv, ExecutesForRun
<1>6. k = Chair => Succeeded(Semantic)
  BY <1>4 DEF CInv, IInv, StagesInOrder, Succeeded
<1>7. AcceptsOne
  BY <1>3, <1>4, <1>5, <1>6 DEF AcceptsOne, Succeeded
<1>8. ExecutesForRun'
  BY <1>4, <1>5 DEF ExecutesForRun
<1>9. QED
  BY <1>7, <1>8 DEF Promised

LEMMA RejectPromised ==
  ASSUME CInv, NEW w \in Workers, NEW k \in Rounds, Reject(w, k)
  PROVE  Promised
<1>1. job \in [Rounds -> JobRecords] /\ job[k] \in JobRecords
  BY DEF CInv, IInv, TypeOK
<1>2. job[k].status = "running" /\ run' = run
  BY DEF Reject, Executes
<1>3. Unleased(job[k], "failed").status = "failed"
  BY <1>1, UnleasedType DEF JobStatuses
<1>4. /\ job'[k].status \in {"failed", "running"}
      /\ \A i \in Rounds : i # k => job'[i] = job[i]
  BY <1>1, <1>2, <1>3 DEF Reject, JobRecords
<1>5. QED
  BY <1>2, <1>4, OneJobPromised DEF CInv, ExecutesForRun, StatusMoves

LEMMA FailPromised ==
  ASSUME CInv, NEW w \in Workers, NEW k \in Rounds, Fail(w, k)
  PROVE  Promised
<1>1. job \in [Rounds -> JobRecords] /\ job[k] \in JobRecords
  BY DEF CInv, IInv, TypeOK
<1>2. job[k].status = "running" /\ run.status \in {"running", "incomplete"}
  BY DEF CInv, ExecutesForRun, Fail, Executes
<1>3. /\ Unleased(job[k], "failed").status = "failed"
      /\ \A class \in {"transient", "repair"} :
           [Unleased(job[k], "retry-wait") EXCEPT !.class = class].status
             = "retry-wait"
  <2>1. /\ Unleased(job[k], "retry-wait") \in JobRecords
        /\ Unleased(job[k], "retry-wait").status = "retry-wait"
        /\ Unleased(job[k], "failed").status = "failed"
    BY <1>1, UnleasedType DEF JobStatuses
  <2>2. QED
    BY <2>1, Zenon DEF JobRecords
<1>4. /\ job'[k].status \in {"failed", "retry-wait"}
      /\ \A i \in Rounds : i # k => job'[i] = job[i]
  BY <1>1, <1>3 DEF Fail
<1>5. /\ StatusMoves
      /\ run'.status \in {"running", "incomplete"}
           \/ \A i \in Rounds : job'[i].status # "running"
  BY <1>2 DEF Fail, StatusMoves, Moved, Edges, JobsExhausted, Pending
<1>6. QED
  BY <1>2, <1>4, <1>5, OneJobPromised

LEMMA RecoverExpiredPromised ==
  ASSUME CInv, NEW k \in Rounds, RecoverExpired(k)
  PROVE  Promised
<1>1. job \in [Rounds -> JobRecords] /\ job[k] \in JobRecords
  BY DEF CInv, IInv, TypeOK
<1>2. /\ Unleased(job[k], "retry-wait") \in JobRecords
      /\ Unleased(job[k], "retry-wait").status = "retry-wait"
  BY <1>1, UnleasedType DEF JobStatuses
<1>3. [Unleased(job[k], "retry-wait") EXCEPT !.class = "transient"].status
        = "retry-wait"
  BY <1>2, Zenon DEF JobRecords
<1>4. /\ job'[k].status = "retry-wait" /\ job[k].status = "running"
      /\ \A i \in Rounds : i # k => job'[i] = job[i]
  BY <1>1, <1>3 DEF RecoverExpired
<1>5. run' = run
  BY DEF RecoverExpired
<1>6. QED
  BY <1>4, <1>5, OneJobPromised DEF CInv, ExecutesForRun, StatusMoves

\* The report: both rounds are accepted, so no job executes any more.
LEMMA CompletionPromised ==
  ASSUME CInv, run.status = "running", run' = Moved("completed"),
         UNCHANGED job, job[Chair].status = "succeeded"
  PROVE  Promised
<1>1. \A k \in Rounds : Succeeded(k)
  BY DEF CInv, IInv, StagesInOrder, Succeeded, Rounds
<1>2. QED
  BY <1>1, RunIsMoved DEF Moved, StatusMoves, Succeeded

LEMMA HandlerPromised ==
  ASSUME CInv, HandlerStep
  PROVE  Promised
<1>1. CASE UNCHANGED <<run, job>>
  BY <1>1, RunAndJobsStay
<1>2. CASE /\ handler.at = "publish" /\ Publishable(handler.seen)
           /\ run' = Moved("completed") /\ UNCHANGED job
  BY <1>2, CompletionPromised
     DEF CInv, IInv, HandlerBuildsOnAccepted, Publishable
<1>3. QED
  BY <1>1, <1>2 DEF HandlerStep, HandlerLoads, HandlerPublishes

LEMMA StageRoundPromised ==
  ASSUME CInv, NEW w \in Workers, StageRound(w)
  PROVE  Promised
<1> DEFINE s == coordinator[w].stage
<1>1. CASE UNCHANGED job
  BY <1>1, RunAndJobsStay DEF StageRound
<1>2. CASE job[s].status = "absent" /\ job' = [job EXCEPT ![s].status = "queued"]
  <2>1. job \in [Rounds -> JobRecords] /\ s \in Rounds /\ job[s] \in JobRecords
    BY DEF CInv, IInv, TypeOK, StageRound
  <2> HIDE DEF s
  <2>2. job'[s].status = "queued" /\ \A i \in Rounds : i # s => job'[i] = job[i]
    BY <1>2, <2>1 DEF JobRecords
  <2>3. run' = run
    BY DEF StageRound
  <2>4. QED
    BY <1>2, <2>1, <2>2, <2>3, OneJobPromised
       DEF CInv, ExecutesForRun, StatusMoves
<1>3. QED
  BY <1>1, <1>2 DEF StageRound

LEMMA PublishReportPromised ==
  ASSUME CInv, NEW w \in Workers, PublishReport(w)
  PROVE  Promised
<1>1. CASE UNCHANGED run
  BY <1>1, RunAndJobsStay DEF PublishReport
<1>2. CASE Publishable(coordinator[w].seen) /\ run' = Moved("completed")
  <2>1. job[Chair].status = "succeeded"
    BY DEF CInv, IInv, BuildsOnAccepted, PublishReport, Is
  <2>2. QED
    BY <1>2, <2>1, CompletionPromised DEF Publishable, PublishReport
<1>3. QED
  BY <1>1, <1>2 DEF PublishReport

LEMMA TerminalizePromised ==
  ASSUME CInv, NEW w \in Workers, TerminalizeWorkflowFailure(w)
  PROVE  Promised
<1>1. CASE UNCHANGED run
  BY <1>1, RunAndJobsStay DEF TerminalizeWorkflowFailure
<1>2. CASE run.status = "running" /\ run' = Moved("incomplete")
  BY <1>2, RunIsMoved DEF TerminalizeWorkflowFailure, Moved, StatusMoves, Edges
<1>3. QED
  BY <1>1, <1>2 DEF TerminalizeWorkflowFailure

LEMMA CoordinatePromised ==
  ASSUME CInv, NEW w \in Workers, Coordinate(w)
  PROVE  Promised
<1>1. CASE Replay(w) \/ Check(w) \/ LoadAuthority(w) \/ ReadFailures(w)
           \/ ScheduleStageRecovery(w) \/ ReadRun(w) \/ ClearStageRecovery(w)
  BY <1>1, RunAndJobsStay DEF Replay, Check, LoadAuthority, ReadFailures,
     ScheduleStageRecovery, ReadRun, ClearStageRecovery, Outside
<1>2. CASE AuditStructure(w)
  BY <1>2, RunAndJobsStay DEF AuditStructure
<1>3. QED
  BY <1>1, <1>2, StageRoundPromised, PublishReportPromised,
     TerminalizePromised DEF Coordinate

LEMMA CrashPromised ==
  ASSUME CInv, NEW w \in Workers, Crash(w)
  PROVE  Promised
<1>1. ASSUME NEW k \in Rounds PROVE job'[k].status = job[k].status
  <2>1. job[k] \in JobRecords
    BY DEF CInv, IInv, TypeOK
  <2>2. [job[k] EXCEPT !.worker = NoWorker].status = job[k].status
    BY <2>1, Zenon DEF JobRecords
  <2>3. QED
    BY <2>2 DEF Crash
<1>2. QED
  BY <1>1, NothingAccepted DEF Crash, CInv, ExecutesForRun, SameAccepted,
     StatusMoves, Succeeded

LEMMA NextPromised == CInv /\ [Next]_vars => Promised
<1> SUFFICES ASSUME CInv, [Next]_vars PROVE Promised
  OBVIOUS
<1>1. CASE Create \/ Activate \/ CancelResearchRun \/ RetryResearchRun
  BY <1>1, CreatePromised, ActivatePromised, CancelPromised, RetryPromised
<1>2. CASE \E w \in Workers : Begin(w) \/ Coordinate(w) \/ Crash(w) \/ Restart(w)
  BY <1>2, RunAndJobsStay, CoordinatePromised, CrashPromised DEF Begin, Restart
<1>3. CASE \E w \in Workers, k \in Rounds : Launch(w, k) \/ Handle(w, k)
  BY <1>3, LaunchPromised, AcceptPromised, RejectPromised, FailPromised
     DEF Handle
<1>4. CASE \E k \in Rounds : RecoverExpired(k)
  BY <1>4, RecoverExpiredPromised
<1>5. CASE HandlerStep
  BY <1>5, HandlerPromised
<1>6. CASE \E s \in Stages : RetryDue(s)
  BY <1>6, RunAndJobsStay DEF RetryDue, Outside
<1>7. CASE UNCHANGED vars
  BY <1>7, RunAndJobsStay DEF vars
<1>8. QED
  BY <1>1, <1>2, <1>3, <1>4, <1>5, <1>6, <1>7 DEF Next

\* For any workers, limits, crashes and retries, the stages implement the run's
\* contract: one report at most, from both rounds, none after a cancellation,
\* and what was accepted is never lost.
THEOREM StagesKeepTheContract == Spec => KeepsContract
<1>1. Init => Contract!Init
  BY DEF Init, Contract!Init
<1>2. Init => ExecutesForRun
  BY DEF Init, ExecutesForRun
<1>3. CInv /\ [Next]_vars => ExecutesForRun' /\ Contract!Next
  BY NextPromised, PromisedIsContract DEF Promised
<1>4. QED
  BY <1>1, <1>2, <1>3, StageInvariance, PTL
     DEF Spec, KeepsContract, Contract!Spec, CInv

-----------------------------------------------------------------------------
(* What an account sees of the run. *)

View == INSTANCE RunView
Seen == View!SeenAs(run.status)
AccountSeesItsMoves ==
  /\ Seen = "none"
  /\ [][\/ Seen' = Seen
        \/ Seen = "none" /\ Seen' = "active"
        \/ View!MayMove(Seen, Seen')]_vars

\* Coordinators, handler and commands as well make no move of a run but those
\* that AccountCredits allows for.
THEOREM StagesMoveAsSeen == Spec => AccountSeesItsMoves
<1> DEFINE Moves == \/ Seen' = Seen
                    \/ Seen = "none" /\ Seen' = "active"
                    \/ View!MayMove(Seen, Seen')
<1>1. Init => Seen = "none" /\ ExecutesForRun
  BY DEF Init, ExecutesForRun, Seen, View!SeenAs
<1>2. ASSUME Promised PROVE Moves
  <2>1. \/ run'.status = run.status \/ <<run.status, run'.status>> \in Edges
        \/ <<run.status, run'.status>> = <<"running", "completed">>
    BY <1>2 DEF Promised, StatusMoves, AcceptsOne
  <2>2. \A from, to :
          from = to \/ <<from, to>> \in Edges \/ <<from, to>> = <<"running", "completed">>
          => \/ View!SeenAs(to) = View!SeenAs(from)
             \/ View!SeenAs(from) = "none" /\ View!SeenAs(to) = "active"
             \/ View!MayMove(View!SeenAs(from), View!SeenAs(to))
    BY DEF Edges, View!SeenAs, View!MayMove, View!Ended
  <2> QED BY <2>1, <2>2 DEF Seen
<1>3. CInv /\ [Next]_vars => ExecutesForRun' /\ Moves
  BY <1>2, NextPromised DEF Promised
<1> HIDE DEF Moves
<1>4. Spec => [][Moves]_vars
  BY <1>1, <1>3, StageInvariance, PTL DEF Spec, CInv
<1> QED BY <1>1, <1>4, PTL DEF Spec, AccountSeesItsMoves, Moves

-----------------------------------------------------------------------------
(* The bound on the tries of a stage, for one worker.  A failed try is either *)
(* in the recovery table, or still to be recorded by the coordinator, or was  *)
(* lost with a process; and a try begins only below the limit.                *)

Unrecorded(w, s) ==
  IF coordinator[w].stage = s /\ coordinator[w].at \in {"failed", "counted"}
  THEN 1 ELSE 0
Trying == {"work", "publish", "failed", "counted"}

TableIsBounded ==
  \A s \in Stages : /\ recovery[s].count <= MaxStageFailures
                    /\ recovery[s].exhausted <=>
                         recovery[s].count >= MaxStageFailures
TriesAreCounted(w) ==
  \A s \in Stages : tries[s] <= recovery[s].count + Unrecorded(w, s) + outages
TriesBelowTheLimit(w) ==
  /\ coordinator[w].at \in Trying =>
       recovery[coordinator[w].stage].count < MaxStageFailures
  /\ coordinator[w].at = "counted" =>
       /\ coordinator[w].seen < MaxStageFailures
       /\ recovery[coordinator[w].stage].count <= coordinator[w].seen
TInv(w) == TableIsBounded /\ TriesAreCounted(w) /\ TriesBelowTheLimit(w)

LEMMA Numbers ==
  ASSUME IInv, NEW w \in Workers
  PROVE  /\ MaxStageFailures \in Nat \ {0} /\ outages \in Nat
         /\ coordinator[w].stage \in Stages /\ coordinator[w].seen \in Nat
         /\ \A s \in Stages : /\ recovery[s].count \in Nat
                              /\ recovery[s].exhausted \in BOOLEAN
                              /\ tries[s] \in Nat
  BY LimitsAreNatural DEF IInv, TypeOK, CoordinatorRecords, RecoveryRecords

\* What a coordinator's move does to its record.
LEMMA GoesFacts ==
  ASSUME IInv, NEW w \in Workers, NEW at \in Points, Goes(w, at)
  PROVE  /\ coordinator'[w].at = at
         /\ coordinator'[w].stage = coordinator[w].stage
         /\ coordinator'[w].seen = coordinator[w].seen
  BY DEF IInv, TypeOK, CoordinatorRecords, Goes

LEMMA StopsFacts ==
  ASSUME IInv, NEW w \in Workers, NEW why \in Reasons, Stops(w, why)
  PROVE  coordinator'[w].at = "closing"
<1>1. /\ coordinator \in [Workers -> CoordinatorRecords]
      /\ coordinator[w] \in CoordinatorRecords
  BY DEF IInv, TypeOK
<1>2. coordinator'[w] = [coordinator[w] EXCEPT !.at = "closing", !.why = why]
  BY <1>1 DEF Stops
<1>3. QED
  BY <1>1, <1>2, Zenon DEF CoordinatorRecords

LEMMA RestsFacts ==
  ASSUME IInv, NEW w \in Workers, Rests(w)
  PROVE  coordinator'[w].at = "idle"
  BY DEF IInv, TypeOK, Rests, AtRest

\* A move of the coordinator between tries, with the table left alone.
LEMMA BetweenTries ==
  ASSUME IInv, NEW w \in Workers, TInv(w),
         coordinator[w].at \notin {"failed", "counted"},
         coordinator'[w].at \notin Trying, UNCHANGED <<recovery, tries, outages>>
  PROVE  TInv(w)'
<1>1. TableIsBounded' /\ TriesBelowTheLimit(w)'
  BY DEF TInv, TableIsBounded, TriesBelowTheLimit, Trying
<1>2. TriesAreCounted(w)'
  BY DEF TInv, TriesAreCounted, Unrecorded, Trying
<1>3. QED
  BY <1>1, <1>2 DEF TInv

\* The table may only lose rows, while the coordinator is where it was.
LEMMA OthersStep ==
  ASSUME IInv, NEW w \in Workers, TInv(w), UNCHANGED <<coordinator, outages>>,
         \A s \in Stages :
           \/ recovery'[s].count = recovery[s].count
                /\ recovery'[s].exhausted = recovery[s].exhausted
                /\ tries'[s] = tries[s]
           \/ recovery'[s] = NoRow /\ tries'[s] = 0
  PROVE  TInv(w)'
<1>1. NoRow.count = 0 /\ NoRow.exhausted = FALSE
  BY DEF NoRow
<1>2. TableIsBounded'
  BY <1>1, Numbers DEF TInv, TableIsBounded
<1>3. TriesAreCounted(w)'
  BY <1>1, Numbers DEF TInv, TriesAreCounted, Unrecorded
<1>4. TriesBelowTheLimit(w)'
  BY <1>1, Numbers DEF TInv, TriesBelowTheLimit, Trying
<1>5. QED
  BY <1>2, <1>3, <1>4 DEF TInv

LEMMA BlockedCounts ==
  ASSUME IInv, NEW w \in Workers, TInv(w), Blocked(w),
         coordinator[w].at \in {"work", "publish"},
         UNCHANGED <<recovery, outages>>
  PROVE  TInv(w)'
<1>1. CASE Fails(w)
  <2> DEFINE s == coordinator[w].stage
  <2>1. /\ coordinator'[w].at = "failed" /\ coordinator'[w].stage = s
    BY <1>1, GoesFacts DEF Fails, Points
  <2>2. /\ tries'[s] = tries[s] + 1
        /\ \A t \in Stages : t # s => tries'[t] = tries[t]
    BY <1>1, Numbers DEF Fails, IInv, TypeOK
  <2>3. TableIsBounded' /\ TriesBelowTheLimit(w)'
    BY <2>1 DEF TInv, TableIsBounded, TriesBelowTheLimit, Trying
  <2>4. TriesAreCounted(w)'
    BY <2>1, <2>2, Numbers DEF TInv, TriesAreCounted, Unrecorded
  <2>5. QED
    BY <2>3, <2>4 DEF TInv
<1>2. CASE Stops(w, "not_recoverable") /\ UNCHANGED tries
  BY <1>2, StopsFacts, BetweenTries DEF Reasons, Trying
<1>3. QED
  BY <1>1, <1>2 DEF Blocked

\* A stage that succeeded goes on to clear its failures.
LEMMA ClearsNext ==
  ASSUME IInv, NEW w \in Workers, TInv(w), Goes(w, "clear"),
         coordinator[w].at \in {"work", "publish"},
         UNCHANGED <<recovery, tries, outages>>
  PROVE  TInv(w)'
  BY GoesFacts, BetweenTries DEF Points, Trying

LEMMA CheckCounts ==
  ASSUME IInv, NEW w \in Workers, TInv(w), Check(w)
  PROVE  TInv(w)'
<1>1. coordinator[w].at = "check" /\ UNCHANGED <<recovery, tries, outages>>
  BY DEF Check, Is, Outside, Processes
<1>2. CASE Ready(coordinator[w].stage)
  <2>1. /\ coordinator'[w].at = "work"
        /\ coordinator'[w].stage = coordinator[w].stage
    BY <1>2, GoesFacts DEF Check, Points
  <2>2. recovery[coordinator[w].stage].count < MaxStageFailures
    BY <1>2, Numbers DEF Ready, TInv, TableIsBounded
  <2>3. TableIsBounded' /\ TriesBelowTheLimit(w)'
    BY <1>1, <2>1, <2>2 DEF TInv, TableIsBounded, TriesBelowTheLimit
  <2>4. TriesAreCounted(w)'
    BY <1>1, <2>1 DEF TInv, TriesAreCounted, Unrecorded
  <2>5. QED
    BY <2>3, <2>4 DEF TInv
<1>3. CASE ~Ready(coordinator[w].stage)
  BY <1>1, <1>3, RestsFacts, BetweenTries DEF Check, Trying
<1>4. QED
  BY <1>2, <1>3

LEMMA LoadCounts ==
  ASSUME IInv, NEW w \in Workers, TInv(w), LoadAuthority(w)
  PROVE  TInv(w)'
<1>1. coordinator[w].at = "work" /\ UNCHANGED <<recovery, tries, outages>>
  BY DEF LoadAuthority, Is, Outside, Processes
<1>2. CASE run.status = "running"
  <2>1. /\ coordinator'[w].at = "publish"
        /\ coordinator'[w].stage = coordinator[w].stage
    <3>1. /\ coordinator \in [Workers -> CoordinatorRecords]
          /\ coordinator[w] \in CoordinatorRecords
      BY DEF IInv, TypeOK
    <3>2. coordinator'[w] = [coordinator[w] EXCEPT !.at = "publish",
                                                   !.seen = run.version]
      BY <1>2, <3>1 DEF LoadAuthority
    <3>3. QED
      BY <3>1, <3>2, Zenon DEF CoordinatorRecords
  <2>2. TableIsBounded' /\ TriesBelowTheLimit(w)'
    BY <1>1, <2>1 DEF TInv, TableIsBounded, TriesBelowTheLimit, Trying
  <2>3. TriesAreCounted(w)'
    BY <1>1, <2>1 DEF TInv, TriesAreCounted, Unrecorded
  <2>4. QED
    BY <2>2, <2>3 DEF TInv
<1>3. CASE run.status # "running"
  BY <1>1, <1>3, StopsFacts, BetweenTries DEF LoadAuthority, Reasons, Trying
<1>4. QED
  BY <1>2, <1>3

LEMMA ReadFailuresCounts ==
  ASSUME IInv, NEW w \in Workers, TInv(w), ReadFailures(w)
  PROVE  TInv(w)'
<1> DEFINE s == coordinator[w].stage
<1>1. coordinator[w].at = "failed" /\ UNCHANGED <<recovery, tries, outages>>
  BY DEF ReadFailures, Is, Outside, Processes
<1>2. /\ coordinator'[w].at = "counted" /\ coordinator'[w].stage = s
      /\ coordinator'[w].seen = recovery[s].count
  BY DEF ReadFailures, IInv, TypeOK, CoordinatorRecords
<1>3. TableIsBounded' /\ TriesBelowTheLimit(w)'
  BY <1>1, <1>2, Numbers DEF TInv, TableIsBounded, TriesBelowTheLimit, Trying
<1>4. TriesAreCounted(w)'
  BY <1>1, <1>2 DEF TInv, TriesAreCounted, Unrecorded
<1>5. QED
  BY <1>3, <1>4 DEF TInv

LEMMA ScheduleCounts ==
  ASSUME IInv, NEW w \in Workers, TInv(w), ScheduleStageRecovery(w)
  PROVE  TInv(w)'
<1> DEFINE s == coordinator[w].stage
           count == coordinator[w].seen + 1
           row == [count |-> count, due |-> FALSE,
                   exhausted |-> ExhaustedAt(count)]
<1>1. coordinator[w].at = "counted" /\ UNCHANGED <<tries, outages>>
  BY DEF ScheduleStageRecovery, Is, Outside, Processes
<1>2. recovery'[s] = row /\ \A t \in Stages : t # s => recovery'[t] = recovery[t]
  BY Numbers DEF ScheduleStageRecovery, IInv, TypeOK
<1>3. row.count = count /\ (row.exhausted <=> count >= MaxStageFailures)
  BY DEF ExhaustedAt
<1>4. count \in Nat /\ count <= MaxStageFailures /\ recovery[s].count + 1 <= count
  BY <1>1, Numbers DEF TInv, TriesBelowTheLimit
<1>5. coordinator'[w].at \in {"closing", "idle"}
  BY StopsFacts, RestsFacts DEF ScheduleStageRecovery, AfterRecord, Reasons
<1> HIDE DEF row, count
<1>6. TableIsBounded'
  BY <1>2, <1>3, <1>4 DEF TInv, TableIsBounded
<1>7. TriesBelowTheLimit(w)'
  BY <1>5 DEF TriesBelowTheLimit, Trying
<1>8. TriesAreCounted(w)'
  BY <1>1, <1>2, <1>3, <1>4, <1>5, Numbers DEF TInv, TriesAreCounted, Unrecorded
<1>9. QED
  BY <1>6, <1>7, <1>8 DEF TInv

LEMMA ClearCounts ==
  ASSUME IInv, NEW w \in Workers, TInv(w), ClearStageRecovery(w)
  PROVE  TInv(w)'
<1> DEFINE s == coordinator[w].stage
<1>1. coordinator[w].at = "clear" /\ outages' = outages
  BY DEF ClearStageRecovery, Is, Outside, Processes
<1>2. /\ recovery'[s] = NoRow
      /\ \A t \in Stages : t # s => recovery'[t] = recovery[t]
      /\ tries'[s] = 0 /\ \A t \in Stages : t # s => tries'[t] = tries[t]
  BY Numbers DEF ClearStageRecovery, IInv, TypeOK
<1>3. NoRow.count = 0 /\ NoRow.exhausted = FALSE
  BY DEF NoRow
<1>4. coordinator'[w].at \in {"replay", "idle"}
  BY RestsFacts DEF ClearStageRecovery, IInv, TypeOK, CoordinatorRecords
<1>5. TableIsBounded'
  BY <1>2, <1>3, Numbers DEF TInv, TableIsBounded
<1>6. TriesBelowTheLimit(w)'
  BY <1>4 DEF TriesBelowTheLimit, Trying
<1>7. TriesAreCounted(w)'
  BY <1>1, <1>2, <1>3, <1>4, Numbers DEF TInv, TriesAreCounted, Unrecorded
<1>8. QED
  BY <1>5, <1>6, <1>7 DEF TInv

LEMMA CrashCounts ==
  ASSUME IInv, NEW w \in Workers, TInv(w), Crash(w)
  PROVE  TInv(w)'
<1>1. outages' = outages + 1 /\ UNCHANGED <<recovery, tries>>
  BY DEF Crash
<1>2. coordinator'[w].at = "idle"
  BY RestsFacts DEF Crash
<1>3. TableIsBounded' /\ TriesBelowTheLimit(w)'
  BY <1>1, <1>2 DEF TInv, TableIsBounded, TriesBelowTheLimit, Trying
<1>4. TriesAreCounted(w)'
  BY <1>1, <1>2, Numbers DEF TInv, TriesAreCounted, Unrecorded
<1>5. QED
  BY <1>3, <1>4 DEF TInv

LEMMA CoordinateCounts ==
  ASSUME IInv, NEW w \in Workers, TInv(w), Coordinate(w)
  PROVE  TInv(w)'
<1>1. CASE Replay(w)
  <2>1. coordinator[w].at = "replay" /\ UNCHANGED <<recovery, tries, outages>>
    BY <1>1 DEF Replay, Is, Outside, Processes
  <2>2. coordinator'[w].at \notin Trying
    <3>1. CASE Rests(w)
      BY <3>1, RestsFacts DEF Trying
    <3>2. CASE Stops(w, "replacement_exhausted")
      BY <3>2, StopsFacts DEF Trying, Reasons
    <3>3. CASE Goes(w, "check")
      BY <3>3, GoesFacts DEF Trying, Points
    <3>4. CASE \E s : coordinator' = [coordinator EXCEPT ![w].stage = NextStage(s),
                        ![w].at = IF s = Chair THEN "check" ELSE "replay"]
      <4>1. PICK s : coordinator' = [coordinator EXCEPT ![w].stage = NextStage(s),
                        ![w].at = IF s = Chair THEN "check" ELSE "replay"]
        BY <3>4
      <4>2. coordinator'[w].at \in {"check", "replay"}
        BY <4>1 DEF IInv, TypeOK, CoordinatorRecords
      <4>3. QED
        BY <4>2 DEF Trying
    <3>5. QED
      BY <1>1, <3>1, <3>2, <3>3, <3>4 DEF Replay
  <2>3. QED
    BY <2>1, <2>2, BetweenTries
<1>2. CASE AuditStructure(w) \/ StageRound(w) \/ PublishReport(w)
  <2>1. /\ coordinator[w].at \in {"work", "publish"}
        /\ UNCHANGED <<recovery, outages>>
    BY <1>2 DEF AuditStructure, StageRound, PublishReport, Is, Processes
  <2>2. (Goes(w, "clear") /\ UNCHANGED tries) \/ Blocked(w)
    BY <1>2 DEF AuditStructure, StageRound, PublishReport, Blocked
  <2>3. QED
    BY <2>1, <2>2, ClearsNext, BlockedCounts
<1>3. CASE ReadRun(w)
  <2>1. coordinator[w].at = "closing" /\ UNCHANGED <<recovery, tries, outages>>
    BY <1>3 DEF ReadRun, Is, Outside, Processes
  <2>2. coordinator'[w].at \in {"transition", "idle"}
    <3>1. /\ coordinator \in [Workers -> CoordinatorRecords]
          /\ coordinator[w] \in CoordinatorRecords
      BY DEF IInv, TypeOK
    <3>2. [coordinator[w] EXCEPT !.at = "transition", !.seen = run.version].at
            = "transition"
      BY <3>1, Zenon DEF CoordinatorRecords
    <3>3. QED
      BY <1>3, <3>1, <3>2, RestsFacts DEF ReadRun
  <2>3. QED
    BY <2>1, <2>2, BetweenTries DEF Trying
<1>4. CASE TerminalizeWorkflowFailure(w)
  <2>1. coordinator[w].at = "transition" /\ UNCHANGED <<recovery, tries, outages>>
    BY <1>4 DEF TerminalizeWorkflowFailure, Is, Processes
  <2>2. QED
    BY <1>4, <2>1, RestsFacts, BetweenTries
       DEF TerminalizeWorkflowFailure, Trying
<1>5. QED
  BY <1>1, <1>2, <1>3, <1>4, CheckCounts, LoadCounts, ReadFailuresCounts,
     ScheduleCounts, ClearCounts DEF Coordinate

LEMMA NextCounts ==
  ASSUME NEW w \in Workers, Workers = {w}, IInv, TInv(w), [Next]_vars
  PROVE  TInv(w)'
<1>1. CASE UNCHANGED <<coordinator, recovery, tries, outages>>
  BY <1>1, OthersStep
<1>2. CASE RetryResearchRun
  BY <1>2, OthersStep DEF RetryResearchRun
<1>3. CASE Begin(w)
  <2>1. coordinator[w].at = "idle" /\ UNCHANGED <<recovery, tries, outages>>
    BY <1>3 DEF Begin, Is, Processes
  <2>2. coordinator'[w].at = "replay"
    BY <1>3, GoesFacts DEF Begin, Points
  <2>3. QED
    BY <2>1, <2>2, BetweenTries DEF Trying
<1>4. CASE \E s \in Stages : RetryDue(s)
  <2>1. PICK s \in Stages : RetryDue(s)
    BY <1>4
  <2>2. /\ recovery'[s].count = recovery[s].count
        /\ recovery'[s].exhausted = recovery[s].exhausted
        /\ \A t \in Stages : t # s => recovery'[t] = recovery[t]
    BY <2>1 DEF RetryDue, IInv, TypeOK, RecoveryRecords
  <2>3. QED
    BY <2>1, <2>2, OthersStep DEF RetryDue, Outside, Processes
<1>5. CASE \/ Create \/ Activate \/ CancelResearchRun \/ Restart(w)
           \/ (\E k \in Rounds : Launch(w, k) \/ Handle(w, k))
           \/ (\E k \in Rounds : RecoverExpired(k)) \/ HandlerStep
  BY <1>1, <1>5 DEF Create, Activate, CancelResearchRun, Restart, Launch,
     Handle, Accept, Reject, Fail, RecoverExpired, HandlerStep, HandlerLoads,
     HandlerPublishes, Coordination, Processes
<1>6. CASE UNCHANGED vars
  BY <1>1, <1>6 DEF vars
<1>7. QED
  BY <1>2, <1>3, <1>4, <1>5, <1>6, CoordinateCounts, CrashCounts DEF Next

LEMMA InitCounts ==
  ASSUME NEW w \in Workers, Init
  PROVE  TInv(w)
  BY LimitsAreNatural DEF Init, NoRow, AtRest, TInv, TableIsBounded,
     TriesAreCounted, TriesBelowTheLimit, Unrecorded, Trying

LEMMA CountsBound ==
  ASSUME NEW w \in Workers, IInv, TInv(w)
  PROVE  RecoveryIsBounded
<1> SUFFICES ASSUME NEW s \in Stages PROVE tries[s] <= MaxStageFailures + outages
  BY DEF RecoveryIsBounded
<1>1. tries[s] <= recovery[s].count + Unrecorded(w, s) + outages
      /\ recovery[s].count <= MaxStageFailures
  BY DEF TInv, TriesAreCounted, TableIsBounded
<1>2. Unrecorded(w, s) = 0
      \/ (Unrecorded(w, s) = 1 /\ recovery[s].count < MaxStageFailures)
  BY DEF Unrecorded, TInv, TriesBelowTheLimit, Trying
<1>3. QED
  BY <1>1, <1>2, Numbers

\* With one worker, for any limit, number of crashes and retries by the owner: a
\* stage is tried at most MAX_STAGE_FAILURES times, and once more for every
\* process that died before it recorded a failure.
THEOREM RecoveryBoundedAlways ==
  ASSUME NEW w \in Workers, Workers = {w}
  PROVE  Spec => []RecoveryIsBounded
<1>1. Init => TInv(w)
  BY InitCounts
<1>2. IInv /\ TInv(w) /\ [Next]_vars => TInv(w)'
  BY NextCounts
<1>3. IInv /\ TInv(w) => RecoveryIsBounded
  BY CountsBound
<1>4. QED
  BY <1>1, <1>2, <1>3, StageInvariance, PTL DEF Spec

-----------------------------------------------------------------------------
(* A stage is not given up early, for one worker.  Until the owner retries, *)
(* every failure in the table, or about to be recorded, is a failed try.    *)

FailuresAreTries(w) ==
  resumes = 0 =>
    /\ \A s \in Stages : recovery[s].count + Unrecorded(w, s) <= tries[s]
    /\ coordinator[w].at = "counted" =>
         coordinator[w].seen < tries[coordinator[w].stage]

\* What leaves the table, the tries and what is still to be recorded alone.
LEMMA NothingRecorded ==
  ASSUME IInv, NEW w \in Workers, FailuresAreTries(w),
         coordinator[w].at \notin {"failed", "counted"},
         coordinator'[w].at \notin {"failed", "counted"},
         UNCHANGED <<recovery, tries, resumes>>
  PROVE  FailuresAreTries(w)'
  BY DEF FailuresAreTries, Unrecorded

LEMMA CoordinatorRests ==
  ASSUME IInv, NEW w \in Workers, FailuresAreTries(w),
         UNCHANGED <<coordinator, tries, resumes>>,
         \A s \in Stages : recovery'[s].count = recovery[s].count
  PROVE  FailuresAreTries(w)'
  BY DEF FailuresAreTries, Unrecorded

LEMMA TryFails ==
  ASSUME IInv, NEW w \in Workers, FailuresAreTries(w), Blocked(w),
         coordinator[w].at \in {"work", "publish"},
         UNCHANGED <<recovery, resumes>>
  PROVE  FailuresAreTries(w)'
<1>1. CASE Fails(w)
  <2> DEFINE s == coordinator[w].stage
  <2>1. /\ coordinator'[w].at = "failed" /\ coordinator'[w].stage = s
    BY <1>1, GoesFacts DEF Fails, Points
  <2>2. /\ tries'[s] = tries[s] + 1
        /\ \A t \in Stages : t # s => tries'[t] = tries[t]
    BY <1>1, Numbers DEF Fails, IInv, TypeOK
  <2>3. QED
    BY <2>1, <2>2, Numbers DEF FailuresAreTries, Unrecorded
<1>2. CASE Stops(w, "not_recoverable") /\ UNCHANGED tries
  BY <1>2, StopsFacts, NothingRecorded DEF Reasons
<1>3. QED
  BY <1>1, <1>2 DEF Blocked

LEMMA FailureIsRead ==
  ASSUME IInv, NEW w \in Workers, FailuresAreTries(w), ReadFailures(w)
  PROVE  FailuresAreTries(w)'
<1> DEFINE s == coordinator[w].stage
<1>1. coordinator[w].at = "failed" /\ UNCHANGED <<recovery, tries, resumes>>
  BY DEF ReadFailures, Is, Outside, Processes
<1>2. /\ coordinator'[w].at = "counted" /\ coordinator'[w].stage = s
      /\ coordinator'[w].seen = recovery[s].count
  BY DEF ReadFailures, IInv, TypeOK, CoordinatorRecords
<1>3. QED
  BY <1>1, <1>2, Numbers DEF FailuresAreTries, Unrecorded

LEMMA FailureIsRecorded ==
  ASSUME IInv, NEW w \in Workers, FailuresAreTries(w), ScheduleStageRecovery(w)
  PROVE  FailuresAreTries(w)'
<1> DEFINE s == coordinator[w].stage
<1>1. coordinator[w].at = "counted" /\ UNCHANGED <<tries, resumes>>
  BY DEF ScheduleStageRecovery, Is, Outside, Processes
<1>2. /\ recovery'[s].count = coordinator[w].seen + 1
      /\ \A t \in Stages : t # s => recovery'[t] = recovery[t]
  BY Numbers DEF ScheduleStageRecovery, IInv, TypeOK
<1>3. coordinator'[w].at \in {"closing", "idle"}
  BY StopsFacts, RestsFacts DEF ScheduleStageRecovery, AfterRecord, Reasons
<1>4. QED
  BY <1>1, <1>2, <1>3, Numbers DEF FailuresAreTries, Unrecorded

LEMMA FailuresAreCleared ==
  ASSUME IInv, NEW w \in Workers, FailuresAreTries(w), ClearStageRecovery(w)
  PROVE  FailuresAreTries(w)'
<1> DEFINE s == coordinator[w].stage
<1>1. coordinator[w].at = "clear" /\ resumes' = resumes
  BY DEF ClearStageRecovery, Is, Outside, Processes
<1>2. /\ recovery'[s].count = 0
      /\ \A t \in Stages : t # s => recovery'[t] = recovery[t]
      /\ tries'[s] = 0 /\ \A t \in Stages : t # s => tries'[t] = tries[t]
  BY Numbers DEF ClearStageRecovery, NoRow, IInv, TypeOK
<1>3. coordinator'[w].at \in {"replay", "idle"}
  BY RestsFacts DEF ClearStageRecovery, IInv, TypeOK, CoordinatorRecords
<1>4. QED
  BY <1>1, <1>2, <1>3, Numbers DEF FailuresAreTries, Unrecorded

\* The moves of a coordinator that neither try a stage nor record a failure.
LEMMA OtherMoves ==
  ASSUME IInv, NEW w \in Workers,
         \/ Replay(w) \/ Check(w) \/ LoadAuthority(w) \/ ReadRun(w)
         \/ TerminalizeWorkflowFailure(w)
  PROVE  /\ coordinator[w].at \notin {"failed", "counted"}
         /\ coordinator'[w].at \notin {"failed", "counted"}
         /\ UNCHANGED <<recovery, tries, resumes>>
<1>1. /\ coordinator[w].at \in {"replay", "check", "work", "closing", "transition"}
      /\ UNCHANGED <<recovery, tries, resumes>>
  BY DEF Replay, Check, LoadAuthority, ReadRun, TerminalizeWorkflowFailure, Is,
     Outside, Processes
<1>2. /\ coordinator \in [Workers -> CoordinatorRecords]
      /\ coordinator[w] \in CoordinatorRecords
  BY DEF IInv, TypeOK
<1>3. CASE Rests(w) \/ (\E why \in Reasons : Stops(w, why))
           \/ Goes(w, "check") \/ Goes(w, "work")
  BY <1>1, <1>3, RestsFacts, StopsFacts, GoesFacts DEF Points
<1>4. CASE Replay(w)
  <2>1. CASE \E s : coordinator' = [coordinator EXCEPT ![w].stage = NextStage(s),
                      ![w].at = IF s = Chair THEN "check" ELSE "replay"]
    <3>1. PICK s : coordinator' = [coordinator EXCEPT ![w].stage = NextStage(s),
                      ![w].at = IF s = Chair THEN "check" ELSE "replay"]
      BY <2>1
    <3>2. coordinator'[w].at \in {"check", "replay"}
      BY <1>2, <3>1 DEF CoordinatorRecords
    <3>3. QED
      BY <1>1, <3>2
  <2>2. QED
    BY <1>3, <1>4, <2>1 DEF Replay, Reasons
<1>5. CASE Check(w)
  BY <1>3, <1>5 DEF Check
<1>6. CASE LoadAuthority(w) \/ ReadRun(w)
  <2>1. CASE \E at \in {"publish", "transition"} :
               coordinator' = [coordinator EXCEPT ![w].at = at,
                                                  ![w].seen = run.version]
    <3>1. PICK at \in {"publish", "transition"} :
               coordinator' = [coordinator EXCEPT ![w].at = at,
                                                  ![w].seen = run.version]
      BY <2>1
    <3>2. [coordinator[w] EXCEPT !.at = at, !.seen = run.version].at = at
      BY <1>2, Zenon DEF CoordinatorRecords
    <3>3. QED
      BY <1>1, <1>2, <3>1, <3>2
  <2>2. QED
    BY <1>3, <1>6, <2>1 DEF LoadAuthority, ReadRun, Reasons
<1>7. CASE TerminalizeWorkflowFailure(w)
  BY <1>3, <1>7 DEF TerminalizeWorkflowFailure
<1>8. QED
  BY <1>4, <1>5, <1>6, <1>7

LEMMA CoordinateTries ==
  ASSUME IInv, NEW w \in Workers, FailuresAreTries(w), Coordinate(w)
  PROVE  FailuresAreTries(w)'
<1>1. CASE AuditStructure(w) \/ StageRound(w) \/ PublishReport(w)
  <2>1. /\ coordinator[w].at \in {"work", "publish"}
        /\ UNCHANGED <<recovery, resumes>>
    BY <1>1 DEF AuditStructure, StageRound, PublishReport, Is, Processes
  <2>2. (Goes(w, "clear") /\ UNCHANGED tries) \/ Blocked(w)
    BY <1>1 DEF AuditStructure, StageRound, PublishReport, Blocked
  <2>3. CASE Goes(w, "clear") /\ UNCHANGED tries
    BY <2>1, <2>3, GoesFacts, NothingRecorded DEF Points
  <2>4. QED
    BY <2>1, <2>2, <2>3, TryFails
<1>2. CASE \/ Replay(w) \/ Check(w) \/ LoadAuthority(w) \/ ReadRun(w)
           \/ TerminalizeWorkflowFailure(w)
  BY <1>2, OtherMoves, NothingRecorded
<1>3. QED
  BY <1>1, <1>2, FailureIsRead, FailureIsRecorded, FailuresAreCleared
     DEF Coordinate

LEMMA NextTries ==
  ASSUME NEW w \in Workers, Workers = {w}, IInv, FailuresAreTries(w), [Next]_vars
  PROVE  FailuresAreTries(w)'
<1>1. CASE UNCHANGED <<coordinator, recovery, tries, resumes>>
  BY <1>1, CoordinatorRests
<1>2. CASE RetryResearchRun
  BY <1>2 DEF RetryResearchRun, FailuresAreTries, IInv, TypeOK
<1>3. CASE Begin(w)
  <2>1. coordinator[w].at = "idle" /\ UNCHANGED <<recovery, tries, resumes>>
    BY <1>3 DEF Begin, Is, Processes
  <2>2. coordinator'[w].at = "replay"
    BY <1>3, GoesFacts DEF Begin, Points
  <2>3. QED
    BY <2>1, <2>2, NothingRecorded
<1>4. CASE \E s \in Stages : RetryDue(s)
  <2>1. PICK s \in Stages : RetryDue(s)
    BY <1>4
  <2>2. \A t \in Stages : recovery'[t].count = recovery[t].count
    BY <2>1 DEF RetryDue, IInv, TypeOK, RecoveryRecords
  <2>3. QED
    BY <2>1, <2>2, CoordinatorRests DEF RetryDue, Outside, Processes
<1>5. CASE Crash(w)
  <2>1. UNCHANGED <<recovery, tries, resumes>> /\ coordinator'[w].at = "idle"
    BY <1>5, RestsFacts DEF Crash
  <2>2. QED
    BY <2>1, Numbers DEF FailuresAreTries, Unrecorded
<1>6. CASE \/ Create \/ Activate \/ CancelResearchRun \/ Restart(w)
           \/ (\E k \in Rounds : Launch(w, k) \/ Handle(w, k))
           \/ (\E k \in Rounds : RecoverExpired(k)) \/ HandlerStep
  BY <1>1, <1>6 DEF Create, Activate, CancelResearchRun, Restart, Launch,
     Handle, Accept, Reject, Fail, RecoverExpired, HandlerStep, HandlerLoads,
     HandlerPublishes, Coordination, Processes
<1>7. CASE UNCHANGED vars
  BY <1>1, <1>7 DEF vars
<1>8. QED
  BY <1>2, <1>3, <1>4, <1>5, <1>6, <1>7, CoordinateTries DEF Next

\* With one worker, for any limit and number of crashes: until its owner retries
\* the run, a stage that is given up has failed MAX_STAGE_FAILURES tries since it
\* last succeeded.
THEOREM GivenUpAfterItsTriesAlways ==
  ASSUME NEW w \in Workers, Workers = {w}
  PROVE  Spec => []GivenUpAfterItsTries
<1>1. Init => FailuresAreTries(w)
  BY DEF Init, NoRow, AtRest, FailuresAreTries, Unrecorded
<1>2. IInv /\ FailuresAreTries(w) /\ [Next]_vars => FailuresAreTries(w)'
  BY NextTries
<1>3. IInv /\ TInv(w) /\ FailuresAreTries(w) => GivenUpAfterItsTries
  <2> SUFFICES ASSUME IInv, TInv(w), FailuresAreTries(w), resumes = 0,
                      NEW s \in Stages, recovery[s].exhausted
               PROVE  tries[s] >= MaxStageFailures
    BY DEF GivenUpAfterItsTries
  <2>1. recovery[s].count >= MaxStageFailures
    BY DEF TInv, TableIsBounded
  <2>2. recovery[s].count + Unrecorded(w, s) <= tries[s]
    BY DEF FailuresAreTries
  <2>3. QED
    BY <2>1, <2>2, Numbers DEF Unrecorded
<1>4. Init => TInv(w)
  BY InitCounts
<1>5. IInv /\ TInv(w) /\ [Next]_vars => TInv(w)'
  BY NextCounts
<1>6. QED
  BY <1>1, <1>2, <1>3, <1>4, <1>5, StageInvariance, PTL DEF Spec
=============================================================================
