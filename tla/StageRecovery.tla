--------------------------- MODULE StageRecovery ---------------------------
(***************************************************************************)
(* The last stages of one research run, from the structural audit to the   *)
(* published report: the coordinator that drives them, the recovery table  *)
(* that counts its failures, the two jobs it stages, and the handler of    *)
(* the chair, which publishes as well.                                     *)
(*                                                                         *)
(* A worker process is a scheduler, a coordinator and the handlers of the  *)
(* jobs it executes.  A coordinator serialises its work on a run, so one   *)
(* `coordinator' record per worker is all it remembers; two workers        *)
(* overlap when one takes over from another.  Every action is one          *)
(* transaction or one read; what is read is remembered until it is used.   *)
(*                                                                         *)
(* Leases are the subject of LeaseEngine: here a job has the worker that   *)
(* executes it, and comes back when that worker died.  The earlier rounds  *)
(* are complete; "cancelled" also stands for cancelling.                   *)
(***************************************************************************)
EXTENDS Integers, FiniteSets

CONSTANTS
  Workers,
  NoWorker,
  MaxStageFailures,                \* MAX_STAGE_FAILURES
  MaxAttemptsPerLogicalArtifact,   \* CALL_BUDGET_POLICY
  MaxPhysicalLaunches,             \* what is left of it for these two jobs
  MaxOutages,                      \* bound: crashes
  MaxResumes                       \* bound: retries by the owner

ASSUME NoWorkerIsFresh == NoWorker \notin Workers
ASSUME LimitsAreNatural ==
  /\ MaxStageFailures \in Nat \ {0} /\ MaxPhysicalLaunches \in Nat
  /\ MaxAttemptsPerLogicalArtifact \in Nat \ {0}
  /\ MaxOutages \in Nat /\ MaxResumes \in Nat

Semantic == "semantic_audit"
Chair == "chair_synthesis"
Structural == "structural_audit"
Publication == "report_publication"
Rounds == {Semantic, Chair}
Stages == {Structural, Semantic, Chair, Publication}

VARIABLES
  run,          \* status and version of the run
  structural,   \* the structural audit: none, or persisted (un)publishable
  job,          \* the jobs of the two rounds; launches = their ordinals
  recovery,     \* run_stage_recoveries; a count of 0 is no row
  coordinator,  \* where each worker's coordinator is, and what it has read
  handler,      \* the chair's handler, publishing after its commit
  notices,      \* afterCommit calls a worker still owes its coordinator
  down, outages, resumes,
  tries         \* history: failed tries since the stage last succeeded

vars == <<run, structural, job, recovery, coordinator, handler, notices,
          down, outages, resumes, tries>>
Coordination == <<coordinator, recovery, tries>>
Processes == <<down, outages, resumes>>

RunStatuses == {"absent", "queued", "running", "completed", "cancelled",
                "failed", "incomplete"}
JobStatuses == {"absent", "queued", "running", "retry-wait", "succeeded",
                "failed", "cancelled"}
\* Why a coordinator ends the run; a failure that is retried is no reason.
Reasons == {"none", "not_recoverable", "replacement_exhausted",
            "automatic_recovery_exhausted"}
\* Where advanceExclusive is: reading the stage's state (replay), asking the
\* recovery table (check), doing the stage (work, publish), recording a failure
\* (failed, counted), ending the run (closing, transition), or clearing.
Points == {"idle", "replay", "check", "work", "publish", "failed", "counted",
           "closing", "transition", "clear"}

RunRecords == [status: RunStatuses, version: Nat]
JobRecords == [status: JobStatuses, worker: Workers \cup {NoWorker},
               class: {"none", "transient", "repair"},
               launches: 0..MaxPhysicalLaunches,
               rewrites: 0..(MaxAttemptsPerLogicalArtifact - 1)]
RecoveryRecords == [count: Nat, due: BOOLEAN, exhausted: BOOLEAN]
CoordinatorRecords == [at: Points, stage: Stages, why: Reasons, seen: Nat]
HandlerRecords == [at: {"none", "load", "publish"},
                   worker: Workers \cup {NoWorker}, seen: Nat]

TypeOK ==
  /\ run \in RunRecords
  /\ structural \in {"none", "unpublishable", "publishable"}
  /\ job \in [Rounds -> JobRecords]
  /\ recovery \in [Stages -> RecoveryRecords]
  /\ coordinator \in [Workers -> CoordinatorRecords]
  /\ handler \in HandlerRecords
  /\ notices \subseteq Workers \X Rounds
  /\ down \subseteq Workers /\ outages \in 0..MaxOutages
  /\ resumes \in 0..MaxResumes
  /\ tries \in [Stages -> Nat]

NoRow == [count |-> 0, due |-> TRUE, exhausted |-> FALSE]
AtRest == [at |-> "idle", stage |-> Structural, why |-> "none", seen |-> 0]
NoHandler == [at |-> "none", worker |-> NoWorker, seen |-> 0]

Init ==
  /\ run = [status |-> "absent", version |-> 0]
  /\ structural = "none"
  /\ job = [k \in Rounds |-> [status |-> "absent", worker |-> NoWorker,
                class |-> "none", launches |-> 0, rewrites |-> 0]]
  /\ recovery = [s \in Stages |-> NoRow]
  /\ coordinator = [w \in Workers |-> AtRest]
  /\ handler = NoHandler
  /\ notices = {}
  /\ down = {} /\ outages = 0 /\ resumes = 0
  /\ tries = [s \in Stages |-> 0]

Up == Workers \ down
Pending == {"queued", "running", "retry-wait"}
Launches == job[Semantic].launches + job[Chair].launches
\* transitionRun: every change of the status takes a new version.
Moved(to) == [status |-> to, version |-> run.version + 1]
Unleased(j, status) == [j EXCEPT !.status = status, !.worker = NoWorker]

-----------------------------------------------------------------------------
(* The owner, and the activation of a queued run. *)

Create ==
  /\ run.status = "absent"
  /\ run' = [run EXCEPT !.status = "queued"]
  /\ UNCHANGED <<structural, job, handler, notices, Coordination, Processes>>

\* A run whose jobs have ended, one of them failed, is closed; a queued one
\* starts otherwise.  Whether it is failed or incomplete depends on the
\* failures of its jobs.
JobsExhausted(jobs) == /\ \A k \in Rounds : jobs[k].status \notin Pending
                       /\ \E k \in Rounds : jobs[k].status = "failed"
Activate ==
  /\ Up # {}
  /\ \/ /\ run.status = "running" /\ JobsExhausted(job)
        /\ \E to \in {"failed", "incomplete"} : run' = Moved(to)
     \/ run.status = "queued" /\ run' = Moved("running")
  /\ UNCHANGED <<structural, job, handler, notices, Coordination, Processes>>

CancelResearchRun ==
  /\ run.status \in {"queued", "running"}
  /\ run' = Moved("cancelled")
  /\ job' = [k \in Rounds |-> IF job[k].status \in Pending
                              THEN Unleased(job[k], "cancelled") ELSE job[k]]
  /\ UNCHANGED <<structural, handler, notices, Coordination, Processes>>

\* The same run is queued again, with everything that is not accepted waiting
\* for an attempt, and every stage without failures.
RetryResearchRun ==
  LET Requeued(j) ==
        LET waiting == IF j.status \in {"running", "failed"}
                       THEN Unleased(j, "retry-wait") ELSE j
        IN IF waiting.status = "retry-wait" /\ waiting.class # "none"
           THEN [waiting EXCEPT !.class = "transient"] ELSE waiting
      publicationOnly == \A k \in Rounds : job[k].status \in {"absent", "succeeded"}
  IN /\ resumes < MaxResumes
     /\ run.status \in {"failed", "incomplete"}
     /\ publicationOnly \/ Launches < MaxPhysicalLaunches
     /\ run' = Moved("queued")
     /\ job' = [k \in Rounds |-> Requeued(job[k])]
     /\ recovery' = [s \in Stages |-> NoRow]
     /\ tries' = [s \in Stages |-> 0]
     /\ resumes' = resumes + 1
     /\ UNCHANGED <<structural, coordinator, handler, notices, down, outages>>

-----------------------------------------------------------------------------
(* The lease engine, as far as the two jobs go. *)

\* An attempt after the first is a rewrite, unless the last failure was
\* transient.
IsRewrite(k) == job[k].launches > 0 /\ job[k].class # "transient"
NoRewriteLeft(k) == job[k].rewrites + 1 >= MaxAttemptsPerLogicalArtifact
OverBudget(k) == \/ IsRewrite(k) /\ NoRewriteLeft(k)
                 \/ Launches >= MaxPhysicalLaunches

\* Claim and reserve: an exhausted budget ends the run and its jobs.
Launch(w, k) ==
  /\ w \in Up
  /\ run.status = "running"
  /\ job[k].status \in {"queued", "retry-wait"}
  /\ IF OverBudget(k)
     THEN /\ run' = Moved("incomplete")
          /\ job' = [i \in Rounds |-> IF job[i].status \in Pending
                       THEN Unleased(job[i], "failed") ELSE job[i]]
     ELSE /\ job' = [job EXCEPT ![k].status = "running", ![k].worker = w,
               ![k].launches = @ + 1,
               ![k].rewrites = IF IsRewrite(k) THEN @ + 1 ELSE @]
          /\ UNCHANGED run
  /\ UNCHANGED <<structural, handler, notices, Coordination, Processes>>

Executes(w, k) == w \in Up /\ job[k].status = "running" /\ job[k].worker = w

\* The output is accepted.  The chair's handler goes on to publish; the other
\* outcome is committed, and afterCommit advances the run.
Accept(w, k) ==
  /\ Executes(w, k)
  /\ job' = [job EXCEPT ![k] = Unleased(@, "succeeded")]
  /\ IF k = Chair
     THEN /\ handler' = [at |-> "load", worker |-> w, seen |-> 0]
          /\ UNCHANGED notices
     ELSE /\ notices' = notices \cup {<<w, k>>}
          /\ UNCHANGED handler
  /\ UNCHANGED <<run, structural, Coordination, Processes>>

\* The output is refused: a replacement under the same lease, or the job fails.
Reject(w, k) ==
  /\ Executes(w, k)
  /\ job' = IF NoRewriteLeft(k) \/ Launches >= MaxPhysicalLaunches
            THEN [job EXCEPT ![k] = Unleased(@, "failed")]
            ELSE [job EXCEPT ![k].launches = @ + 1, ![k].rewrites = @ + 1]
  /\ UNCHANGED <<run, structural, handler, notices, Coordination, Processes>>

\* The attempt fails: the job waits for another, or fails and may end the run.
Fail(w, k) ==
  /\ Executes(w, k)
  /\ \/ /\ \E class \in {"transient", "repair"} :
             job' = [job EXCEPT ![k] = [Unleased(@, "retry-wait")
                                        EXCEPT !.class = class]]
        /\ UNCHANGED run
     \/ /\ job' = [job EXCEPT ![k] = Unleased(@, "failed")]
        /\ IF run.status = "running" /\ JobsExhausted(job')
           THEN \E to \in {"failed", "incomplete"} : run' = Moved(to)
           ELSE UNCHANGED run
  /\ UNCHANGED <<structural, handler, notices, Coordination, Processes>>

\* The lease of a process that died runs out, and the job is recovered.
RecoverExpired(k) ==
  /\ Up # {}
  /\ job[k].status = "running" /\ job[k].worker = NoWorker
  /\ job' = [job EXCEPT ![k] = [Unleased(@, "retry-wait")
                                EXCEPT !.class = "transient"]]
  /\ UNCHANGED <<run, structural, handler, notices, Coordination, Processes>>

-----------------------------------------------------------------------------
(* Publication, by the coordinator or by the chair's handler. *)

\* (mutant) The last update trusts what was loaded.
PublishableAsLoaded(version) == version <= run.version
\* loadReportAuthority accepts a running run and remembers its version;
\* publishReportAtomically compares it.
Publishable(version) == run.status = "running" /\ run.version = version

HandlerLoads ==
  /\ handler.at = "load" /\ handler.worker \in Up
  /\ handler' = IF run.status = "running"
                THEN [handler EXCEPT !.at = "publish", !.seen = run.version]
                ELSE NoHandler
  /\ UNCHANGED <<run, structural, job, notices, Coordination, Processes>>

\* A report the gates refuse, or a conflict, is left to the coordinator.
HandlerPublishes ==
  /\ handler.at = "publish" /\ handler.worker \in Up
  /\ handler' = NoHandler
  /\ \/ /\ Publishable(handler.seen)
        /\ run' = Moved("completed")
        /\ notices' = notices \cup {<<handler.worker, Chair>>}
     \/ UNCHANGED <<run, notices>>
  /\ UNCHANGED <<structural, job, Coordination, Processes>>

-----------------------------------------------------------------------------
(* The coordinator: advanceExclusive. *)

Is(w, at) == w \in Up /\ coordinator[w].at = at
Goes(w, at) == coordinator' = [coordinator EXCEPT ![w].at = at]
Rests(w) == coordinator' = [coordinator EXCEPT ![w] = AtRest]
Stops(w, why) ==
  coordinator' = [coordinator EXCEPT ![w].at = "closing", ![w].why = why]
Outside == <<run, structural, job, handler, notices, Processes>>

\* resumeActiveRuns reads the running runs; afterCommit does not ask.
Begin(w) ==
  /\ Is(w, "idle")
  /\ \/ run.status = "running" /\ UNCHANGED notices
     \/ \E k \in Rounds : /\ <<w, k>> \in notices
                          /\ notices' = notices \ {<<w, k>>}
  /\ Goes(w, "replay")
  /\ UNCHANGED <<run, structural, job, handler, recovery, tries, Processes>>

AcceptedStage(s) == IF s = Structural THEN structural = "publishable"
                    ELSE job[s].status = "succeeded"
NextStage(s) == CASE s = Structural -> Semantic
                  [] s = Semantic -> Chair
                  [] s = Chair -> Publication
\* Every ordinal of the artifact counts, that of a running attempt included.
ReplacementsExhausted(s) ==
  s \in Rounds /\ job[s].launches >= MaxAttemptsPerLogicalArtifact
\* (mutant) An artifact without replacements left is taken as it is.
AdvancesAnyway(s) == AcceptedStage(s) \/ ReplacementsExhausted(s)
Advances(s) == AcceptedStage(s)

\* The state of the stage decides: go on, wait for the job's retry, give up,
\* or work on it.
Replay(w) ==
  LET s == coordinator[w].stage IN
  /\ Is(w, "replay")
  /\ CASE Advances(s) ->
            coordinator' = [coordinator EXCEPT ![w].stage = NextStage(s),
              ![w].at = IF s = Chair THEN "check" ELSE "replay"]
       [] ~Advances(s) /\ s \in Rounds /\ job[s].status = "retry-wait" ->
            Rests(w)
       [] ~Advances(s) /\ ReplacementsExhausted(s) /\ job[s].status # "retry-wait" ->
            Stops(w, "replacement_exhausted")
       [] OTHER -> Goes(w, "check")
  /\ UNCHANGED <<recovery, tries, Outside>>

\* stageRecoveryState
Ready(s) == recovery[s].due /\ ~recovery[s].exhausted
Check(w) ==
  /\ Is(w, "check")
  /\ IF Ready(coordinator[w].stage) THEN Goes(w, "work") ELSE Rests(w)
  /\ UNCHANGED <<recovery, tries, Outside>>

\* A stage does not succeed, for a reason recovery retries or another one.
Fails(w) == /\ Goes(w, "failed")
            /\ tries' = [tries EXCEPT ![coordinator[w].stage] = @ + 1]
Blocked(w) == \/ Fails(w)
              \/ Stops(w, "not_recoverable") /\ UNCHANGED tries

\* persistStructuralAudit: a result that is persisted is returned again.
AuditStructure(w) ==
  /\ Is(w, "work") /\ coordinator[w].stage = Structural
  /\ \/ /\ structural # "unpublishable"
        /\ structural' = "publishable"
        /\ Goes(w, "clear") /\ UNCHANGED tries
     \/ /\ structural # "publishable"
        /\ structural' = "unpublishable"
        /\ Fails(w)
     \/ Blocked(w) /\ UNCHANGED structural
  /\ UNCHANGED <<run, job, recovery, handler, notices, Processes>>

\* stage() of a round: its job is there afterwards, whatever the run's status.
StageRound(w) ==
  LET s == coordinator[w].stage IN
  /\ Is(w, "work") /\ s \in Rounds
  /\ \/ /\ job' = IF job[s].status = "absent"
                  THEN [job EXCEPT ![s].status = "queued"] ELSE job
        /\ Goes(w, "clear") /\ UNCHANGED tries
     \/ Blocked(w) /\ UNCHANGED job
  /\ UNCHANGED <<run, structural, recovery, handler, notices, Processes>>

LoadAuthority(w) ==
  /\ Is(w, "work") /\ coordinator[w].stage = Publication
  /\ IF run.status = "running"
     THEN coordinator' = [coordinator EXCEPT ![w].at = "publish",
                                             ![w].seen = run.version]
     ELSE Stops(w, "not_recoverable")
  /\ UNCHANGED <<recovery, tries, Outside>>

\* A conflict of the last update is a runtime error, which is retried.
PublishReport(w) ==
  /\ Is(w, "publish")
  /\ \/ /\ Publishable(coordinator[w].seen)
        /\ run' = Moved("completed")
        /\ Goes(w, "clear") /\ UNCHANGED tries
     \/ Blocked(w) /\ UNCHANGED run
  /\ UNCHANGED <<structural, job, recovery, handler, notices, Processes>>

\* scheduleStageRecovery reads the count without a lock ...
ReadFailures(w) ==
  /\ Is(w, "failed")
  /\ coordinator' = [coordinator EXCEPT ![w].at = "counted",
                       ![w].seen = recovery[coordinator[w].stage].count]
  /\ UNCHANGED <<recovery, tries, Outside>>

\* (mutant) The last try is not waited for.
ExhaustedBefore(count) == count + 1 >= MaxStageFailures
\* (mutant) The limit is exceeded by one.
ExhaustedPast(count) == count > MaxStageFailures
ExhaustedAt(count) == count >= MaxStageFailures

\* (mutant) An exhausted stage is recorded and nothing else.
RestAfter(w, count) == Rests(w)
AfterRecord(w, count) == IF ExhaustedAt(count)
                         THEN Stops(w, "automatic_recovery_exhausted")
                         ELSE Rests(w)
\* ... and writes it, plus one.
ScheduleStageRecovery(w) ==
  LET count == coordinator[w].seen + 1 IN
  /\ Is(w, "counted")
  /\ recovery' = [recovery EXCEPT ![coordinator[w].stage] =
       [count |-> count, due |-> FALSE, exhausted |-> ExhaustedAt(count)]]
  /\ AfterRecord(w, count)
  /\ UNCHANGED <<tries, Outside>>

\* terminalizeWorkflowFailure reads the run ...
ReadRun(w) ==
  /\ Is(w, "closing")
  /\ IF run.status = "running"
     THEN coordinator' = [coordinator EXCEPT ![w].at = "transition",
                                             ![w].seen = run.version]
     ELSE Rests(w)
  /\ UNCHANGED <<recovery, tries, Outside>>

\* ... and ends it, unless it changed: then transitionRun throws, and so does
\* the advance.
TerminalizeWorkflowFailure(w) ==
  /\ Is(w, "transition")
  /\ run' = IF run.status = "running" /\ run.version = coordinator[w].seen
            THEN Moved("incomplete") ELSE run
  /\ Rests(w)
  /\ UNCHANGED <<structural, job, handler, notices, recovery, tries, Processes>>

\* After the structural audit the advance goes on; the others return.
ClearStageRecovery(w) ==
  LET s == coordinator[w].stage IN
  /\ Is(w, "clear")
  /\ recovery' = [recovery EXCEPT ![s] = NoRow]
  /\ tries' = [tries EXCEPT ![s] = 0]
  /\ IF s = Structural
     THEN coordinator' = [coordinator EXCEPT ![w].at = "replay",
                                             ![w].stage = Semantic]
     ELSE Rests(w)
  /\ UNCHANGED Outside

\* next_retry_at passes.
RetryDue(s) ==
  /\ recovery[s].count > 0 /\ ~recovery[s].due
  /\ recovery' = [recovery EXCEPT ![s].due = TRUE]
  /\ UNCHANGED <<coordinator, tries, Outside>>

-----------------------------------------------------------------------------
(* Processes. *)

\* The jobs of a process that died are nobody's until their lease runs out.
Crash(w) ==
  /\ outages < MaxOutages
  /\ w \in Up
  /\ outages' = outages + 1
  /\ down' = down \cup {w}
  /\ Rests(w)
  /\ job' = [k \in Rounds |-> IF job[k].worker = w
              THEN [job[k] EXCEPT !.worker = NoWorker] ELSE job[k]]
  /\ handler' = IF handler.worker = w THEN NoHandler ELSE handler
  /\ notices' = {n \in notices : n[1] # w}
  /\ UNCHANGED <<run, structural, recovery, resumes, tries>>

Restart(w) ==
  /\ w \in down
  /\ down' = down \ {w}
  /\ UNCHANGED <<run, structural, job, handler, notices, Coordination,
                 outages, resumes>>

-----------------------------------------------------------------------------

Coordinate(w) ==
  \/ Replay(w) \/ Check(w) \/ AuditStructure(w) \/ StageRound(w)
  \/ LoadAuthority(w) \/ PublishReport(w) \/ ReadFailures(w)
  \/ ScheduleStageRecovery(w) \/ ReadRun(w) \/ TerminalizeWorkflowFailure(w)
  \/ ClearStageRecovery(w)
Handle(w, k) == Accept(w, k) \/ Reject(w, k) \/ Fail(w, k)
HandlerStep == HandlerLoads \/ HandlerPublishes

Next ==
  \/ Create \/ Activate \/ CancelResearchRun \/ RetryResearchRun
  \/ \E w \in Workers : Begin(w) \/ Coordinate(w) \/ Crash(w) \/ Restart(w)
  \/ \E w \in Workers, k \in Rounds : Launch(w, k) \/ Handle(w, k)
  \/ \E k \in Rounds : RecoverExpired(k)
  \/ HandlerStep
  \/ \E s \in Stages : RetryDue(s)

Spec == Init /\ [][Next]_vars

-----------------------------------------------------------------------------
(* Properties. *)

\* A stage that keeps failing is tried MAX_STAGE_FAILURES times and not more:
\* neither waiting, nor a restart, nor what the rounds do in between gives it
\* another try, except one for every process that died before it recorded its
\* failure.  (With one worker: overlapping ones can overwrite each other's
\* count.)
RecoveryIsBounded ==
  \A s \in Stages : tries[s] <= MaxStageFailures + outages

\* And not fewer: while its owner has not retried the run, a stage that is given
\* up has failed MAX_STAGE_FAILURES times since it last succeeded, whatever was
\* lost with a process.  (A coordinator that read the count before such a retry
\* writes it back after: then the stage is given up early.)
GivenUpAfterItsTries ==
  resumes = 0 =>
    \A s \in Stages : recovery[s].exhausted => tries[s] >= MaxStageFailures

\* Whatever workers and handlers overlap, stop or are retried: the semantic
\* audit is staged on a publishable structural audit only, the chair on an
\* accepted semantic audit, and a report has an accepted chair behind it.
StagesInOrder ==
  /\ job[Semantic].status # "absent" => structural = "publishable"
  /\ job[Chair].status # "absent" => job[Semantic].status = "succeeded"
  /\ run.status = "completed" => job[Chair].status = "succeeded"

\* Why: no coordinator is at a stage before the ones it builds on are accepted,
\* and what is accepted stays so.  Inductive together with TypeOK.
BuildsOnAccepted(c, audit, jobs) ==
  /\ c.stage # Structural => audit = "publishable"
  /\ c.stage \in {Chair, Publication} => jobs[Semantic].status = "succeeded"
  /\ c.stage = Publication => jobs[Chair].status = "succeeded"
  /\ c.at = "publish" => c.stage = Publication
  /\ c.at \in {"idle", "replay"} => c.stage # Publication
  /\ c.at = "clear" /\ c.stage = Structural => audit = "publishable"
HandlerBuildsOnAccepted ==
  handler.at # "none" => job[Chair].status = "succeeded"
IInv == /\ TypeOK
        /\ StagesInOrder
        /\ \A w \in Workers : BuildsOnAccepted(coordinator[w], structural, job)
        /\ HandlerBuildsOnAccepted

\* The stages keep what a run promises its owner (RunContract): one report at
\* most, from accepted rounds, by whichever of coordinator and handler comes
\* first, and none after a cancellation.
Contract == INSTANCE RunContract WITH
  Runs <- {"run"}, Outputs <- Rounds, Final <- Chair,
  status <- [r \in {"run"} |-> run.status],
  accepted <- [r \in {"run"} |->
                 {k \in Rounds : job[k].status = "succeeded"}]
KeepsContract == Contract!Spec

Fairness ==
  /\ WF_vars(Activate)
  /\ \A w \in Workers : /\ WF_vars(Begin(w)) /\ WF_vars(Coordinate(w))
                        /\ WF_vars(Restart(w))
  /\ \A k \in Rounds : /\ WF_vars(\E w \in Workers : Launch(w, k))
                       /\ WF_vars(\E w \in Workers : Handle(w, k))
                       /\ WF_vars(RecoverExpired(k))
  /\ WF_vars(HandlerStep)
  /\ \A s \in Stages : WF_vars(RetryDue(s))
FairSpec == Spec /\ Fairness

\* A run does not stay running: with any failures of its stages and attempts,
\* and with coordinators that overlap, it is published or ended.
RunsEnd == run.status = "running" ~> run.status # "running"

-----------------------------------------------------------------------------
(* What the repository says of these stages and the code does not do. *)

\* After a restart the recorded failures are acted on: a run with an exhausted
\* stage ends.
ExhaustedRunsEnd ==
  \A s \in Stages :
    run.status = "running" /\ recovery[s].exhausted ~> run.status # "running"
=============================================================================
