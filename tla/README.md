# Stocksembly: TLA+ verification of the research runtime and its services

This directory specifies the durable core of Stocksembly. Its first part runs a
research request to a published report: runs, jobs and attempts in PostgreSQL,
the workers that claim and execute them under leases, the coordinator that drives
a run from stage to stage, and the commands of the web application that start,
cancel and retry a run. Its second part is the services around it: the credits
that pay for research, the payment events that decide the plan, the translations
of a report, the background preparation of stocks, and the daily briefings. TLC
checks the modules on small instances; TLAPS proves the invariants listed below
for every size.

Paths are relative to the repository. The research subsystem is
`src/research`; `PROJECT.json` maps every definition to the lines it models.

## 1. Inventory

### Lease engine (`src/research/worker/leaseEngine*.ts`) - modelled

*State*: rows of `runs` (status, version, remaining base and rewrite calls),
`jobs` (status, owner, token, expiry, current attempt), `attempts` (status, the
attempt it replaces), `research_call_ordinals`, the `worker-retry` records, and
in a worker's memory the claim of every poll in flight.
*Operations*: activate a queued run, claim a job, reserve a launch, heartbeat,
release, commit an outcome, commit a requested cancellation, recover expired
attempts.
*Interacts* with the handlers (callbacks that run under a claim), with the web
commands (they update the same rows), with the coordinator (`afterCommit`,
`reconcile`).
*Hard*: leases that expire while the holder still works; several polls of one
worker and several workers at failover; a cancellation at any point; a crash
between transactions; the budget counted in three places (columns, ordinals,
replacements).
*Correct when*: a job has one executor and one accepted result, the budget is a
ledger, a cancellation ends and leaves nothing at work, process and run slots
are bounded and come back.

### Handlers and agent-output commit (`workflow/specialistRound*`, `server/persistence/postgres/agentOutputCommit*.ts`, `compositions/initialCollectionHandler.ts`) - modelled as far as runs, jobs and attempts go

The collection handler ends with four transactions (records, jobs, inputs,
refund of its call); a model handler accepts its output under the fence of its
job, refuses it, or reserves a replacement attempt under the same lease, in three
transactions. *Hard*: stops between those transactions, and the engine that does
not know of the replacement.

### Web commands (`server/api/research*.ts`) - modelled

Create (admission), cancel, retry. *Hard*: they run in another process and race
every step of the engine.

### Workflow coordinator and stage recovery (`compositions/officialWorkflowCoordinator.ts`, `compositions/workflowStageRecovery.ts`) - the last stages modelled

*State*: `run_stage_recoveries` (failures, next retry, exhausted, last code per
stage), and in memory what `advanceExclusive` has read on its way. It owns no
row of the run: it reads jobs and ordinals that the engine writes.
*Operations*: `advance` (called by `afterCommit`, and by `reconcile` for every
running run): audit the structure, stage the semantic audit and the chair, publish
the report; record a failure, wait, give up, clear.
*Interacts* with the engine (jobs it stages are claimed and executed), with the
chair's handler, which publishes as well right after its commit, and with the
owner.
*Hard*: two coordinators at failover; a failure count read without a lock; a
stop between the record of an exhausted stage and the end of the run; decisions
taken from ordinals while a launch is at work; compare-and-set of the run's
version against cancellation and a second publisher.
*Correct when*: stages keep their order, a failing stage is tried a bounded
number of times, a run has one report at most and none after a cancellation, and
a running run ends.

### Account credits (`src/accounts/server/postgresAccountStore.ts`, `src/research/server/api/researchApiCreation.ts`, `researchAccountControls.ts`) - modelled in part

*State*: `credit_grants`, `research_credit_reservations`, `usage_events`, the
entitlement's row (which is locked), the ownership row of a run with the status
last recorded for it.
*Operations*: reserve credits for research, create the run, release the
reservation when that fails, consume credits for opening a report or translating
it, record a run's status (which charges or restores), expire a reservation.
*Interacts* with the engine only through the status of a run, which anyone who
reads a run writes back (`recordResearchRun`).
*Hard*: reservation, run and ownership are three transactions; the recording does
not take the lock of the account; statements, not transactions, are isolated;
idempotency keys used by two requests at once.
*Correct when*: no admission exceeds the balance, nothing is counted twice, only
success is charged, a hold without a run has a reason.

### Payments (`handleWhopWebhook` and the checkout attempts of `src/accounts/server/postgresAccountStore.ts`) - modelled

*State*: the entitlement (plan, status, membership, time of its event), the
processed event ids, the checkout attempt. *Hard*: events arrive late, twice and
in any order, two may carry the same time, and an upgrade is a new membership
whose predecessor ends afterwards. *Correct when*: the newest event decides and a
paid attempt stays paid.

### Translation jobs (`server/researchRoom/researchTranslationJobs.ts`) - modelled

*State*: a job per report and language with lease and token, the pending or final
usage event of each reader. *Hard*: a settlement that commits and loses its
answer, an overtaken loop that settles late, readers who join a running job.
*Correct when*: a charge is pending only for an open job and does not stay
pending, and who has paid for good is served the translation (except after a success whose
answer was lost, section 3).

### Stock preparation (`server/persistence/postgres/stockPreparation.ts`, `compositions/stockPreparationWorker.ts`) - modelled

*State*: a row per symbol (status, lease, token, attempts, times). *Hard*: a
heartbeat that renews by token alone, research that bypasses a queued row it has
read earlier. *Correct when*: one preparation is live, only the last claim
completes, and research is not held up.

### Briefings (`src/briefing/server/briefingScheduler.ts`, `src/briefing/worker`) - one day modelled

*State*: watchlists, editions and deliveries; in memory what a cycle has read.
*Hard*: nothing locks two schedulers against each other, a cycle takes minutes
and writes with the audience it read at its start, a stock fails half-way.
*Correct when*: who watches all day gets one briefing in their language, and
nothing visible is repeated.

### Not modelled

| Component | Why |
|---|---|
| Chair resume (`worker/chairResume.ts`) | an operator's command against a live run with permit records of its own; the engine's and the coordinator's exceptions for it are left out as well |
| Questions after publication (qa lane) | same leases and launches as research; its own part is the reading of a report |
| Call-budget ledger (`domain/callBudgetContracts.ts`) | a pure ledger no code outside tests calls; the engine's budget is modelled from its SQL |
| Rounds before the structural audit (departments, challenges, follow-ups) | one job (`ReviewKey`) of `LeaseEngine`: their staging conditions are about the contents of artifacts |
| Worker runtime lock | the model lets workers overlap at any time, which allows more |
| Chat consultations, invitations, affiliates, analytics | bookkeeping of `postgresAccountStore.ts` without shared credits |
| Artifacts (CAS), events and SSE, PDF, UI, i18n, fixtures, data providers, infrastructure | I/O, presentation and data: most of the repository's lines are here, and there is no state machine in them to check |

## 2. Modules

| Module | Models | Role |
|---|---|---|
| `LeaseEngine` | engine, handlers' transactions, web commands, coordinator in outline | the detailed specification, its properties and inductive invariant |
| `RunContract` | what a run promises its owner | abstract specification that `LeaseEngine` implements |
| `MCLeaseEngine` | - | model values, instances and symmetry for TLC |
| `LeaseEngineProofs` | - | theorems and proofs: the inductive invariant |
| `LeaseContractProofs` | - | more of them: cancellation, capacity, refinement of `RunContract`, limits on launches, the ledger of calls |
| `StageRecovery` | coordinator from the structural audit to the report, recovery table, publication by the chair's handler; the engine as far as two jobs go | detailed specification, implements `RunContract` too |
| `MCStageRecovery` | - | instances and symmetry for TLC |
| `StageRecoveryProofs` | - | theorems and proofs |
| `AccountCredits` | grants, reservations and charges of one account | specification; `AccountCreditsProofs` |
| `CreditContract` | what an account promises about holds and charges | abstract specification that `AccountCredits` implements |
| `RunView` | what an account sees of a run, and which moves | the interface between engine and account: `AccountCredits` leaves these moves to its environment, the proofs show that the engine makes no others |
| `BillingWebhooks` | payment events, entitlement, checkout attempt | specification; `BillingWebhooksProofs` |
| `TranslationJobs` | translation jobs, their loops and charges | specification; `TranslationJobsProofs` |
| `StockPreparation` | preparation rows, loops, waiting research | specification; `StockPreparationProofs` |
| `BriefingScheduler` | watchlists, cycles and editions of one day | specification; `BriefingSchedulerProofs` |
| `MCServices` | credits, payments, preparations, briefings side by side | safety of the services for TLC |
| `MCLiveness` | stages, translations, preparations, briefings side by side | the fair specification for TLC |

### How `LeaseEngine` corresponds to the code

One action is one committed transaction, or one statement that the code runs
outside a transaction. Where the code makes several transactions in sequence the
model has several actions, and `phase` of the claim remembers how far the worker
is: `claimed`, `releasing`, `running`, then for a collection `prepared`,
`staged`, `released`, for a rewrite `rejected`, `charged` and `running` again.

* `run[r]`, `job[j]`, `attempt[a]`: the rows. `absent`/`unborn` is a row that does
  not exist. `attempt[a].ordinal = 0` is an attempt whose ordinal was deleted
  (or that was not born). `job[j].class` is the classification in its
  `worker-retry` record; `run[r].permanent` that a permanent failure is among
  its events (it decides between `failed` and `incomplete`).
* `prepared`: the specialists' records exist; they are inserted by a plain
  INSERT, so the collection can do this once for a run.
* `claims`: what polls remember (`ClaimedJob` and the attempt id). `current`
  is the attempt the handler works on, which differs from `attempt`, the one the
  engine knows, after a rewrite.
* `down`: workers that no longer poll. A crash also erases their claims; a
  shutdown, or a poll that rejects (the scheduler rethrows it), lets the
  attempts at work finish.

| Action | Code |
|---|---|
| `Create`, `CancelResearchRun`, `RetryResearchRun` | `researchApiRepository.ts`, `researchCancellationCommand.ts`, `researchRunCommands.ts` |
| `ActivateNextRun` | `leaseEnginePostgresAdmission.ts`: close one exhausted run, otherwise start a queued one |
| `Claim` | `claimNextJob` |
| `ReserveAtCapacity`, `ReserveDeclined`, `ReserveExhausted`, `ReserveThrows`, `Launch` | the exits of `PostgresLeaseEngineStore.reserve`, in its order |
| `Release`, `Heartbeat` | `release`, `heartbeat` |
| `PersistJobs`, `StageSpecialists`, `ReleaseSystemCollectionReservation` | end of the collection handler |
| `CommitAcceptedOutput`, `RejectFinally`, `RejectForRewrite`, `ConsumeReplacementBudget`, `MarkReplacementRunning` | agent-output commit and rewrites |
| `CommitRequestedCancellation`, `CommitAttempt`, `CommitStale` | the exits of `commitAttempt` |
| `RecoverExpired` | `recoverExpiredAttempts`, with `recoverCancelledRuns` before it |
| `StageReview`, `PublishReport`, `TerminalizeWorkflowFailure` | coordinator and publication |
| `Crash`, `Shutdown`, `Restart`, `LeaseTick` | processes and time |

### How `StageRecovery` corresponds to the code

`coordinator[w]` is one call of `advanceExclusive`: the stage it is at, where in
that stage, and what it has read (`seen`: the failure count, or the version of
the run). Calls for one run in one process wait for each other (`runTails`), so
one record per worker is enough; a second worker is a second process at
failover. `afterCommit` is `notices`: it does not ask whether the run is
running, `resumeActiveRuns` does. A coordinator that meets the end of its
advance, or an exception, goes back to `AtRest`.

| Action | Code |
|---|---|
| `Begin` | `afterCommit` or `resumeActiveRuns` |
| `Replay` | `acceptedStructuralAudit`, `semantic.replay`, `chair.replay` and the decision on them |
| `Check` | `stageRecoveryState` |
| `AuditStructure`, `StageRound` | `persistStructuralAudit`, `semantic.stage`, `chair.stage` |
| `LoadAuthority`, `PublishReport` | `loadReportAuthority`, `publishReportAtomically` |
| `ReadFailures`, `ScheduleStageRecovery` | the SELECT and the upsert of `scheduleStageRecovery`, which hold no lock in between |
| `ReadRun`, `TerminalizeWorkflowFailure` | `terminalizeWorkflowFailure` |
| `ClearStageRecovery` | `clearStageRecovery` |
| `HandlerLoads`, `HandlerPublishes` | `chairSynthesisHandler.ts` after its commit |
| `Launch`, `Accept`, `Reject`, `Fail`, `RecoverExpired` | the engine and the commit of outputs, without leases |
| `Create`, `Activate`, `CancelResearchRun`, `RetryResearchRun` | web commands and activation, for one run |

### How the services correspond to the code

The services share no state with each other, so one instance checks them side
by side: in `MCServices` and `MCLiveness` a variable `focus` picks, in the
initial state, the component that takes steps while the others rest. A
violation of a property of one component is a behaviour with that focus. The
account of the run subscribes before its first request; that it may change or
lose its plan at any time, the free plan included, stays. What is checked of its
credits is also proved, there for every plan it may start with.

**`AccountCredits`** has one action per transaction, with one exception: an
admission reads the used credits, then the reserved ones, in two statements of
one transaction. PostgreSQL's default isolation is per statement, so these are two
steps: `LockAccount` (lock and first read) and `ReserveResearchCredits` or
`ConsumeCredit` (second read, decision, commit). What is recorded between the
lock and the first read is as if it had been recorded before the lock.

| Action | Code |
|---|---|
| `BeginResearch`, `BeginConsumption` | `researchApiCreation.ts` up to the reservation; the room and translation routes |
| `LockAccount` | the entitlement `FOR UPDATE`, and `usedCredits` |
| `ReserveResearchCredits` | `reserveResearchCredits`, `grantedCredits` and `reservedResearchCredits`, with `ensureCreditGrant` |
| `ConsumeCredit` | `consumeResearchRoomCredit`, `consumeResearchTranslationCredit` |
| `CreateRun`, `ReleaseResearchCredits` | `repository.create` and the release after it failed |
| `ReadRun`, `RecordResearchRun` | pages, lists and streams: `recordResearchRun` |
| `ExpireReservation` | `expires_at` of a reservation |
| `MoveRun`, `NextPeriod`, `ChangePlan` | environment: the engine, the clock, the payments |

`unseen` is history: the runs charged between the two reads of the holder of the
lock. **`BillingWebhooks`**: `Deliver` is the whole transaction of
`handleWhopWebhook`; the provider's actions (`MembershipStarts`,
`MembershipEnds`, `PaymentOrCancellation`) are external. **`TranslationJobs`**:
`RequestTranslation` is `consumeResearchTranslationCredit` with the admission
`requestResearchTranslation` in its transaction; `ClaimTranslation`,
`HeartbeatTranslation`, `Translate`, `SettleSuccess` and `SettleFailure` are the
parts of `runResearchTranslationJob`, in its order, and the settlements may lose
their answer with or without their effect (`unheard` is history: the jobs whose last
success was written so). `Served` is what the translation route answers with a
translation. **`StockPreparation`**:
`SaveOnboardingInterests`, `ClaimStockPreparation`, `HeartbeatPreparation`,
`CollectSources`, `FinishStockPreparation`, and for research `PollPreparation`,
`DeadlinePasses`, `BypassPreparation` (`waitForStockPreparation`).
**`BriefingScheduler`**: `ListAudience`, `ListBriefingEditionKeys`,
`CollectAndSynthesize`, `SaveBriefingEdition`, `StockFails` and `CycleEnds` are
`runBriefingCycle`; `Tick` and `RunForMarketDate` its two callers.

### Abstractions of the services

* Times are flags that time clears: a lease is live or not, a reservation there
  or expired, a preparation available or not. A lease whose holder still works
  runs out only as a fault (a stall), which the bound on faults limits.
* A token is the number of a claim; the code compares random tokens for equality.
* `AccountCredits`: one account, one month's grants and one free grant; costs are
  positive and taken from a request's target. Kinds of usage that spend nothing,
  chat credits and restored grants are left out. A reservation counts in its
  month, as the query has it.
* `BillingWebhooks`: a trial counts as active, events find their account, and the
  analytics flag is on.
* `TranslationJobs`: one report and one language; whether the reader has the
  credits is `AccountCredits`' subject.
* `StockPreparation`: what is collected is left out; research runs are one flag.
* `BriefingScheduler`: one market day; the contents of editions and the reading of
  them are left out, and members keep their plan and language.

### Abstractions of `StageRecovery`

* The rounds before the structural audit are complete. `cancelled` stands for
  `cancelling` as well: both refuse every transition of the coordinator.
* Leases are the subject of `LeaseEngine`: a job has the worker that executes it,
  and becomes nobody's when that worker stops.
* The queries of one replay are read at once. A failure is one that recovery
  retries or one that ends the run (`isRecoverableWorkflowFailure` decides on
  its code); which one it is, is open. The dispositions `item_omitted`
  and `quality_degraded` return without a record; no code under `src/` produces
  their reasons.
* Left out: the chair-resume exception, the refresh of the chair's output schema
  while it waits, the legacy roster, the qualities recorded as metrics, and
  exceptions other than that of a transition that lost its race.
* `tries` is history: the failed tries since the stage last succeeded.

### Abstractions of `LeaseEngine`

* Leases are countdowns in ticks; time passes per job, which only adds
  behaviours. `assertCurrentLease` compares the expiry with the time read before
  the claim, so it cannot fail by expiry, and the model does not test it there.
* Retry delays and the circuit that holds back a job after repeated transient
  failures are left out: they delay a claim, and nothing here relies on a claim
  happening. The order in which queued runs and jobs are picked is left open.
* The execution backends share one capacity. Follow-up calls have a budget
  column of their own, which is left out with the round that uses it.
* The rounds after the memos are one job, `ReviewKey`.
* Outcomes: `transient` and `attention` are one class; `repair` the other;
  `permanent`, `incomplete` and `rights_failure` fail the job, and only
  `permanent` makes the run `failed`.
* Question jobs, the chair-resume permit, events, artifacts and idempotency keys
  are left out.

### Bounds

`MaxAttempts`, `MaxToken`, `MaxOutages` and `MaxResumes` bound counters the code
does not bound; each is a guard (an action that would pass it is not taken). The
other constants are parameters of the code with small values. Two claims of a
job (`MaxToken = 2`) are enough for a take-over and a late commit; four attempts
let a collection, a memo, its rewrite and a retry exist together; a run of three
keys has a collection, a memo and a review, which every guard over "all
memos" and "all jobs" distinguishes.

In `StageRecovery`, `MaxOutages` and `MaxResumes` bound crashes and retries; the
failure limit is 2 instead of 4 (one failure that is retried, one that is
final), the attempts per artifact 2 instead of 4, so that an exhausted artifact,
a rewrite and a transient retry all occur. `MaxPhysicalLaunches` is what is left
of the budget for the two jobs. `overlap` gives two workers one failure each and
no crash: what it adds to `stages` is the interleaving of two advances.

In `MCServices` there are two of everything: two requests and keys, two
memberships with three events, two symbols, accounts and loops with one fault and one
research, two stocks, members (one per language) and schedulers with one setback
and two editions. Two requests give every race of two transactions with a
reader; the request that follows a completed run is the second. One change of
plan or month lets an upgrade, a downgrade and a new month occur; three events
an upgrade and the end of what it replaced. The costs and allowances make both
answers of an admission possible at every balance. Requests, keys, memberships,
symbols, accounts, loops and schedulers are interchangeable, and one swap of two
values is applied to requests, memberships, symbols and schedulers at once, another
to keys, accounts and loops; stocks and members have an order or a language, and
are not. `MCLiveness` uses no symmetry. There
the translations have two readers, loops and jobs, one fault and one retry;
preparations two symbols and one loop; briefings one stock, two members and two
setbacks; and stages the instance of `stages` without outages and retries.

## 3. Runs

| Run | Instance | Shows |
|---|---|---|
| `takeover` | two workers, one run | `OneExecutor`, `AcceptedOnce`: nothing a late or overtaken worker does gives a job two executors or two results |
| `resume` | one worker, one retry by the owner | `IInv` (the invariant of the proofs, which contains `TypeOK`), `BudgetLedger`, `LaunchLimits`: calls are charged exactly for what was launched, ordinals are distinct, rewrites bounded; `CancellationIsClean`, and `KeepsContract`: the refinement |
| `two_runs` | two runs, one run slot | `Capacity` |
| `live` | one worker, one outage, fairness | `CancellationConverges`, `SlotsComeBack` |
| `stages` | `StageRecovery`: one worker, two failures per stage, one crash, one retry | `IInv` (the invariant of the proofs), `RecoveryIsBounded`: a failing stage gets `MAX_STAGE_FAILURES` tries, plus one for a crash that forgot a failure, and `GivenUpAfterItsTries`: a stage that is given up had them |
| `overlap` | two workers | `StagesInOrder`, `KeepsContract` while two coordinators and the chair's handler interleave |
| `services` | `MCServices` | credits: `AdmissionsAreCovered`, `NoDoubleCount`, `OnlySuccessIsCharged`, `UpgradesGrantTheDifference`, `HeldForARun`, and `KeepsCreditContract`: the refinement; payments: `NewestEventDecides`, `UpgradeSurvivesTheOldEnd`, `PaidStaysPaid`; preparations: `OnePreparationAtATime`, `OnlyTheLastClaimCompletes`; briefings: `RepeatsOverlap`, `SteadyWatchersAreServed`; and their types |
| `liveness` | `MCLiveness`, fairness | `RunsEnd`: a running run does not stay running; `ChargesSettle`: a charge for a translation does not stay pending; `ResearchIsNotHeldUp`: optional preparation does not block paid research; `SteadyWatchersAreBriefed`; and the safety of translations: `PendingMeansOpen`, `PaidIsServed`: who paid for good is served, unless the answer to the last success was lost, and `LateSettlementsAreIgnored` |

`CHECK_DEADLOCK FALSE`: a run that is published or cancelled stops, and so does
an instance whose counters are used up.

Each of these runs finds a disagreement between the code and what the
repository says of it (`findings` in `PROJECT.json`):

| Run | What the code does | What is said |
|---|---|---|
| `stale_launch` | recovery takes back a live lease; the launch it overtakes throws and stops the worker | `leaseEngineBudget.ts`: decline it instead of crashing the loop |
| `exhausted_restart` | after a stop between the record of an exhausted stage and the end of the run, the run stays running | `research-system-guide.ko.md`: recorded failures are processed after a restart |
| `balance_bypass` | a run recorded as completed between the two reads of an admission is counted in neither: a translation is admitted past the balance | `docs/security/2026-10-05-hardening.md:14`: concurrent requests cannot bypass the available balance |
| `two_preparations` | a heartbeat renews a lease that ran out after another stock was claimed: two preparations are live | `docs/plans/onboarding-research-prefetch-2026-09-15.md:38`: one global background preparation at a time |

Further disagreements met while modelling, which have no run of their own:

* the next ordinal is `MAX(ordinal) + 1` while the budget counts rows
  (`launchRepository.ts:91`): after the collection gave its ordinal back, a launch
  can throw where `docs/architecture/research-runtime.md:69` has an exhausted
  budget yield `incomplete`;
* launches that failed transiently count towards `replacement_exhausted`
  (`semanticAuditAuthority.ts:268`, against `leaseEngineBudget.ts:76`);
* recovery of expired attempts updates jobs that have already failed, too
  (`leaseEnginePostgresRecovery.ts:152`; `domain/jobStateContracts.ts` gives
  terminal jobs no transition): the cause of `stale_launch`;
* a running run with nothing at work is cancelled directly
  (`researchCancellationCommand.ts:99`), which `RUN_TRANSITIONS` does not list;
* a retry queues the stopped run itself (`researchRunCommands.ts:195`), where
  `docs/architecture/research-runtime.md:61` has it create a child run;
* specialists' records and their jobs are written by two transactions
  (`initialCollectionHandler.ts:613`): a stop in between strands the run;
* the coordinator counts the ordinal of a launch that is at work, so it ends the
  run while the last permitted launch of an artifact runs
  (`semanticAuditAuthority.ts:264`);
* a refusal by the editorial gate is recoverable, and ends as
  `automatic_recovery_exhausted`
  (`workflowStageRecovery.ts:49`, against `officialWorkflowCoordinator.test.ts:52`).

Three consequences of the failure count are not counted as findings. It is read and
written without a lock, so overlapping coordinators can lose a failure or
write a row after the other one cleared it; `RecoveryIsBounded` is therefore
checked for one coordinator. For the same reason a coordinator that read the count
before the owner retried the run writes it back after the retry reset it: the
stage is then given up with fewer tries than it has, so `GivenUpAfterItsTries` is
stated until the owner retries (without that condition TLC finds this behaviour with
one coordinator). And a stage exhausted while its run is not running
(an `afterCommit` on a run that a retry queued again) leaves a row that no one
acts on once the run starts; it takes all failures of the stage to happen there,
and `liveness` has no retry.

Known behaviours of the services that no property forbids:

* a free plan's credits are spent once, but its reservations are counted in their
  month only: a reservation made just before the month ends is not counted after
  it;
* a request that loses its run to another with the same idempotency key, after it
  has reserved, keeps its reservation until it expires after a day
  (`HeldForARun` names the three reasons for such a hold);
* a failed run that its owner retries reserves nothing again: its reservation was
  dropped when the failure was read, and its success is charged nevertheless;
* a translation whose success is written and loses its answer is marked failed by its
  own loop under the same token (`researchTranslationJobs.ts:114`); the charges are
  final by then, so nobody is refunded, and the route refuses the readers who paid with
  502 (`translation/route.ts:111`) until one of them asks to retry and the retry
  succeeds. `docs/security/2026-10-05-hardening.md:14` has the settlement mark completion or
  refund. `PaidIsServed` allows this case alone, through the history variable
  `unheard`; without the exception TLC finds it in six states. The job paid for
  is meant: a report that changes is another job, which runs without a new charge;
* a newer `cancel_at_period_end_changed`, which names no plan, moves the time of the
  entitlement: a delayed older activation is then taken for stale;
* two schedulers that both look before either writes send an edition twice
  (`RepeatsOverlap` says that this is the only way).

Every property of a passing run has a mutant: an operator named `(mutant)` in
its module, a plausible bug of the definition it replaces, with which TLC
finds the property violated.

### Fairness (`FairSpec`)

Weak fairness is assumed of the steps the code schedules whatever happens:

* a poll, once it claimed a job, goes on, and a handler ends and is committed: it is
  awaited by the poll, and aborted when it shows no activity for its limit;
* leases expire, because they are dates, also those of a worker that died;
* `RecoverExpired`: every turn of every worker's loop calls it, and a stopped
  worker is restarted by its supervisor (`Restart`).

Nothing is assumed of the owner, of claims, of heartbeats or of outcomes.

In `StageRecovery` weak fairness is assumed of activation, of each worker's
coordinator (`reconcile` is called on every turn of the loop and awaited), of
launches and handlers of each job, of the chair's handler, of recovery, of
restarts and of the retry times, which are dates. It supposes that `reconcile` does not throw for
ever: a coordinator that always throws keeps its worker from polling.

Of the services: each translation loop goes on (its process polls for ever), and the
lease of an abandoned job runs out, because it is a date; a handler that waits for a
preparation keeps polling and has a deadline; a scheduler ticks every minute and
works through its cycle. Nothing is assumed of readers, of heartbeats, of preparers or of
failures. In `MCLiveness` nothing that is treated fairly is enabled in the initial
state of a component that rests, so the fairness of one constrains no other.

## 4. Proofs

### `LeaseEngineProofs`

Proved for every value of the constants that satisfies `KeysAreDistinct`,
`NullsAreFresh` and `BoundsAreNatural`:

* `Invariance`: `Spec => []IInv`
* `TypeCorrect`: `Spec => []TypeOK`
* `OneExecutorAlways`: `Spec => []OneExecutor`
* `AcceptedOnceAlways`: `Spec => []AcceptedOnce`

`OneExecutor` is not inductive: that the attempt a worker has just replaced is
not at work any more follows from what the worker remembers of its claim, and
that a job in a process status has a live attempt follows from where its pointer
leads. `IInv` therefore adds: attempts belong to jobs that exist
(`AttemptsHaveJobs`), the pointer of a job leads to an attempt of that job
(`PointersResolve`), an attempt at work is the one its job names and the job is
executing or was failed by an exhausted budget (`ActiveIsCurrent`), an executing
job has a live attempt and an owner (`ExecutingIsActive`), a claim names attempts
of its job (`ClaimsNameTheirAttempts`) and a requested cancellation means a
cancelling run. `AcceptedOnce` is part of it because a commit that accepts relies
on the pointer.

The proof has one lemma per action. Three lemmas carry the argument and the
others apply them: `ExecutionEnds` (an attempt and its job stop together),
`ExecutionBegins` (a fresh attempt takes over a job whose others have stopped)
and `ManyGivenUp` (retry and recovery give up many attempts at once).

### `LeaseContractProofs`

On top of `Invariance`, for the same constants:

* `RunsAndJobsAgree`: `Spec => []EInv`
* `CancellationIsCleanAlways`: `Spec => []CancellationIsClean`
* `EngineKeepsTheContract`: `Spec => KeepsContract`
* `EngineMovesAsSeen`: `Spec => AccountsSeeTheirMoves`
* `CapacityAlways`: `Spec => []Capacity`
* `LaunchLimitsAlways`: `Spec => []LaunchLimits`
* `BudgetLedgerAlways`: `Spec => []BudgetLedger`

The last two assume `MaxAttemptsPerLogicalArtifact > 0`: the engine asks for that limit
when it replaces an attempt, not at the first one.

`IInv` says which attempt a job has, not what its run permits. `EInv` adds, for
every run, what its status says of its jobs: a job that executes belongs to a run that
is running, incomplete or completed (`ExecutesForRun`); a job that failed and left its attempt
behind belongs to an incomplete run (`OrphansOfIncomplete`), which is why recovery
can bring it back only there; a cancelling run has a job left that was asked to
stop, and neither it nor a cancelled one a queued or leased job; the last output
exists only after the others, and a completed run has it. Of claims it adds
that only a collection is prepared, staged and released.

`StepFits` says what a step must do besides keeping this: every run moves along
an edge of `RunContract` with its accepted outputs unchanged, or gains one output
in a status that allows it (`RunPromised`); and no job takes a process slot, or one
does while there is room (`SlotsKept`). Each action has a lemma that it fits. They rest
on a few frames: `OneRun` (all other runs stay as they are), `OneJobMoves` (one
job changes its status), `RunMoves` (a run changes its own) and
`EngineCommits` (an attempt ends and its job takes one of four statuses). From
`StepFits` follow the refinement (`PromisedIsContract`) and the limits
(`LimitsKept`: a set that gains one element while there is room stays bounded).

The limits and the ledger add three parts to `EInv`. `HistoryInv` is about all attempts
ever born: ids are given in order (`BirthsInOrder`) and a job names the latest of its
own (`PointerIsLatest`), so an attempt about to be replaced has never been replaced
(`ReplacedOnce`), and an ordinal past all those of its run differs from each
(`OrdinalsDiffer`). `MemoryInv` is about a worker that read its job some steps ago:
while its lease is still the job's, what it read is still so (`ClaimIsCurrent`), which is
why it may launch on it. `LedgerInv` is `BudgetLedger` with what is under way: a run
whose collection is prepared but gave nothing back yet has one claim that will
(`ReturnedOnce`), and rewrites not charged yet are counted with those that are
(`RewritesAreCharged`), which is what a crash between a rewrite and its charge
leaves. Most steps neither launch nor charge: `Quiet` is the frame they fit. `Birth` is
the one for a launch or a rewrite, and the rest are the charge and the refund.

### `StageRecoveryProofs`

Proved for every number of workers, failures, launches, crashes and retries,
from `NoWorkerIsFresh` and `LimitsAreNatural`:

* `StageInvariance`: `Spec => []IInv`
* `StagesInOrderAlways`: `Spec => []StagesInOrder`
* `StagesKeepTheContract`: `Spec => KeepsContract`
* `StagesMoveAsSeen`: `Spec => AccountSeesItsMoves`
* `RecoveryBoundedAlways`: `Workers = {w}` implies `Spec => []RecoveryIsBounded`
* `GivenUpAfterItsTriesAlways`: `Workers = {w}` implies `Spec => []GivenUpAfterItsTries`

`StagesInOrder` speaks of rows, but a coordinator decides by what it read some
steps ago: `IInv` adds, for every coordinator, that the stages before the one it
is at are accepted (`BuildsOnAccepted`), and that the chair's handler publishes
only after its chair is accepted. It is preserved by the steps of the others
because what is accepted stays so. `StepKeeps` is that argument; `CoordinatorOnly`,
`CoordinatorWorks` and `JobsOnly` apply it to the three kinds of steps, and each
action has a lemma on top of them.

The refinement needs more than that order: an output is accepted only for a run that executes or
was just given up. A round therefore executes only for such a run
(`ExecutesForRun`, part of an invariant of its own), and the accepted rounds and the
status are all that `NextPromised` looks at in a step.

The bound on tries counts where a failed try can be: in the row of the stage, with
the coordinator that has not recorded it yet, or lost with a process that died
(`TriesAreCounted`). While the coordinator has one to record, the row is below the
limit (`TriesBelowTheLimit`), because it checked the row on its way. Both rely on
there being one coordinator; two can overwrite each other's count. That a stage has
had its tries is the other direction (`FailuresAreTries`): what the row counts, and
what the coordinator is about to write, are tries that failed, because a success
clears both. A retry by the owner clears the row under a coordinator that has read it.

### Services

| Module | Theorems | Assumes |
|---|---|---|
| `AccountCreditsProofs` | `AdmissionsAreCoveredAlways`, `NoDoubleCountAlways`, `OnlySuccessIsChargedAlways`, `UpgradesGrantTheDifferenceAlways`, `HeldForARunAlways`, `AccountKeepsTheContract`, `CreditTypes` | finitely many requests, positive costs, natural allowances, a null that is no key |
| `BillingWebhooksProofs` | `NewestEventDecidesAlways`, `UpgradeSurvivesTheOldEndAlways`, `PaidStaysPaidAlways`, `BillingTypes` | a membership that is none |
| `TranslationJobsProofs` | `PendingMeansOpenAlways`, `PaidIsServedAlways`, `LateSettlementsAreIgnoredAlways`, `TranslationTypes` | finitely many jobs |
| `StockPreparationProofs` | `OnePreparationAtATimeAlways`, `OnlyTheLastClaimCompletesAlways`, `PreparationTypes` | nothing but the bounds |
| `BriefingSchedulerProofs` | `RepeatsOverlapAlways`, `SteadyWatchersAreServedAlways`, `BriefingTypes` | stocks are numbers, members read a language |

Each module proves its inductive invariant first, with a lemma per action:

* `CreditInv`. That an admission is covered relates what its holder read to what
  is there when it decides: `UsedCovers` says that the used credits it remembers
  fall short of the real ones by the runs in `unseen` at most. It is kept because
  only a recording can charge while the lock is held, and a recording adds the
  same run to both sides (`TotalCostAdd`); the targets that costs depend on do not
  change once a run is charged (`CoverageStays`). `RunsAreMade` and `ReadsAreReal`
  carry the other two: a run exists only after its transaction, and a success that was
  read stays a success, so a late recording finds what it saw.
* `HoldsInv`, on top of it, for `HeldForARun` and the refinement of `CreditContract`. A hold
  or a run belongs to a request that was given one (`HoldsAreAsked`), and being given
  one is remembered by the request itself: it is past its transaction and has a key
  (`AskedFor`, `KeysAreSet`). Each excuse of `HeldForARun` is passed on by the step that
  ends the one before: a reservation starts with a request that is to create its run,
  whoever finds the run of another has that run's key, and a fresh run has not been
  recorded. Three frames carry the steps: `UnaskedMoves` (a request without a hold),
  `AskedMoves` (one that has, or had, a hold), `RunsMove` (no request). `AccountStep`
  then names, for each step, the step of the contract or the stutter.
* `BillingInv`: once the newest event is processed the entitlement is as old as it
  (`NewestIsApplied`); the age of the entitlement is that of a processed
  event, so nothing processed later is newer without being the newest itself.
  `SurvivalInv` adds, for `UpgradeSurvivesTheOldEnd`, that a sent end tells of a
  membership that did end (`TalesAreTrue`), and that the entitlement is never older than
  what was applied to it (`AppliedIsPast`). A membership that ended does not come back
  (`Lives`), so no end that arrives late can be one of the membership in force.
* `TranslationInv`: no two loops work under the same claim (`ClaimsDiffer`, because
  tokens are claims that were made, `TokensAreClaims`). So a loop that still holds a
  job that succeeded wrote that success itself and has not heard of it
  (`HeldSuccessIsUnheard`): only such a loop can take a paid translation back.
* `PreparationInv`: tokens are the latest claim or none; live preparations that no
  late heartbeat has revived are one.
* `BriefingInv`: what a cycle has read is a part of the past: the audience has all
  steady watchers, and what it is about to save was missing when it looked.

### Engine and account

`AccountCredits` assumes of a run that it is created once, ends, and is taken up again
only after a failure (`MoveRun`, with the guard `MayMove` of `RunView`); `OnlySuccessIsCharged`
rests on it. `EngineMovesAsSeen` and `StagesMoveAsSeen` show that every step of the engine and of the
coordinators is such a move, or none, once statuses are read as the account
reads them (`SeenAs`). What holds of `AccountCredits` for these moves therefore holds with
the engine in the place of its environment.

### Model-checked only

All safety properties that the passing runs check are proved. The liveness
properties (`RunsEnd`, `CancellationConverges`, `SlotsComeBack`, `ChargesSettle`, `ResearchIsNotHeldUp`,
`SteadyWatchersAreBriefed`) are not: liveness under fairness is out of the prover's reach.

## 5. Plan

1. (done) `LeaseEngine` with `RunContract`, runs and the first theorems.
2. (done) `StageRecovery`: failure counts per stage, two coordinators at
   failover, crash between record and transition, with its first theorems.
3. (done) `AccountCredits`, `BillingWebhooks`, `TranslationJobs`,
   `StockPreparation`, `BriefingScheduler`, with runs, liveness and theorems.
4. Left: the rounds before the structural audit with their staging conditions and
   the chair-resume exception; `WorkerRuntime` (advisory lock, failover) composed with `LeaseEngine`'s overlap
   of workers; events and their projection.

To repeat the checks: `tlc -workers 2 -config takeover.cfg MCLeaseEngine.tla`
for a run, `tlapm LeaseEngineProofs.tla`, and the other modules named `*Proofs`, for
the proofs.
