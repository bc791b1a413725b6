---------------------------- MODULE LeaseEngine ----------------------------
(***************************************************************************)
(* The research worker's lease engine: runs, jobs and attempts in          *)
(* Postgres, and the workers that claim, launch, commit and recover them.  *)
(* Every action is one committed transaction (or one statement outside a   *)
(* transaction); what a worker remembers between two of them is a claim.   *)
(*                                                                         *)
(* A run starts with its collection job, whose handler creates the         *)
(* specialist (memo) jobs; the coordinator adds the later rounds, which    *)
(* ReviewKey stands for, when every memo is accepted.                      *)
(*                                                                         *)
(* Leases are countdowns, not dates: a lease of 0 has expired.  The delay  *)
(* before a retry is finite and is left out, so a retry-wait job may be    *)
(* claimed at any time after.                                              *)
(***************************************************************************)
EXTENDS Integers, FiniteSets

CONSTANTS
  Runs, Workers,
  NoWorker,            \* lease_owner IS NULL
  NoJob,               \* the job of an attempt that does not exist yet
  CollectionKey,       \* logical key 'collection:initial'
  MemoKeys,            \* logical keys 'memo:...'
  ReviewKey,           \* stands for the rounds the coordinator stages
  MaxAttempts,         \* bound: attempts that may ever exist
  MaxToken,            \* bound: claims of one job
  MaxOutages,          \* bound: worker crashes and shutdowns
  MaxResumes,          \* bound: retries of a stopped run by its owner
  LeaseTicks,          \* leaseMs in ticks
  MandatoryFirstAttempts, MaxRequiredReplacements, MaxPhysicalLaunches,
  MaxAttemptsPerLogicalArtifact,      \* CALL_BUDGET_POLICY
  GlobalCodexProcesses, JobsPerRun, RunCapacity, QueuedRuns

Keys == {CollectionKey, ReviewKey} \cup MemoKeys
Jobs == Runs \X Keys
AttemptIds == 1..MaxAttempts
None == 0              \* attempt_id IS NULL

ASSUME KeysAreDistinct ==
  /\ CollectionKey # ReviewKey
  /\ CollectionKey \notin MemoKeys /\ ReviewKey \notin MemoKeys
ASSUME NullsAreFresh == NoWorker \notin Workers /\ NoJob \notin Jobs
ASSUME BoundsAreNatural ==
  /\ MaxAttempts \in Nat /\ MaxToken \in Nat /\ MaxOutages \in Nat
  /\ MaxResumes \in Nat /\ LeaseTicks \in Nat \ {0}
  /\ MandatoryFirstAttempts \in Nat /\ MaxRequiredReplacements \in Nat
  /\ MaxPhysicalLaunches \in Nat /\ MaxAttemptsPerLogicalArtifact \in Nat
  /\ GlobalCodexProcesses \in Nat \ {0} /\ JobsPerRun \in Nat \ {0}
  /\ RunCapacity \in Nat \ {0} /\ QueuedRuns \in Nat \ {0}

VARIABLES
  run,        \* runs: status, remaining base calls, replacement calls left,
              \* permanent = a permanent failure is among its events
  job,        \* jobs, with the class of their worker-retry record
  attempt,    \* attempts, with their row of research_call_ordinals
  prepared,   \* runs whose specialist-round-job records exist
  claims,     \* what the workers' polls hold in memory
  down,       \* workers that no longer poll (stopping, or not running)
  outages, resumes

vars == <<run, job, attempt, prepared, claims, down, outages, resumes>>

RunStatuses == {"absent", "queued", "running", "cancelling", "completed",
                "cancelled", "failed", "incomplete"}
JobStatuses == {"absent", "queued", "leased", "spawn-reserved", "running",
                "retry-wait", "cancel-requested", "cancelled", "succeeded",
                "failed"}
AttemptStatuses == {"unborn", "spawn-reserved", "running", "unknown",
                    "succeeded", "failed", "cancelled"}
Classes == {"none", "transient", "repair"}
\* The phase of a claim: claimed -> (releasing | running); a collection then
\* goes prepared -> staged -> released; a rejected output goes rejected ->
\* charged -> running again with its replacement attempt.
Phases == {"claimed", "releasing", "running", "prepared", "staged",
           "released", "rejected", "charged"}

RunRecords == [status: RunStatuses, base: Nat, repl: Nat, permanent: BOOLEAN]
JobRecords == [status: JobStatuses, owner: Workers \cup {NoWorker},
               token: 0..MaxToken, lease: 0..LeaseTicks,
               attempt: AttemptIds \cup {None}, class: Classes]
AttemptRecords == [status: AttemptStatuses, job: Jobs \cup {NoJob},
                   replaces: AttemptIds \cup {None}, ordinal: Nat]
Claims == [owner: Workers, job: Jobs, token: 0..MaxToken,
           prior: AttemptIds \cup {None}, class: Classes, phase: Phases,
           attempt: AttemptIds \cup {None}, current: AttemptIds \cup {None}]

TypeOK ==
  /\ run \in [Runs -> RunRecords]
  /\ job \in [Jobs -> JobRecords]
  /\ attempt \in [AttemptIds -> AttemptRecords]
  /\ prepared \subseteq Runs
  /\ claims \subseteq Claims
  /\ down \subseteq Workers
  /\ outages \in 0..MaxOutages
  /\ resumes \in 0..MaxResumes

AbsentJob == [status |-> "absent", owner |-> NoWorker, token |-> 0,
              lease |-> 0, attempt |-> None, class |-> "none"]

Init ==
  /\ run = [r \in Runs |-> [status |-> "absent", permanent |-> FALSE,
              base |-> MandatoryFirstAttempts,
              repl |-> MaxRequiredReplacements]]
  /\ job = [j \in Jobs |-> AbsentJob]
  /\ attempt = [a \in AttemptIds |-> [status |-> "unborn", job |-> NoJob,
                                      replaces |-> None, ordinal |-> 0]]
  /\ prepared = {}
  /\ claims = {}
  /\ down = {}
  /\ outages = 0
  /\ resumes = 0

-----------------------------------------------------------------------------
(* What the queries of the engine ask. *)

RunOf(j) == j[1]
KeyOf(j) == j[2]
JobsOf(r) == {r} \X Keys

TerminalJob == {"cancelled", "succeeded", "failed"}
\* Jobs that hold or ask for a process, counted by reserve.
ProcessJob == {"spawn-reserved", "running", "cancel-requested"}
ActiveStatuses == {"spawn-reserved", "running"}

PendingIn(jobs, r) ==
  {j \in JobsOf(r) : jobs[j].status \notin TerminalJob \cup {"absent"}}
Pending(r) == PendingIn(job, r)
Expired(j) == job[j].owner # NoWorker /\ job[j].lease = 0
LiveLeases(r) == {j \in JobsOf(r) : /\ job[j].status \in ProcessJob \cup {"leased"}
                                    /\ job[j].lease > 0}
ActiveAttempts == {a \in AttemptIds : attempt[a].status \in ActiveStatuses}
AttemptsOf(r) == {a \in AttemptIds : attempt[a].job \in JobsOf(r)}
Burned(r) == {a \in AttemptsOf(r) : attempt[a].ordinal # 0}
Replacements(r) == {a \in AttemptsOf(r) : attempt[a].replaces # None}
LogicalAttempts(j) ==
  1 + Cardinality({a \in AttemptIds : attempt[a].job = j /\ attempt[a].replaces # None})
\* (mutant) COUNT + 1 instead of MAX + 1.
IsNextOrdinalByCount(r, o) == o = Cardinality(Burned(r)) + 1
\* MAX(ordinal) + 1 of a run.
IsNextOrdinal(r, o) ==
  /\ \A a \in Burned(r) : attempt[a].ordinal < o
  /\ o = 1 \/ \E a \in Burned(r) : attempt[a].ordinal = o - 1
ActiveRuns == {r \in Runs : run[r].status \in {"running", "cancelling"}}
RunsIn(status) == {r \in Runs : run[r].status = status}
Up == Workers \ down

\* randomUUID, as the next number.
IsFresh(a) == /\ attempt[a].status = "unborn"
              /\ \A b \in AttemptIds : b < a => attempt[b].status # "unborn"

\* lease_owner = NULL, lease_expires_at = NULL.
Unleased(rec, status) ==
  [rec EXCEPT !.status = status, !.owner = NoWorker, !.lease = 0]
Drop(c) == claims' = claims \ {c}
Advance(c, phase) == claims' = (claims \ {c}) \cup {[c EXCEPT !.phase = phase]}

-----------------------------------------------------------------------------
(* The web application's commands. *)

\* A new run, with its collection job; its id is new, so it has no rows yet.
Create(r) ==
  /\ run[r].status = "absent"
  /\ \A j \in JobsOf(r) : job[j].status = "absent"
  /\ Cardinality({s \in ActiveRuns : Pending(s) # {}}) <= RunCapacity
  /\ Cardinality(RunsIn("queued")) < QueuedRuns
  /\ run' = [run EXCEPT ![r].status = "queued"]
  /\ job' = [job EXCEPT ![<<r, CollectionKey>>].status = "queued"]
  /\ UNCHANGED <<attempt, prepared, claims, down, outages, resumes>>

\* Cancel: at once when nothing executes, otherwise by asking the workers.
CancelResearchRun(r) ==
  LET active == {a \in ActiveAttempts : attempt[a].job \in JobsOf(r)}
      Cancelled(j) ==
        CASE job[j].status \in {"queued", "leased", "retry-wait"} ->
               Unleased(job[j], "cancelled")
          [] job[j].status \in ActiveStatuses /\ active # {} ->
               [job[j] EXCEPT !.status = "cancel-requested"]
          [] OTHER -> job[j]
  IN /\ run[r].status \in {"queued", "running"}
     /\ run' = [run EXCEPT ![r].status =
                  IF active = {} THEN "cancelled" ELSE "cancelling"]
     /\ job' = [j \in Jobs |-> IF j \in JobsOf(r) THEN Cancelled(j) ELSE job[j]]
     /\ UNCHANGED <<attempt, prepared, claims, down, outages, resumes>>

\* Retry of a stopped run: the same run is queued again, and everything that
\* was not accepted waits for a new attempt.
RetryResearchRun(r) ==
  LET jobs == {j \in JobsOf(r) : job[j].status # "absent"}
      publicationOnly == \A j \in jobs : job[j].status = "succeeded"
      Requeued(j) ==
        LET waiting == IF job[j].status \in {"leased", "spawn-reserved",
                                             "running", "failed"}
                       THEN Unleased(job[j], "retry-wait") ELSE job[j]
        IN IF waiting.status = "retry-wait" /\ waiting.class # "none"
           THEN [waiting EXCEPT !.class = "transient"] ELSE waiting
  IN /\ resumes < MaxResumes
     /\ run[r].status \in {"failed", "incomplete"}
     /\ \/ publicationOnly
        \/ /\ \E j \in jobs : job[j].status \in {"queued", "leased",
                "spawn-reserved", "running", "retry-wait", "failed"}
           /\ Cardinality(Burned(r)) < MaxPhysicalLaunches
     /\ Cardinality(RunsIn("queued")) < QueuedRuns
     /\ run' = [run EXCEPT ![r].status = "queued"]
     /\ attempt' = [a \in AttemptIds |->
                      IF a \in ActiveAttempts /\ attempt[a].job \in JobsOf(r)
                      THEN [attempt[a] EXCEPT !.status = "unknown"]
                      ELSE attempt[a]]
     /\ job' = [j \in Jobs |-> IF j \in JobsOf(r) THEN Requeued(j) ELSE job[j]]
     /\ resumes' = resumes + 1
     /\ UNCHANGED <<prepared, claims, down, outages>>

-----------------------------------------------------------------------------
(* The engine's poll: activate, claim, reserve. *)

\* The status of a run whose every job has ended and one of them failed.
ExhaustedStatus(permanent) == IF permanent THEN "failed" ELSE "incomplete"
ExhaustedIn(jobs, r) ==
  /\ run[r].status = "running"
  /\ PendingIn(jobs, r) = {}
  /\ \E j \in JobsOf(r) : jobs[j].status = "failed"
Exhausted(r) == ExhaustedIn(job, r)

\* (mutant) Runs that are being cancelled do not count.
RunSlotFreeOfRunning == Cardinality(RunsIn("running")) < RunCapacity
\* availableExecutionBackend, the backends taken together.
RunSlotFree == Cardinality(ActiveRuns) < RunCapacity

\* One exhausted run is closed; only when there is none, a queued run starts.
ActivateNextRun(r) ==
  /\ Up # {}
  /\ \/ /\ Exhausted(r)
        /\ run' = [run EXCEPT ![r].status = ExhaustedStatus(run[r].permanent)]
     \/ /\ \A s \in Runs : ~Exhausted(s)
        /\ RunSlotFree
        /\ run[r].status = "queued"
        /\ run' = [run EXCEPT ![r].status = "running"]
  /\ UNCHANGED <<job, attempt, prepared, claims, down, outages, resumes>>

Claim(w, j) ==
  LET token == job[j].token + 1 IN
  /\ w \in Up
  /\ Cardinality({c \in claims : c.owner = w}) < GlobalCodexProcesses
  /\ run[RunOf(j)].status = "running"
  /\ Cardinality(LiveLeases(RunOf(j))) < JobsPerRun
  /\ \/ job[j].status \in {"queued", "retry-wait"}
     \/ job[j].status = "leased" /\ Expired(j)
  /\ token <= MaxToken
  /\ job' = [job EXCEPT ![j] = [job[j] EXCEPT
       !.status = "leased", !.owner = w, !.token = token, !.lease = LeaseTicks]]
  /\ claims' = claims \cup
       {[owner |-> w, job |-> j, token |-> token,
         prior |-> job[j].attempt, class |-> job[j].class,
         phase |-> "claimed", attempt |-> None, current |-> None]}
  /\ UNCHANGED <<run, attempt, prepared, down, outages, resumes>>

AtCapacity ==
  Cardinality({j \in Jobs : job[j].status \in ProcessJob}) >= GlobalCodexProcesses

\* A launch after another one that is not a transient retry: a rewrite.
Rewrites(c) == c.prior # None /\ c.class # "transient"
\* (mutant) A transient retry is charged like a first attempt.
BudgetColumnOfEveryLaunch(c) ==
  IF c.class # "transient" /\ c.prior # None THEN "repl" ELSE "base"
\* The budget column a launch decrements.
BudgetColumn(c) ==
  IF c.class = "transient" THEN "none" ELSE IF c.prior # None THEN "repl" ELSE "base"

\* (mutant) The decrement without "AND column > 0".
OverBudgetWithoutColumn(c) ==
  Cardinality(Burned(RunOf(c.job))) >= MaxPhysicalLaunches
OverBudget(c) ==
  LET r == RunOf(c.job) IN
  \/ run[r].base > MandatoryFirstAttempts
  \/ run[r].repl > MaxRequiredReplacements
  \/ /\ Rewrites(c)
     /\ \/ LogicalAttempts(c.job) >= MaxAttemptsPerLogicalArtifact
        \/ Cardinality(Replacements(r)) >= MaxRequiredReplacements
  \/ Cardinality(Burned(r)) >= MaxPhysicalLaunches
  \/ BudgetColumn(c) = "base" /\ run[r].base = 0
  \/ BudgetColumn(c) = "repl" /\ run[r].repl = 0

\* (mutant) Only the owner is compared.
FenceHoldsByOwner(c) == job[c.job].owner = c.owner
\* assertCurrentLease: the expiry is compared with the time of the claim, so
\* it can only fail through the owner, the token or the status.
FenceHolds(c) == /\ job[c.job].status = "leased"
                 /\ job[c.job].owner = c.owner
                 /\ job[c.job].token = c.token

Reserving(c) == c \in claims /\ c.phase = "claimed"

\* No process is free: the claim is released in a statement of its own.
ReserveAtCapacity(c) ==
  /\ Reserving(c)
  /\ AtCapacity
  /\ Advance(c, "releasing")
  /\ UNCHANGED <<run, job, attempt, prepared, down, outages, resumes>>

\* The run ended after the claim: the launch is declined.
ReserveDeclined(c) ==
  /\ Reserving(c)
  /\ ~AtCapacity
  /\ run[RunOf(c.job)].status # "running"
  /\ Drop(c)
  /\ UNCHANGED <<run, job, attempt, prepared, down, outages, resumes>>

\* The budget is spent: the run stops as incomplete, its open jobs fail.
ReserveExhausted(c) ==
  LET r == RunOf(c.job) IN
  /\ Reserving(c)
  /\ ~AtCapacity
  /\ run[r].status = "running"
  /\ OverBudget(c)
  /\ run' = [run EXCEPT ![r].status = "incomplete"]
  /\ job' = [j \in Jobs |-> IF j \in Pending(r) THEN Unleased(job[j], "failed")
                            ELSE job[j]]
  /\ Drop(c)
  /\ UNCHANGED <<attempt, prepared, down, outages, resumes>>

CanReserve(c) == /\ Reserving(c)
                 /\ ~AtCapacity
                 /\ run[RunOf(c.job)].status = "running"
                 /\ ~OverBudget(c)

\* The lease moved on, or the next ordinal is past the limit: the transaction
\* rolls back, the poll rejects and the scheduler stops the worker.
ReserveThrows(c) ==
  /\ CanReserve(c)
  /\ \/ ~FenceHolds(c)
     \/ \A o \in 1..MaxPhysicalLaunches : ~IsNextOrdinal(RunOf(c.job), o)
  /\ Drop(c)
  /\ down' = down \cup {c.owner}
  /\ UNCHANGED <<run, job, attempt, prepared, outages, resumes>>

\* The budget column is charged, the attempt and its ordinal are written, and
\* job and attempt are running.
Launch(c) ==
  LET r == RunOf(c.job) IN
  /\ CanReserve(c)
  /\ FenceHolds(c)
  /\ \E o \in 1..MaxPhysicalLaunches, a \in AttemptIds :
       /\ IsNextOrdinal(r, o)
       /\ IsFresh(a)
       /\ attempt' = [attempt EXCEPT ![a] =
            [status |-> "running", job |-> c.job, ordinal |-> o,
             replaces |-> IF Rewrites(c) THEN c.prior ELSE None]]
       /\ job' = [job EXCEPT ![c.job].status = "running", ![c.job].attempt = a]
       /\ claims' = (claims \ {c}) \cup
            {[c EXCEPT !.phase = "running", !.attempt = a, !.current = a]}
  /\ run' = [run EXCEPT
       ![r].base = IF BudgetColumn(c) = "base" THEN @ - 1 ELSE @,
       ![r].repl = IF BudgetColumn(c) = "repl" THEN @ - 1 ELSE @]
  /\ UNCHANGED <<prepared, down, outages, resumes>>

\* At capacity, or when the worker is stopping, the claim goes back.
Release(c) ==
  /\ c \in claims
  /\ \/ c.phase = "releasing"
     \/ c.phase = "claimed" /\ c.owner \in down
  /\ Drop(c)
  /\ job' = IF FenceHolds(c)
            THEN [job EXCEPT ![c.job] = Unleased(@, "queued")] ELSE job
  /\ UNCHANGED <<run, attempt, prepared, down, outages, resumes>>

-----------------------------------------------------------------------------
(* A handler at work. *)

HoldsLease(c) == /\ job[c.job].owner = c.owner
                 /\ job[c.job].token = c.token
                 /\ job[c.job].lease > 0
Launched == {"running", "prepared", "staged", "released", "rejected", "charged"}

\* The heartbeat extends the lease, unless a cancellation was requested.
Heartbeat(c) ==
  /\ c \in claims
  /\ c.phase \in Launched
  /\ HoldsLease(c)
  /\ job[c.job].status # "cancel-requested"
  /\ job' = [job EXCEPT ![c.job].lease = LeaseTicks]
  /\ UNCHANGED <<run, attempt, prepared, claims, down, outages, resumes>>

Collects(c, phase) == /\ c \in claims
                      /\ KeyOf(c.job) = CollectionKey
                      /\ c.phase = phase

\* persistJobs: a plain INSERT of the specialists' records, so it can succeed
\* once for a run.
PersistJobs(c) ==
  /\ Collects(c, "running")
  /\ RunOf(c.job) \notin prepared
  /\ prepared' = prepared \cup {RunOf(c.job)}
  /\ Advance(c, "prepared")
  /\ UNCHANGED <<run, job, attempt, down, outages, resumes>>

\* The transition running -> running that inserts the specialists' jobs,
\* UNIQUE(run_id, logical_key).
StageSpecialists(c) ==
  LET r == RunOf(c.job) IN
  /\ Collects(c, "prepared")
  /\ run[r].status = "running"
  /\ \A k \in MemoKeys : job[<<r, k>>].status = "absent"
  /\ job' = [j \in Jobs |-> IF j \in {r} \X MemoKeys
                            THEN [AbsentJob EXCEPT !.status = "queued"] ELSE job[j]]
  /\ Advance(c, "staged")
  /\ UNCHANGED <<run, attempt, prepared, down, outages, resumes>>

\* Once the inputs are bound, the ordinal of this collection attempt is
\* deleted and its base call given back.
ReleaseSystemCollectionReservation(c) ==
  LET r == RunOf(c.job) IN
  /\ Collects(c, "staged")
  /\ attempt' = [attempt EXCEPT ![c.attempt].ordinal = 0]
  /\ run' = IF attempt[c.attempt].ordinal # 0
            THEN [run EXCEPT ![r].base = @ + 1] ELSE run
  /\ Advance(c, "released")
  /\ UNCHANGED <<job, prepared, down, outages, resumes>>

\* inspectAgentOutputBinding of an attempt that has no commit yet.
BindingActive(c) ==
  /\ c \in claims
  /\ c.phase = "running"
  /\ KeyOf(c.job) # CollectionKey
  /\ attempt[c.current].status = "running"
  /\ job[c.job].status = "running"
  /\ HoldsLease(c)

\* commitAcceptedAgentOutput.  The engine's own commit finds the job
\* succeeded and does nothing, so the claim ends here.
CommitAcceptedOutput(c) ==
  /\ BindingActive(c)
  /\ job[c.job].attempt = c.current
  /\ attempt' = [attempt EXCEPT ![c.current].status = "succeeded"]
  /\ job' = [job EXCEPT ![c.job] = Unleased(@, "succeeded")]
  /\ Drop(c)
  /\ UNCHANGED <<run, prepared, down, outages, resumes>>

RewriteRefused(c) ==
  LET r == RunOf(c.job) IN
  \/ run[r].repl = 0
  \/ Cardinality(Replacements(r)) >= MaxRequiredReplacements
  \/ LogicalAttempts(c.job) >= MaxAttemptsPerLogicalArtifact
  \/ \A o \in 1..MaxPhysicalLaunches : ~IsNextOrdinal(r, o)

\* rejectMalformedAgentOutput without a rewrite left: attempt and job fail.
RejectFinally(c) ==
  /\ BindingActive(c)
  /\ RewriteRefused(c)
  /\ attempt' = [attempt EXCEPT ![c.current].status = "failed"]
  /\ job' = IF job[c.job].attempt = c.current
            THEN [job EXCEPT ![c.job] = Unleased(@, "failed")] ELSE job
  /\ Drop(c)
  /\ UNCHANGED <<run, prepared, down, outages, resumes>>

\* rejectMalformedAgentOutput with one: a replacement attempt is reserved for
\* the job, under the same lease.
RejectForRewrite(c) ==
  LET r == RunOf(c.job) IN
  /\ BindingActive(c)
  /\ ~RewriteRefused(c)
  /\ job[c.job].attempt = c.current
  /\ \E o \in 1..MaxPhysicalLaunches, a \in AttemptIds :
       /\ IsNextOrdinal(r, o)
       /\ IsFresh(a)
       /\ attempt' = [attempt EXCEPT
            ![c.current].status = "failed",
            ![a] = [status |-> "spawn-reserved", job |-> c.job, ordinal |-> o,
                    replaces |-> c.current]]
       /\ job' = [job EXCEPT ![c.job].status = "spawn-reserved",
                             ![c.job].attempt = a]
       /\ claims' = (claims \ {c}) \cup
            {[c EXCEPT !.phase = "rejected", !.current = a]}
  /\ UNCHANGED <<run, prepared, down, outages, resumes>>

\* consumeReplacementBudget, a statement of its own; with nothing left it
\* throws and the handler ends.
ConsumeReplacementBudget(c) ==
  LET r == RunOf(c.job) IN
  /\ c \in claims
  /\ c.phase = "rejected"
  /\ IF run[r].repl > 0
     THEN run' = [run EXCEPT ![r].repl = @ - 1] /\ Advance(c, "charged")
     ELSE UNCHANGED run /\ Drop(c)
  /\ UNCHANGED <<job, attempt, prepared, down, outages, resumes>>

\* markReplacementRunning: each update has its own status guard and no fence.
MarkReplacementRunning(c) ==
  /\ c \in claims
  /\ c.phase = "charged"
  /\ attempt' = [attempt EXCEPT ![c.current].status =
                   IF @ = "spawn-reserved" THEN "running" ELSE @]
  /\ job' = [job EXCEPT ![c.job].status =
               IF job[c.job].attempt = c.current /\ @ = "spawn-reserved"
               THEN "running" ELSE @]
  /\ Advance(c, "running")
  /\ UNCHANGED <<run, prepared, down, outages, resumes>>

-----------------------------------------------------------------------------
(* The engine's commit of an attempt, with the attempt id of the launch: it *)
(* knows nothing of a replacement reserved by the handler.                  *)

\* What the handler can return in each phase.
Outcomes(c) ==
  CASE c.phase = "released" -> {"accepted"}
    [] c.phase \in {"prepared", "staged"} -> {"transient"}
    [] c.phase = "running" -> {"transient", "repair", "permanent", "incomplete"}
    [] OTHER -> {"repair"}

CancelCommits(c) == /\ job[c.job].status = "cancel-requested"
                    /\ job[c.job].attempt = c.attempt
                    /\ job[c.job].owner = c.owner
                    /\ job[c.job].token = c.token
\* (mutant) A commit that trusts the status alone.
CommitWithoutFence(c) == job[c.job].status = "running"
CommitFenceHolds(c) == /\ job[c.job].status = "running"
                       /\ job[c.job].attempt = c.attempt
                       /\ HoldsLease(c)

\* (mutant) The first job that stops finishes the cancellation.
CancelledAtOnce(r, jobs) ==
  IF run[r].status = "cancelling" THEN "cancelled" ELSE run[r].status
\* The status of a cancelling run once these jobs are cancelled.
CancelledWhenDone(r, jobs) ==
  IF run[r].status = "cancelling"
     /\ \A j \in JobsOf(r) : jobs[j].status # "cancel-requested"
  THEN "cancelled" ELSE run[r].status

CommitRequestedCancellation(c) ==
  LET r == RunOf(c.job) IN
  /\ c \in claims
  /\ c.phase \in Launched
  /\ CancelCommits(c)
  /\ job' = [job EXCEPT ![c.job] = Unleased(@, "cancelled")]
  /\ attempt' = [attempt EXCEPT ![c.attempt].status =
                   IF @ \in ActiveStatuses THEN "cancelled" ELSE @]
  /\ run' = [run EXCEPT ![r].status = CancelledWhenDone(r, job')]
  /\ Drop(c)
  /\ UNCHANGED <<prepared, down, outages, resumes>>

JobStatusAfter(outcome) ==
  CASE outcome = "accepted" -> "succeeded"
    [] outcome \in {"transient", "repair"} -> "retry-wait"
    [] OTHER -> "failed"

CommitAttempt(c, outcome) ==
  LET r == RunOf(c.job)
      status == JobStatusAfter(outcome)
      permanent == run[r].permanent \/ outcome = "permanent"
      retried == [job[c.job] EXCEPT !.class =
                    IF status = "retry-wait" THEN outcome ELSE @]
  IN /\ c \in claims
     /\ c.phase \in Launched
     /\ CommitFenceHolds(c)
     /\ job' = [job EXCEPT ![c.job] = Unleased(retried, status)]
     /\ attempt' = [attempt EXCEPT ![c.attempt].status =
          IF @ # "running" THEN @
          ELSE IF outcome = "accepted" THEN "succeeded" ELSE "failed"]
     /\ run' = [run EXCEPT ![r].permanent = permanent,
          ![r].status = IF ExhaustedIn(job', r) THEN ExhaustedStatus(permanent) ELSE @]
     /\ Drop(c)
     /\ UNCHANGED <<prepared, down, outages, resumes>>

\* The fence is gone: nothing is written.
CommitStale(c) ==
  /\ c \in claims
  /\ c.phase \in Launched
  /\ ~CancelCommits(c) /\ ~CommitFenceHolds(c)
  /\ Drop(c)
  /\ UNCHANGED <<run, job, attempt, prepared, down, outages, resumes>>

-----------------------------------------------------------------------------
(* Recovery of expired leases, by any worker's loop. *)

\* (mutant) Recovery forgets attempts that were reserved and never started.
ExpiredRunning ==
  {a \in ActiveAttempts : attempt[a].status = "running" /\ Expired(attempt[a].job)}
\* (mutant) Recovery looks at running runs only.
ExpiredOfRunningRuns ==
  {a \in ActiveAttempts : /\ Expired(attempt[a].job)
                          /\ run[RunOf(attempt[a].job)].status = "running"}
ExpiredAttempts == {a \in ActiveAttempts : Expired(attempt[a].job)}
CancelExpired(j) == /\ run[RunOf(j)].status = "cancelling"
                    /\ job[j].status = "cancel-requested"
                    /\ Expired(j)

\* recoverCancelledRuns, then every other expired attempt is unknown; then
\* every job whose attempt is unknown, whatever its status, waits for a retry.
RecoverExpired ==
  LET runs == {r \in Runs : \E a \in ActiveAttempts :
                 attempt[a].job \in JobsOf(r) /\ CancelExpired(attempt[a].job)}
      Cancelled(j) == runs # {} /\ CancelExpired(j)
      attempts == [a \in AttemptIds |->
        IF a \notin ExpiredAttempts THEN attempt[a]
        ELSE [attempt[a] EXCEPT !.status =
                IF Cancelled(attempt[a].job) THEN "cancelled" ELSE "unknown"]]
      cancelled == [j \in Jobs |-> IF Cancelled(j)
                      THEN Unleased(job[j], "cancelled") ELSE job[j]]
      Unknown(j) == /\ job[j].attempt # None
                    /\ attempts[job[j].attempt].status = "unknown"
  IN /\ Up # {}
     /\ ExpiredAttempts # {}
     /\ attempt' = attempts
     /\ job' = [j \in Jobs |->
          IF Unknown(j)
          THEN [Unleased(cancelled[j], "retry-wait") EXCEPT !.class = "transient"]
          ELSE cancelled[j]]
     /\ run' = [r \in Runs |-> [run[r] EXCEPT !.status =
          IF r \in runs THEN CancelledWhenDone(r, cancelled) ELSE @]]
     /\ UNCHANGED <<prepared, claims, down, outages, resumes>>

-----------------------------------------------------------------------------
(* The coordinator, as far as runs and jobs see it. *)

\* (mutant) The next round starts once the memos ended, accepted or not.
MemosEnded(r) == \A k \in MemoKeys : job[<<r, k>>].status \in TerminalJob
MemosAccepted(r) == \A k \in MemoKeys : job[<<r, k>>].status = "succeeded"

StageReview(r) ==
  /\ run[r].status = "running"
  /\ MemosAccepted(r)
  /\ job[<<r, ReviewKey>>].status = "absent"
  /\ job' = [job EXCEPT ![<<r, ReviewKey>>].status = "queued"]
  /\ UNCHANGED <<run, attempt, prepared, claims, down, outages, resumes>>

PublishReport(r) ==
  /\ run[r].status = "running"
  /\ job[<<r, ReviewKey>>].status = "succeeded"
  /\ run' = [run EXCEPT ![r].status = "completed"]
  /\ UNCHANGED <<job, attempt, prepared, claims, down, outages, resumes>>

\* A stage or the publication failed for good: only the run is touched.
TerminalizeWorkflowFailure(r) ==
  /\ run[r].status = "running"
  /\ MemosAccepted(r)
  /\ run' = [run EXCEPT ![r].status = "incomplete"]
  /\ UNCHANGED <<job, attempt, prepared, claims, down, outages, resumes>>

-----------------------------------------------------------------------------
(* Workers and time. *)

\* The process dies: what its polls held in memory is gone.
Crash(w) ==
  /\ outages < MaxOutages
  /\ w \in Up
  /\ outages' = outages + 1
  /\ down' = down \cup {w}
  /\ claims' = {c \in claims : c.owner # w}
  /\ UNCHANGED <<run, job, attempt, prepared, resumes>>

\* SIGTERM: no new poll, the attempts at work are aborted and committed.
Shutdown(w) ==
  /\ outages < MaxOutages
  /\ w \in Up
  /\ outages' = outages + 1
  /\ down' = down \cup {w}
  /\ UNCHANGED <<run, job, attempt, prepared, claims, resumes>>

Restart(w) ==
  /\ w \in down
  /\ \A c \in claims : c.owner # w
  /\ down' = down \ {w}
  /\ UNCHANGED <<run, job, attempt, prepared, claims, outages, resumes>>

LeaseTick(j) ==
  /\ job[j].lease > 0
  /\ job' = [job EXCEPT ![j].lease = @ - 1]
  /\ UNCHANGED <<run, attempt, prepared, claims, down, outages, resumes>>

-----------------------------------------------------------------------------

Poll(c) == \/ ReserveAtCapacity(c)
           \/ ReserveDeclined(c)
           \/ ReserveExhausted(c)
           \/ ReserveThrows(c)
           \/ Launch(c)
           \/ Release(c)
Handle(c) == \/ PersistJobs(c)
             \/ StageSpecialists(c)
             \/ ReleaseSystemCollectionReservation(c)
             \/ CommitAcceptedOutput(c)
             \/ RejectFinally(c)
             \/ RejectForRewrite(c)
             \/ ConsumeReplacementBudget(c)
             \/ MarkReplacementRunning(c)
Commit(c) == \/ CommitRequestedCancellation(c)
             \/ \E outcome \in Outcomes(c) : CommitAttempt(c, outcome)
             \/ CommitStale(c)

Next ==
  \/ \E r \in Runs : \/ Create(r)
                     \/ CancelResearchRun(r)
                     \/ RetryResearchRun(r)
                     \/ ActivateNextRun(r)
                     \/ StageReview(r)
                     \/ PublishReport(r)
                     \/ TerminalizeWorkflowFailure(r)
  \/ \E w \in Workers, j \in Jobs : Claim(w, j)
  \/ \E c \in claims : Poll(c) \/ Heartbeat(c) \/ Handle(c) \/ Commit(c)
  \/ RecoverExpired
  \/ \E w \in Workers : Crash(w) \/ Shutdown(w) \/ Restart(w)
  \/ \E j \in Jobs : LeaseTick(j)

Spec == Init /\ [][Next]_vars

-----------------------------------------------------------------------------
(* Safety. *)

\* At most one attempt of a job is ever at work: an attempt that may still
\* execute is the one its job names, and a job that counts as executing names
\* an attempt that may (worker takeover, rewrite inside an attempt, recovery
\* and the owner's retry all move this pointer).
OneExecutor ==
  /\ \A a \in ActiveAttempts : job[attempt[a].job].attempt = a
  /\ \A j \in Jobs : job[j].status \in ProcessJob =>
       /\ job[j].attempt \in ActiveAttempts
       /\ attempt[job[j].attempt].job = j
       /\ job[j].owner # NoWorker

\* A job has one accepted result at most, and it is accepted exactly when the
\* attempt it names is: no late commit of a lost attempt makes a second one.
AcceptedOnce ==
  \A a \in AttemptIds : \A j \in Jobs :
    attempt[a].job = j =>
      (attempt[a].status = "succeeded"
         <=> (job[j].status = "succeeded" /\ job[j].attempt = a))

Launches(r) == {j \in JobsOf(r) : job[j].attempt # None}
Refunded(r) == {a \in AttemptsOf(r) : attempt[a].ordinal = 0}

\* The call budget is a ledger: the base calls left are the grant minus one
\* per job ever launched, plus the one a finished collection gives back, and
\* no rewrite is charged that did not happen.
BudgetLedger ==
  \A r \in Runs :
    /\ run[r].base + Cardinality(Launches(r))
         = MandatoryFirstAttempts + Cardinality(Refunded(r))
    /\ Cardinality(Refunded(r)) <= 1
    /\ run[r].repl >= 0
    /\ MaxRequiredReplacements - run[r].repl <= Cardinality(Replacements(r))

\* The launches stay inside the policy of domain/callBudgetContracts.ts: the
\* ordinals are distinct, the physical and rewrite limits hold, and an attempt
\* is replaced once at most.
LaunchLimits ==
  /\ \A r \in Runs :
       /\ Cardinality(Burned(r)) <= MaxPhysicalLaunches
       /\ Cardinality(Replacements(r)) <= MaxRequiredReplacements
       /\ \A a, b \in Burned(r) : attempt[a].ordinal = attempt[b].ordinal => a = b
  /\ \A j \in Jobs : LogicalAttempts(j) <= MaxAttemptsPerLogicalArtifact
  /\ \A a, b \in AttemptIds :
       attempt[a].replaces # None /\ attempt[a].replaces = attempt[b].replaces => a = b

\* A cancelled run has nothing at work, and a run that is being cancelled has
\* a job left that will report it: neither a recovery nor a late reservation
\* brings it back to life.
CancellationIsClean ==
  \A r \in Runs :
    /\ run[r].status = "cancelled" =>
         \A j \in JobsOf(r) : job[j].status \notin ProcessJob \cup {"queued"}
    /\ run[r].status = "cancelled" =>
         \A a \in ActiveAttempts : attempt[a].job \notin JobsOf(r)
    /\ run[r].status = "cancelling" =>
         \E j \in JobsOf(r) : job[j].status = "cancel-requested"

\* The executing processes and the executing runs stay within their limits.
Capacity ==
  /\ Cardinality({j \in Jobs : job[j].status \in ProcessJob}) <= GlobalCodexProcesses
  /\ Cardinality(ActiveRuns) <= RunCapacity

-----------------------------------------------------------------------------
(* The inductive invariant behind OneExecutor and AcceptedOnce. *)

Exists(a) == attempt[a].status # "unborn"

\* An attempt belongs to a job from its birth on, and the job has a row.
AttemptsHaveJobs ==
  \A a \in AttemptIds :
    /\ Exists(a) => attempt[a].job \in Jobs
    /\ ~Exists(a) => attempt[a].job = NoJob
    /\ Exists(a) => job[attempt[a].job].status # "absent"

\* attempt_id of a job names an attempt of that job.
PointersResolve ==
  \A j \in Jobs : job[j].attempt # None =>
    /\ Exists(job[j].attempt)
    /\ attempt[job[j].attempt].job = j

\* Only an executing job has an attempt at work, except that the jobs failed
\* by an exhausted budget leave theirs behind.
ActiveIsCurrent ==
  \A a \in ActiveAttempts :
    /\ job[attempt[a].job].attempt = a
    /\ job[attempt[a].job].status \in ProcessJob \cup {"failed"}

ExecutingIsActive ==
  \A j \in Jobs :
    /\ job[j].status \in ProcessJob =>
         job[j].attempt \in ActiveAttempts /\ job[j].owner # NoWorker
    /\ job[j].status = "running" => attempt[job[j].attempt].status = "running"

\* What a worker remembers of its launch was true when it launched.
ClaimsNameTheirAttempts ==
  \A c \in claims : c.phase \in Launched =>
    /\ c.attempt \in AttemptIds /\ Exists(c.attempt) /\ attempt[c.attempt].job = c.job
    /\ c.current \in AttemptIds /\ Exists(c.current) /\ attempt[c.current].job = c.job

CancelOnlyWhileCancelling ==
  \A j \in Jobs : job[j].status = "cancel-requested" => run[RunOf(j)].status = "cancelling"

IInv == /\ TypeOK
        /\ AttemptsHaveJobs
        /\ PointersResolve
        /\ ActiveIsCurrent
        /\ ExecutingIsActive
        /\ ClaimsNameTheirAttempts
        /\ CancelOnlyWhileCancelling
        /\ AcceptedOnce

-----------------------------------------------------------------------------
(* The run's promise to its owner. *)

Contract == INSTANCE RunContract
  WITH Outputs <- MemoKeys \cup {ReviewKey},
       Final <- ReviewKey,
       status <- [r \in Runs |-> run[r].status],
       accepted <- [r \in Runs |-> {k \in MemoKeys \cup {ReviewKey} :
                                      job[<<r, k>>].status = "succeeded"}]

\* Every step of workers, recovery and commands is a step of the contract:
\* accepted outputs survive crashes, recovery and the owner's retry, nothing
\* is accepted once a cancellation began, and a report needs all of them.
KeepsContract == Contract!Spec

-----------------------------------------------------------------------------
(* Liveness.  Each poll is a task of its own whose handler ends (it is aborted *)
(* after a period without activity) and then commits; leases are dates, so     *)
(* they expire; every worker's loop recovers them; a supervisor restarts a     *)
(* worker that stopped.  Nothing is assumed of the owner or of new claims.     *)

Fairness ==
  /\ \A j \in Jobs, t \in 1..MaxToken :
       WF_vars(\E c \in claims : c.job = j /\ c.token = t /\ (Poll(c) \/ Commit(c)))
  /\ \A j \in Jobs : WF_vars(LeaseTick(j))
  /\ WF_vars(RecoverExpired)
  /\ \A w \in Workers : WF_vars(Restart(w))

FairSpec == Spec /\ Fairness

\* A run that is being cancelled becomes cancelled, also when the worker that
\* was asked died, or has replaced the attempt it would report.
CancellationConverges ==
  \A r \in Runs : run[r].status = "cancelling" ~> run[r].status = "cancelled"

\* A process slot is never lost: whatever happens to the worker, the job it
\* holds leaves the statuses that reserve counts.
SlotsComeBack ==
  \A j \in Jobs : job[j].status \in ProcessJob ~> job[j].status \notin ProcessJob

-----------------------------------------------------------------------------
(* What the repository says of the engine and the code does not do. *)

\* leaseEngineBudget.ts: a stale launch is declined, instead of crashing the
\* worker's polling loop (here one that no other claim has overtaken: its lease
\* was taken back while it was live).
StaleLaunchIsDeclined ==
  \A c \in claims : CanReserve(c) /\ job[c.job].token = c.token => FenceHolds(c)
=============================================================================
