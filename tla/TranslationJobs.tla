-------------------------- MODULE TranslationJobs --------------------------
(***************************************************************************)
(* The translation of one report into one language: the jobs its readers   *)
(* share, the worker loops that run them, and what each reader pays.       *)
(*                                                                         *)
(* A job is named by its input, so a report that changes is another job.   *)
(* A reader pays once for the report, with the first job requested; the    *)
(* charge is pending until that job ends.  A request is one transaction    *)
(* that charges and admits, and so is a settlement: both hold the job's    *)
(* row, so each is one action.  A loop's token is the number of its claim. *)
(* Whether a reader has credits is AccountCredits' subject.                *)
(***************************************************************************)
EXTENDS Integers, FiniteSets

CONSTANTS
  Readers, TranslationLoops, Translations,
  NoTranslation,
  MaxFailures,      \* bound: crashes, stalls and lost answers
  MaxRetries        \* bound: failed jobs that a reader queues again

ASSUME NoTranslationIsFresh == NoTranslation \notin Translations
ASSUME FinitelyManyTranslations == IsFiniteSet(Translations)
ASSUME TranslationBounds == MaxFailures \in Nat /\ MaxRetries \in Nat

VARIABLES
  translation,  \* research_report_translation_jobs
  charge,       \* each reader's usage event for this report and language
  loop,         \* what each worker loop is doing
  claims,       \* how many claims there were
  failures, retries,
  unheard       \* history: jobs whose last success no loop has heard of

translationVars ==
  <<translation, charge, loop, claims, failures, retries, unheard>>
TranslationBoundsUsed == <<failures, retries>>

TranslationRecords ==
  [status: {"none", "queued", "running", "succeeded", "failed"},
   created: Nat, token: Nat, leased: BOOLEAN]
ChargeRecords == [state: {"none", "pending", "final"},
                  translation: Translations \cup {NoTranslation}]
LoopRecords == [at: {"idle", "translating", "succeeded", "failed"},
                translation: Translations \cup {NoTranslation}, token: Nat]

TranslationTypeOK ==
  /\ translation \in [Translations -> TranslationRecords]
  /\ charge \in [Readers -> ChargeRecords]
  /\ loop \in [TranslationLoops -> LoopRecords]
  /\ claims \in Nat
  /\ failures \in 0..MaxFailures /\ retries \in 0..MaxRetries
  /\ unheard \subseteq Translations

Uncharged == [state |-> "none", translation |-> NoTranslation]
IdleLoop == [at |-> "idle", translation |-> NoTranslation, token |-> 0]

TranslationInit ==
  /\ translation = [j \in Translations |-> [status |-> "none", created |-> 0,
                      token |-> 0, leased |-> FALSE]]
  /\ charge = [r \in Readers |-> Uncharged]
  /\ loop = [l \in TranslationLoops |-> IdleLoop]
  /\ claims = 0 /\ failures = 0 /\ retries = 0 /\ unheard = {}

Open == {"queued", "running"}
Fault == failures < MaxFailures /\ failures' = failures + 1

-----------------------------------------------------------------------------
(* A reader asks: consumeResearchTranslationCredit with its admission. *)

\* requestResearchTranslation: the job is inserted, or taken as it is; a failed
\* one is queued again when the reader asks to try again, and refused if not.
Admitted(j, retry) ==
  CASE translation[j].status = "none" ->
         [translation[j] EXCEPT !.status = "queued", !.created =
            Cardinality({k \in Translations : translation[k].created # 0}) + 1]
    [] translation[j].status = "failed" /\ retry ->
         [translation[j] EXCEPT !.status = "queued"]
    [] OTHER -> translation[j]

ChargeFor(admitted) == IF admitted.status = "succeeded" THEN "final" ELSE "pending"

RequestTranslation(r, j, retry) ==
  LET admitted == Admitted(j, retry)
      requeues == translation[j].status = "failed" /\ retry
  IN /\ admitted.status # "failed"        \* thrown, and rolled back
     /\ requeues => retries < MaxRetries
     /\ retries' = IF requeues THEN retries + 1 ELSE retries
     /\ translation' = [translation EXCEPT ![j] = admitted]
     /\ charge' = IF charge[r].state = "none"
                  THEN [charge EXCEPT ![r] = [translation |-> j,
                                              state |-> ChargeFor(admitted)]]
                  ELSE charge
     /\ UNCHANGED <<loop, claims, failures, unheard>>

\* What the route answers with the translation; all else is 202 or 502.
Served(j) == translation[j].status = "succeeded"

-----------------------------------------------------------------------------
(* A loop: runResearchTranslationJob. *)

\* (mutant) Only what is queued is claimed.
QueuedOnly == {j \in Translations : translation[j].status = "queued"}
Claimable == {j \in Translations :
  \/ translation[j].status = "queued"
  \/ translation[j].status = "running" /\ ~translation[j].leased}

ClaimTranslation(l, j) ==
  /\ loop[l].at = "idle"
  /\ j \in Claimable
  /\ \A k \in Claimable : translation[j].created <= translation[k].created
  /\ claims' = claims + 1
  /\ translation' = [translation EXCEPT ![j].status = "running",
                       ![j].token = claims', ![j].leased = TRUE]
  /\ loop' = [loop EXCEPT ![l] = [at |-> "translating", translation |-> j,
                                  token |-> claims']]
  /\ UNCHANGED <<charge, TranslationBoundsUsed, unheard>>

\* (mutant) The token is not compared.
HoldsByJob(l, j) == loop[l].translation = j
Holds(l, j) == loop[l].translation = j /\ loop[l].token = translation[j].token

\* The heartbeat renews a lease that ran out as well, as long as no other loop
\* has claimed the job.
HeartbeatTranslation(l, j) ==
  /\ loop[l].at # "idle" /\ Holds(l, j)
  /\ translation[j].status = "running"
  /\ translation' = [translation EXCEPT ![j].leased = TRUE]
  /\ UNCHANGED <<charge, loop, claims, TranslationBoundsUsed, unheard>>

Translate(l) ==
  /\ loop[l].at = "translating"
  /\ \E at \in {"succeeded", "failed"} : loop' = [loop EXCEPT ![l].at = at]
  /\ UNCHANGED <<translation, charge, claims, TranslationBoundsUsed, unheard>>

\* (mutant) The rows are deleted.
DroppedCharges(j, to) ==
  [r \in {x \in Readers : ~(charge[x].state = "pending" /\ charge[x].translation = j)}
     |-> charge[r]]
\* (mutant) One of the charges ends.
SettledCharge(j, to) ==
  LET waiting == {r \in Readers : charge[r].state = "pending"
                                  /\ charge[r].translation = j}
  IN [r \in Readers |-> IF r \in waiting /\ r = CHOOSE x \in waiting : TRUE
                        THEN to ELSE charge[r]]
\* The charges that wait for job j end with it, as final or refunded.
SettledCharges(j, to) ==
  [r \in Readers |-> IF charge[r].state = "pending" /\ charge[r].translation = j
                     THEN to ELSE charge[r]]

\* What a settlement writes, if its token is still the job's.
Settles(l, j, status, to) ==
  IF Holds(l, j)
  THEN /\ translation' = [translation EXCEPT ![j].status = status,
                                                ![j].leased = FALSE]
       /\ charge' = SettledCharges(j, to)
  ELSE UNCHANGED <<translation, charge>>

Final(j) == [state |-> "final", translation |-> j]

\* The success is written, or the write fails with its effect or without it:
\* both of these continue as failures.
SettleSuccess(l, j) ==
  /\ loop[l].at = "succeeded" /\ loop[l].translation = j
  /\ \/ /\ Settles(l, j, "succeeded", Final(j))
        /\ loop' = [loop EXCEPT ![l] = IdleLoop]
        /\ unheard' = IF Holds(l, j) THEN unheard \ {j} ELSE unheard
        /\ UNCHANGED failures
     \/ /\ Fault
        /\ loop' = [loop EXCEPT ![l].at = "failed"]
        /\ \/ /\ Settles(l, j, "succeeded", Final(j))
              /\ unheard' = IF Holds(l, j) THEN unheard \cup {j} ELSE unheard
           \/ UNCHANGED <<translation, charge, unheard>>
  /\ UNCHANGED <<claims, retries>>

SettleFailure(l, j) ==
  /\ loop[l].at = "failed" /\ loop[l].translation = j
  /\ loop' = [loop EXCEPT ![l] = IdleLoop]
  /\ \/ Settles(l, j, "failed", Uncharged) /\ UNCHANGED failures
     \/ Fault /\ UNCHANGED <<translation, charge>>
  /\ UNCHANGED <<claims, retries, unheard>>

\* The worker process dies; its loop starts again.
LoopDies(l) ==
  /\ loop[l].at # "idle" /\ Fault
  /\ loop' = [loop EXCEPT ![l] = IdleLoop]
  /\ UNCHANGED <<translation, charge, claims, retries, unheard>>

\* Two minutes without a heartbeat: nobody holds the job, or its loop stalls.
Abandoned(j) == \A l \in TranslationLoops : ~(loop[l].at # "idle" /\ Holds(l, j))
LeaseRunsOut(j) ==
  /\ translation[j].status = "running" /\ translation[j].leased
  /\ IF Abandoned(j) THEN UNCHANGED failures ELSE Fault
  /\ translation' = [translation EXCEPT ![j].leased = FALSE]
  /\ UNCHANGED <<charge, loop, claims, retries, unheard>>

TranslationNext ==
  \/ \E r \in Readers, j \in Translations, retry \in BOOLEAN :
       RequestTranslation(r, j, retry)
  \/ \E l \in TranslationLoops, j \in Translations :
       \/ ClaimTranslation(l, j) \/ HeartbeatTranslation(l, j)
       \/ SettleSuccess(l, j) \/ SettleFailure(l, j)
  \/ \E l \in TranslationLoops : Translate(l) \/ LoopDies(l)
  \/ \E j \in Translations : LeaseRunsOut(j)

TranslationSpec == TranslationInit /\ [][TranslationNext]_translationVars

\* A loop polls, translates and settles as long as its process lives, and time
\* passes for a lease that nobody renews.  Nobody has to ask for anything.
TranslationProgress(l) ==
  \/ Translate(l)
  \/ \E j \in Translations :
       ClaimTranslation(l, j) \/ SettleSuccess(l, j) \/ SettleFailure(l, j)
TranslationFairness ==
  /\ \A l \in TranslationLoops : WF_translationVars(TranslationProgress(l))
  /\ \A j \in Translations :
       WF_translationVars(Abandoned(j) /\ LeaseRunsOut(j))

-----------------------------------------------------------------------------
(* What must hold. *)

\* A charge waits only for a job that is still to end: no settlement, of this
\* or another loop's, forgets a reader who joined the job while it ran.
PendingMeansOpen ==
  \A r \in Readers : charge[r].state = "pending"
    => translation[charge[r].translation].status \in Open

\* Who has paid for good is served the translation that was paid for (the route
\* answers 502 for a job that is not succeeded), whatever other loops still do to
\* the job.  The one exception is a success that was written and not heard of:
\* its loop goes on to mark the job failed and refunds nobody, so who paid is
\* refused until a retry of the job succeeds.
PaidIsServed ==
  \A r \in Readers : charge[r].state = "final"
    => Served(charge[r].translation) \/ charge[r].translation \in unheard

\* Once a loop's lease was taken over, what it still does to the job changes
\* nothing: neither the job nor anybody's charge.
LateSettlementsAreIgnored ==
  [][\A l \in TranslationLoops, j \in Translations :
       /\ loop[l].at # "idle" /\ loop'[l].at = "idle"
       /\ loop[l].translation = j /\ loop[l].token < translation[j].token
       => translation'[j] = translation[j] /\ charge' = charge]_translationVars

\* A charge does not stay pending: it becomes final or is refunded, whatever
\* crashes and stalls there were.
ChargesSettle ==
  \A r \in Readers : charge[r].state = "pending" ~> charge[r].state # "pending"
=============================================================================
