--------------------------- MODULE AccountCredits ---------------------------
(***************************************************************************)
(* The credits of one account: the grants of its plan, the reservations    *)
(* that hold credits for running research, and the usage events that spend *)
(* them.                                                                   *)
(*                                                                         *)
(* A request is one HTTP request of the account.  It starts research,      *)
(* translates the report or opens it, and runs a transaction that locks    *)
(* the account's entitlement, reads what was used, then what is reserved,  *)
(* and decides; the database isolates statements, not transactions, so     *)
(* the two reads are two steps.  A run is named by the request that        *)
(* created it.  Whoever reads a run records what it saw, without that      *)
(* lock: recording a success charges the run and drops its reservation.    *)
(*                                                                         *)
(* The engine that moves a run and the webhooks that change the plan are   *)
(* other modules' subjects; here they are environment actions.  RunView    *)
(* says which moves of a run the account relies on.                        *)
(***************************************************************************)
EXTENDS Integers, FiniteSets, RunView

CONSTANTS
  Requests,         \* each used once
  NoRequest,
  IdempotencyKeys,
  CommitteeCost, DepartmentCost, ViewCost, TranslationCost,  \* CREDIT_COSTS
  FreeSignupAllowance,                   \* FREE_SIGNUP_CREDIT_ALLOWANCE
  ProAllowance, UltraAllowance,          \* MONTHLY_CREDIT_ALLOWANCE
  MaxChanges,       \* bound: changes of the plan or of the month
  MaxReads          \* bound: reads of runs that are not recorded yet

ASSUME NoRequestIsFresh == NoRequest \notin Requests
ASSUME RequestsAreFinite == IsFiniteSet(Requests)
ASSUME CreditsAreNatural ==
  /\ {CommitteeCost, DepartmentCost, ViewCost, TranslationCost}
       \subseteq Nat \ {0}
  /\ {FreeSignupAllowance, ProAllowance, UltraAllowance} \subseteq Nat
  /\ MaxChanges \in Nat /\ MaxReads \in Nat

VARIABLES
  tier,        \* the plan that counts now; a plan that is not paid is free
  period,      \* the current billing month
  changes,     \* how often the plan or the month changed
  paidGrants,  \* credits granted in a month under each paid plan
  reservation, \* research_credit_reservations: the month of a run's, 0 for none
  usage,       \* usage_events: the month a key was charged in, 0 for no row
  run,         \* the status of each run in the research engine
  recorded,    \* the status last recorded for a run (its ownership row)
  reads,       \* runs that were read and are still to be recorded
  request,     \* each request, and what it has read
  lock,        \* who holds the account's entitlement row
  unseen       \* history: runs charged since the lock's holder read the usage

creditVars == <<tier, period, changes, paidGrants, reservation, usage, run,
                recorded, reads, request, lock, unseen>>
CreditPlan == <<tier, period, changes>>
ResearchRuns == <<run, recorded, reads>>

PaidTiers == {"pro", "ultra"}
Periods == 1..(MaxChanges + 1)
Months == {0} \cup Periods               \* 0 stands for never
Targets == {"committee", "department"}
\* The events that spend credits without a run, once each.
Consumptions == {"translation", "view"}
UsageKeys == Requests \cup Consumptions
ASSUME RequestsAreNoConsumptions == Requests \cap Consumptions = {}
NoKey == "none"
ASSUME NoKeyIsFresh == NoKey \notin IdempotencyKeys

RequestRecords ==
  [at: {"idle", "begun", "counted", "create", "release", "done"},
   kind: {"research"} \cup Consumptions, key: IdempotencyKeys \cup {NoKey},
   target: Targets, month: Months, used: Nat]

CreditTypeOK ==
  /\ tier \in {"free"} \cup PaidTiers /\ period \in Periods
  /\ changes \in 0..MaxChanges
  /\ paidGrants \in [Periods -> [PaidTiers -> Nat]]
  /\ reservation \in [Requests -> Months]
  /\ usage \in [UsageKeys -> Months]
  /\ run \in [Requests -> RunStates] /\ recorded \in [Requests -> RunStates]
  /\ reads \subseteq Requests \X RunStates
  /\ request \in [Requests -> RequestRecords]
  /\ lock \in Requests \cup {NoRequest}
  /\ unseen \subseteq Requests

IdleRequest == [at |-> "idle", kind |-> "research", key |-> NoKey,
                target |-> "committee", month |-> 0, used |-> 0]
Answered == [IdleRequest EXCEPT !.at = "done"]

CreditInit ==
  /\ tier \in {"free"} \cup PaidTiers /\ period = 1 /\ changes = 0
  /\ paidGrants = [p \in Periods |-> [t \in PaidTiers |-> 0]]
  /\ reservation = [q \in Requests |-> 0]
  /\ usage = [k \in UsageKeys |-> 0]
  /\ run = [q \in Requests |-> "none"] /\ recorded = [q \in Requests |-> "none"]
  /\ reads = {}
  /\ request = [q \in Requests |-> IdleRequest]
  /\ lock = NoRequest /\ unseen = {}

-----------------------------------------------------------------------------
(* What the account has: granted, used and reserved. *)

Least(a, b) == IF a < b THEN a ELSE b
\* (mutant) The difference may be negative.
Unclamped(n) == n
AtLeastZero(n) == IF n < 0 THEN 0 ELSE n

Allowance == [t \in PaidTiers |->
                IF t = "pro" THEN ProAllowance ELSE UltraAllowance]
ResearchCost(q) == IF request[q].target = "department"
                   THEN DepartmentCost ELSE CommitteeCost
KeyCost(k) == CASE k = "translation" -> TranslationCost
                [] k = "view" -> ViewCost
                [] OTHER -> ResearchCost(k)

\* What a set of keys costs, with the targets of the requests rs.
Researched(rs, keys, target) ==
  {q \in keys \cap Requests : rs[q].target = target}
TotalCost(rs, keys) ==
  CommitteeCost * Cardinality(Researched(rs, keys, "committee"))
    + DepartmentCost * Cardinality(Researched(rs, keys, "department"))
    + (IF "translation" \in keys THEN TranslationCost ELSE 0)
    + (IF "view" \in keys THEN ViewCost ELSE 0)

PaidSum(grants, p) == grants[p]["pro"] + grants[p]["ultra"]

\* (mutant) Every plan of the month grants its whole allowance.
WholeAllowance(p) == Allowance[tier]
\* What the month is still to be granted under the plan that counts now.
TopUp(p) == AtLeastZero(Allowance[tier] - PaidSum(paidGrants, p))

\* ensureCreditGrant: a paid plan is topped up to its allowance of the month,
\* under a key that holds the plan.
EnsuredPaid(p) ==
  IF tier \notin PaidTiers \/ paidGrants[p][tier] # 0 THEN paidGrants
  ELSE [paidGrants EXCEPT ![p][tier] = TopUp(p)]

\* What the ensured grants of month p give the plan that counts now; the grant
\* of the free plan is made once, when it is first looked for.
GrantedCredits(p) ==
  IF tier = "free" THEN FreeSignupAllowance
  ELSE Least(PaidSum(EnsuredPaid(p), p), Allowance[tier])

\* The free plan's credits are spent once, a paid plan's every month.
UsedCredits(events, p) ==
  TotalCost(request, {k \in UsageKeys :
    events[k] # 0 /\ (tier = "free" \/ events[k] = p)})

ReservedCredits(rows, p, excluded) ==
  TotalCost(request, {q \in Requests \ excluded : rows[q] = p})

-----------------------------------------------------------------------------
(* A request, up to its transaction. *)

RunOf(key) == {r \in Requests : run[r] # "none" /\ request[r].key = key}

\* The idempotency key is looked up first: a known one ends in the recording
\* of its run, or in a conflict when its body differs.
BeginResearch(q, key, target) ==
  LET begun == [IdleRequest EXCEPT !.at = "begun", !.key = key,
                                   !.target = target, !.month = period]
      known == RunOf(key)
      same == {r \in known : request[r].target = target}
  IN /\ request[q].at = "idle"
     /\ request' = [request EXCEPT ![q] =
                      IF known = {} THEN begun ELSE Answered]
     /\ reads' = reads \cup {<<r, run[r]>> : r \in same}
     /\ Cardinality(reads') <= MaxReads
     /\ UNCHANGED <<CreditPlan, paidGrants, reservation, usage, run,
                    recorded, lock, unseen>>

\* The clock is read before the lock is waited for.
BeginConsumption(q, kind) ==
  /\ request[q].at = "idle"
  /\ request' = [request EXCEPT ![q] =
       [IdleRequest EXCEPT !.at = "begun", !.kind = kind, !.month = period]]
  /\ UNCHANGED <<CreditPlan, paidGrants, reservation, usage, ResearchRuns,
                 lock, unseen>>

\* (mutant) The row is read without FOR UPDATE.
ReadAccount(q) ==
  /\ request[q].at = "begun"
  /\ lock' = q /\ unseen' = {}
  /\ request' = [request EXCEPT ![q].at = "counted",
                   ![q].used = UsedCredits(usage, request[q].month)]
  /\ UNCHANGED <<CreditPlan, paidGrants, reservation, usage, ResearchRuns>>
\* The entitlement is locked and the used credits are read; what is recorded
\* between the two statements is as if it had been before both.
LockAccount(q) ==
  /\ request[q].at = "begun" /\ lock = NoRequest
  /\ lock' = q /\ unseen' = {}
  /\ request' = [request EXCEPT ![q].at = "counted",
                   ![q].used = UsedCredits(usage, request[q].month)]
  /\ UNCHANGED <<CreditPlan, paidGrants, reservation, usage, ResearchRuns>>

-----------------------------------------------------------------------------
(* The rest of the transaction: the reserved credits are read, and it ends. *)

RemainingCredits(q) ==
  LET p == request[q].month
      own == IF request[q].kind = "research" THEN {q} ELSE {}
  IN AtLeastZero(GrantedCredits(p) - request[q].used
                 - ReservedCredits(reservation, p, own))

EndTransaction(q, at) ==
  /\ request[q].at = "counted"
  /\ lock' = NoRequest
  /\ paidGrants' = EnsuredPaid(request[q].month)
  /\ request' = [request EXCEPT ![q] = IF at = "done" THEN Answered ELSE
                                      [@ EXCEPT !.at = at, !.month = 0, !.used = 0]]
  /\ unseen' = {}
  /\ UNCHANGED <<CreditPlan, ResearchRuns>>

ReserveResearchCredits(q) ==
  LET enough == RemainingCredits(q) >= ResearchCost(q)
  IN /\ request[q].kind = "research"
     /\ EndTransaction(q, IF enough THEN "create" ELSE "done")
     /\ reservation' = IF enough /\ ResearchCost(q) > 0
                       THEN [reservation EXCEPT ![q] = request[q].month]
                       ELSE reservation
     /\ UNCHANGED usage

\* consumeResearchRoomCredit, consumeResearchTranslationCredit: what was paid
\* for once is free, and what cannot be paid is refused.
ConsumeCredit(q) ==
  LET kind == request[q].kind
      charged == usage[kind] = 0 /\ RemainingCredits(q) >= KeyCost(kind)
  IN /\ kind \in Consumptions
     /\ EndTransaction(q, "done")
     /\ usage' = IF charged
                 THEN [usage EXCEPT ![kind] = request[q].month] ELSE usage
     /\ UNCHANGED reservation

\* The process dies, or the database refuses: the transaction rolls back.
RollBack(q) ==
  /\ request[q].at \in {"begun", "counted"}
  /\ request' = [request EXCEPT ![q] = Answered]
  /\ lock' = IF lock = q THEN NoRequest ELSE lock
  /\ unseen' = IF lock = q THEN {} ELSE unseen
  /\ UNCHANGED <<CreditPlan, paidGrants, reservation, usage, ResearchRuns>>

-----------------------------------------------------------------------------
(* The run of a reservation. *)

\* repository.create, a transaction of its own after the reservation.  The
\* queue may be full or the answer may be lost, with the run created or not.
CreateRun(q) ==
  LET known == RunOf(request[q].key)
      same == {r \in known : request[r].target = request[q].target}
  IN /\ request[q].at = "create"
     /\ \/ /\ known = {}
           /\ \E answered \in BOOLEAN :
                /\ run' = [run EXCEPT ![q] = "active"]
                /\ request' = [request EXCEPT ![q].at =
                                 IF answered THEN "done" ELSE "release"]
                /\ reads' = IF answered THEN reads \cup {<<q, "active">>}
                                        ELSE reads
        \/ /\ same = {}         \* queue_full, idempotency_conflict
           /\ request' = [request EXCEPT ![q].at = "release"]
           /\ UNCHANGED <<run, reads>>
        \/ /\ same # {}
           /\ request' = [request EXCEPT ![q].at = "done"]
           /\ reads' = reads \cup {<<r, run[r]>> : r \in same}
           /\ UNCHANGED run
     /\ Cardinality(reads') <= MaxReads
     /\ UNCHANGED <<CreditPlan, paidGrants, reservation, usage, recorded,
                    lock, unseen>>

ReleaseResearchCredits(q) ==
  /\ request[q].at = "release"
  /\ request' = [request EXCEPT ![q].at = "done"]
  /\ reservation' = [reservation EXCEPT ![q] = 0]
  /\ UNCHANGED <<CreditPlan, paidGrants, usage, ResearchRuns, lock, unseen>>

\* A page, a list or an event stream reads the run to show it.
ReadRun(r) ==
  /\ run[r] # "none"
  /\ reads' = reads \cup {<<r, run[r]>>}
  /\ Cardinality(reads') <= MaxReads
  /\ UNCHANGED <<CreditPlan, paidGrants, reservation, usage, run, recorded,
                 request, lock, unseen>>

\* (mutant) Whatever has ended is charged.
ChargesTheEnd(r, status) == status \in Ended /\ usage[r] = 0
Charges(r, status) == status = "completed" /\ usage[r] = 0

\* (mutant) The charge takes the place of the hold, and leaves it.
HeldUnlessFailed(r, status) ==
  IF status \in Ended \ {"completed"} THEN 0 ELSE reservation[r]
\* (mutant) A hold is dropped by its charge only.
HeldUnlessCharged(r, status) == IF status = "completed" THEN 0 ELSE reservation[r]
\* The hold is dropped as soon as the run is seen to have ended.
HeldAfter(r, status) == IF status \in Ended THEN 0 ELSE reservation[r]

\* recordResearchRun: nothing when the process has recorded this status last.
RecordResearchRun(r, status) ==
  LET charged == Charges(r, status)
  IN /\ <<r, status>> \in reads
     /\ reads' = reads \ {<<r, status>>}
     /\ IF recorded[r] = status
        THEN UNCHANGED <<recorded, usage, reservation, unseen>>
        ELSE /\ recorded' = [recorded EXCEPT ![r] = status]
             /\ usage' = IF charged THEN [usage EXCEPT ![r] = period] ELSE usage
             /\ reservation' = [reservation EXCEPT ![r] = HeldAfter(r, status)]
             /\ unseen' = IF charged /\ lock # NoRequest
                            /\ request[lock].at = "counted"
                          THEN unseen \cup {r} ELSE unseen
     /\ UNCHANGED <<CreditPlan, paidGrants, run, request, lock>>

-----------------------------------------------------------------------------
(* The engine, the clock and the payments. *)

MoveRun(r, to) ==
  /\ MayMove(run[r], to)
  /\ run' = [run EXCEPT ![r] = to]
  /\ UNCHANGED <<CreditPlan, paidGrants, reservation, usage, recorded, reads,
                 request, lock, unseen>>

\* A day after the reservation no statement counts it any more, and the next
\* reservation deletes it; a transaction reads the clock when it starts.
ExpireReservation(r) ==
  /\ reservation[r] # 0 /\ lock = NoRequest
  /\ reservation' = [reservation EXCEPT ![r] = 0]
  /\ UNCHANGED <<CreditPlan, paidGrants, usage, ResearchRuns, request, lock,
                 unseen>>

NextPeriod ==
  /\ changes < MaxChanges /\ changes' = changes + 1
  /\ period' = period + 1
  /\ UNCHANGED <<tier, paidGrants, reservation, usage, ResearchRuns, request,
                 lock, unseen>>

\* handleWhopWebhook locks the entitlement as well.
ChangePlan(to) ==
  /\ lock = NoRequest /\ to # tier /\ changes < MaxChanges
  /\ tier' = to /\ changes' = changes + 1
  /\ UNCHANGED <<period, paidGrants, reservation, usage, ResearchRuns,
                 request, lock, unseen>>

CreditNext ==
  \/ \E q \in Requests :
       \/ \E key \in IdempotencyKeys, target \in Targets :
            BeginResearch(q, key, target)
       \/ \E kind \in Consumptions : BeginConsumption(q, kind)
       \/ LockAccount(q)
       \/ ReserveResearchCredits(q) \/ ConsumeCredit(q) \/ RollBack(q)
       \/ CreateRun(q) \/ ReleaseResearchCredits(q)
  \/ \E r \in Requests :
       \/ ReadRun(r) \/ ExpireReservation(r)
       \/ \E to \in RunStates : MoveRun(r, to) \/ RecordResearchRun(r, to)
  \/ NextPeriod
  \/ \E to \in {"free"} \cup PaidTiers : ChangePlan(to)

CreditSpec == CreditInit /\ [][CreditNext]_creditVars

-----------------------------------------------------------------------------
(* What must hold. *)

\* A request that reserves or spends in this step, and how much it costs.
Admits(q) ==
  /\ request[q].at = "counted"
  /\ \/ request'[q].at = "create"
     \/ \E k \in Consumptions : usage'[k] # usage[k]

Committed(q, events, rows) ==
  UsedCredits(events, request[q].month)
    + ReservedCredits(rows, request[q].month, {})

\* An admission leaves no more spent and reserved than the plan granted, but
\* for the runs that were charged between its own two reads: whatever requests
\* run at once, retries, expiries, plan changes and lost answers.
AdmissionsAreCovered ==
  [][\A q \in Requests : Admits(q) =>
       Committed(q, usage', reservation') <= GrantedCredits(request[q].month)
         + TotalCost(request, unseen)]_creditVars

\* What the remediation report says of translations: concurrent requests
\* cannot bypass the available balance.
TranslationsAreCovered ==
  [][\A q \in Requests : Admits(q) /\ request[q].kind = "translation" =>
       Committed(q, usage', reservation')
         <= GrantedCredits(request[q].month)]_creditVars

\* No credit is both spent and held for the same run, whichever of several
\* readers records its end, in whatever order, and however often.
NoDoubleCount ==
  \A r \in Requests : usage[r] # 0 => reservation[r] = 0

\* Only a run that completed is charged: a read that is recorded late, after a
\* failure was retried or before the run ended, charges nothing.
OnlySuccessIsCharged == \A r \in Requests : usage[r] # 0 => run[r] = "completed"

\* A change of plan within a month grants the difference: the grants of a month
\* add up to the largest allowance it had, in whatever order the plans came.
UpgradesGrantTheDifference ==
  \A p \in Periods :
    PaidSum(paidGrants, p) \in
      {0} \cup {Allowance[t] : t \in {u \in PaidTiers : paidGrants[p][u] # 0}}

\* A day-long hold without a run behind it is the price of three races only: a
\* request that still runs, one that lost its run to another with the same key
\* between the lookup and the creation, or one whose process died in between.
\* A hold for a run that was read as ended does not outlive that reading.
HeldForARun ==
  \A q \in Requests : reservation[q] # 0 =>
    \/ run[q] # "none" /\ recorded[q] \notin Ended
    \/ request[q].at \in {"create", "release"}
    \/ /\ request[q].at = "done"
       /\ \E r \in RunOf(request[q].key) \ {q} : TRUE

\* The requests that were given a hold: their transaction reserved credits, and
\* what they have done since does not take that back.
AskedFor == {q \in Requests : /\ request[q].at \in {"create", "release", "done"}
                              /\ request[q].key # NoKey}
Promise == INSTANCE CreditContract WITH
             granted <- AskedFor,
             held <- {q \in Requests : reservation[q] # 0},
             charged <- {k \in UsageKeys : usage[k] # 0}

\* The account keeps CreditContract: whoever records a run, in whatever order,
\* after whatever retries, expiries and lost answers, charges what was held once,
\* once, and takes no charge back.
KeepsCreditContract == Promise!Spec
=============================================================================
