-------------------------- MODULE StockPreparation --------------------------
(***************************************************************************)
(* The background preparation of the stocks new accounts are interested    *)
(* in, and the research that joins a preparation or goes past it.          *)
(*                                                                         *)
(* Every worker process has one loop that claims, collects and finishes.   *)
(* The claim is a transaction under an advisory lock; a heartbeat and a    *)
(* finish are single updates fenced by the token of the claim, here its    *)
(* number among the stock's.  The lease, the pause before another attempt and the   *)
(* fifteen minutes of a result are flags that the passing of time clears.  *)
(* The research runs themselves are LeaseEngine's subject.                 *)
(***************************************************************************)
EXTENDS Integers, FiniteSets

CONSTANTS
  Symbols, Accounts, Preparers,
  MaxMishaps,       \* bound: crashes, stalls and lost answers
  MaxResearches     \* bound: stocks that research is started on

ASSUME PreparationBounds == MaxMishaps \in Nat /\ MaxResearches \in Nat

VARIABLES
  preparation,  \* stock_preparations
  saved,        \* accounts whose interests are saved
  preparer,     \* what each loop is doing
  requests,     \* requests so far: the order of requested_at
  lastClaim,    \* claims of each stock so far: the token of the latest
  research,     \* is a research run queued or running
  waiter,       \* the research on a symbol that waits for its preparation
  mishaps,
  revived       \* history: whose heartbeat renewed a lease that had run out

preparationVars == <<preparation, saved, preparer, requests, lastClaim,
                     research, waiter, mishaps, revived>>

MaxPreparationAttempts == 2
PreparationRecords ==
  [status: {"none", "queued", "running", "ready", "failed"},
   requested: Nat, attempts: 0..MaxPreparationAttempts, token: Nat,
   leased: BOOLEAN,                    \* lease_until > now()
   available: BOOLEAN,                 \* available_at <= now()
   expires: {"never", "later", "past"}]
PreparerRecords == [at: {"idle", "collecting", "collected", "failed"},
                    symbol: Symbols \cup {"none"}, token: Nat]
WaiterStates == {"none", "polling", "bypassing", "joined"}

PreparationTypeOK ==
  /\ preparation \in [Symbols -> PreparationRecords]
  /\ saved \subseteq Accounts
  /\ preparer \in [Preparers -> PreparerRecords]
  /\ requests \in Nat /\ lastClaim \in [Symbols -> Nat]
  /\ research \in BOOLEAN
  /\ waiter \in [Symbols -> WaiterStates]
  /\ mishaps \in 0..MaxMishaps
  /\ revived \subseteq Symbols

IdlePreparer == [at |-> "idle", symbol |-> "none", token |-> 0]

PreparationInit ==
  /\ preparation = [s \in Symbols |-> [status |-> "none", requested |-> 0,
       attempts |-> 0, token |-> 0, leased |-> FALSE, available |-> TRUE,
       expires |-> "never"]]
  /\ saved = {}
  /\ preparer = [w \in Preparers |-> IdlePreparer]
  /\ requests = 0 /\ lastClaim = [s \in Symbols |-> 0]
  /\ research = FALSE
  /\ waiter = [s \in Symbols |-> "none"]
  /\ mishaps = 0
  /\ revived = {}

Mishap == mishaps < MaxMishaps /\ mishaps' = mishaps + 1

-----------------------------------------------------------------------------
(* saveOnboardingInterests: once for an account; a stock is queued that was  *)
(* never prepared, or whose result or failure is past its time.              *)

Requeueable(s) ==
  \/ preparation[s].status = "none"
  \/ preparation[s].status \in {"ready", "failed"}
     /\ preparation[s].expires # "later"

SaveOnboardingInterests(a, stocks) ==
  /\ a \notin saved
  /\ saved' = saved \cup {a}
  /\ requests' = requests + 1
  /\ preparation' = [s \in Symbols |->
       IF s \in stocks /\ Requeueable(s)
       THEN [preparation[s] EXCEPT !.status = "queued", !.attempts = 0,
               !.requested = requests', !.available = TRUE, !.token = 0,
               !.leased = FALSE]
       ELSE preparation[s]]
  /\ UNCHANGED <<preparer, lastClaim, research, waiter, mishaps,
                 revived>>

-----------------------------------------------------------------------------
(* A loop: prepare. *)

Running(p) == p.status = "running"

\* Leases that ran out on the last attempt end their preparation.
Exhausted == [s \in Symbols |->
  IF /\ Running(preparation[s]) /\ ~preparation[s].leased
     /\ preparation[s].attempts >= MaxPreparationAttempts
  THEN [preparation[s] EXCEPT !.status = "failed"] ELSE preparation[s]]

\* (mutant) Attempts are not counted.
ClaimableForEver == {s \in Symbols :
  /\ preparation[s].available
  /\ \/ preparation[s].status = "queued"
     \/ Running(preparation[s]) /\ ~preparation[s].leased}
ClaimablePreparations == {s \in Symbols :
  /\ preparation[s].attempts < MaxPreparationAttempts
  /\ preparation[s].available
  /\ \/ preparation[s].status = "queued"
     \/ Running(preparation[s]) /\ ~preparation[s].leased}

\* (mutant) Nobody looks at what is being prepared.
MayClaimTogether == ~research /\ ClaimablePreparations # {}
MayClaim == /\ \A s \in Symbols : ~(Running(preparation[s])
                                    /\ preparation[s].leased)
            /\ ~research /\ ClaimablePreparations # {}

\* claimStockPreparation: the oldest request, when nothing is being prepared
\* and nobody waits for research; the exhausted ones end in any case.
ClaimStockPreparation(w) ==
  /\ preparer[w].at = "idle"
  /\ IF MayClaim
     THEN \E s \in ClaimablePreparations :
            /\ \A k \in ClaimablePreparations :
                 preparation[s].requested <= preparation[k].requested
            /\ lastClaim' = [lastClaim EXCEPT ![s] = @ + 1]
            /\ preparation' = [Exhausted EXCEPT ![s].status = "running",
                 ![s].token = lastClaim'[s], ![s].leased = TRUE,
                 ![s].attempts = @ + 1]
            /\ preparer' = [preparer EXCEPT ![w] = [at |-> "collecting",
                              symbol |-> s, token |-> lastClaim'[s]]]
            /\ revived' = revived \ {s}
     ELSE /\ preparation' = Exhausted
          /\ UNCHANGED <<preparer, lastClaim, revived>>
  /\ UNCHANGED <<saved, requests, research, waiter, mishaps>>

\* (mutant) The token is not compared.
HoldsBySymbol(w, s) == preparer[w].symbol = s /\ Running(preparation[s])
HoldsPreparation(w, s) ==
  preparer[w].symbol = s /\ preparer[w].token = preparation[s].token

\* The heartbeat looks at the token only, and stops a loop that lost it.
HeartbeatPreparation(w) ==
  LET s == preparer[w].symbol
  IN /\ preparer[w].at = "collecting"
     /\ IF HoldsPreparation(w, s)
        THEN /\ preparation' = [preparation EXCEPT ![s].leased = TRUE]
             /\ revived' = IF preparation[s].leased THEN revived
                           ELSE revived \cup {s}
             /\ UNCHANGED preparer
        ELSE /\ preparer' = [preparer EXCEPT ![w].at = "failed"]
             /\ UNCHANGED <<preparation, revived>>
     /\ UNCHANGED <<saved, requests, lastClaim, research, waiter, mishaps>>

CollectSources(w) ==
  /\ preparer[w].at = "collecting"
  /\ \E at \in {"collected", "failed"} : preparer' = [preparer EXCEPT ![w].at = at]
  /\ UNCHANGED <<preparation, saved, requests, lastClaim, research, waiter,
                 mishaps, revived>>

\* finishStockPreparation, with the token of the claim.
Finished(w, success) ==
  LET s == preparer[w].symbol
      again == preparation[s].attempts < MaxPreparationAttempts
  IN IF HoldsPreparation(w, s)
     THEN [preparation EXCEPT ![s].token = 0, ![s].leased = FALSE,
             ![s].available = FALSE, ![s].expires = "later",
             ![s].status = IF success THEN "ready"
                           ELSE IF again THEN "queued" ELSE "failed"]
     ELSE preparation

\* The answer of the update may be lost, with its effect or without: after a
\* success the loop goes on as after a failure, after a failure it gives up.
FinishStockPreparation(w) ==
  LET success == preparer[w].at = "collected"
  IN /\ preparer[w].at \in {"collected", "failed"}
     /\ \/ /\ preparation' = Finished(w, success)
           /\ preparer' = [preparer EXCEPT ![w] = IdlePreparer]
           /\ UNCHANGED mishaps
        \/ /\ Mishap
           /\ preparation' \in {preparation, Finished(w, success)}
           /\ preparer' = [preparer EXCEPT ![w] =
                IF success THEN [@ EXCEPT !.at = "failed"] ELSE IdlePreparer]
     /\ UNCHANGED <<saved, requests, lastClaim, research, waiter,
                    revived>>

PreparerDies(w) ==
  /\ preparer[w].at # "idle" /\ Mishap
  /\ preparer' = [preparer EXCEPT ![w] = IdlePreparer]
  /\ UNCHANGED <<preparation, saved, requests, lastClaim, research, waiter,
                 revived>>

-----------------------------------------------------------------------------
(* Time. *)

\* Ninety seconds without a heartbeat: its loop is gone, or stalls.
PreparationLeaseRunsOut(s) ==
  /\ Running(preparation[s]) /\ preparation[s].leased
  /\ IF \E w \in Preparers : preparer[w].at # "idle" /\ HoldsPreparation(w, s)
     THEN Mishap ELSE UNCHANGED mishaps
  /\ preparation' = [preparation EXCEPT ![s].leased = FALSE]
  /\ UNCHANGED <<saved, preparer, requests, lastClaim, research, waiter,
                 revived>>

TimePasses(s) ==
  /\ \/ ~preparation[s].available
        /\ preparation' = [preparation EXCEPT ![s].available = TRUE]
     \/ preparation[s].available /\ preparation[s].expires = "later"
        /\ preparation' = [preparation EXCEPT ![s].expires = "past"]
  /\ UNCHANGED <<saved, preparer, requests, lastClaim, research, waiter,
                 mishaps, revived>>

-----------------------------------------------------------------------------
(* The research on a symbol. *)

ResearchStarts(s) ==
  /\ waiter[s] = "none"
  /\ Cardinality({k \in Symbols : waiter[k] # "none"}) < MaxResearches
  /\ waiter' = [waiter EXCEPT ![s] = "polling"]
  /\ research' = TRUE
  /\ UNCHANGED <<preparation, saved, preparer, requests, lastClaim, mishaps,
                 revived>>

Joined(s, to) ==
  /\ waiter' = [waiter EXCEPT ![s] = to]
  /\ UNCHANGED <<saved, preparer, requests, lastClaim, research, mishaps,
                 revived>>

\* (mutant) A queued preparation is waited for, too.
PollUntilPrepared(s) ==
  LET p == preparation[s]
  IN /\ waiter[s] = "polling"
     /\ ~(p.status = "queued" \/ (p.status = "running" /\ p.leased))
     /\ Joined(s, "joined")
     /\ UNCHANGED preparation
\* waitForStockPreparation reads the row.  A preparation that runs under a live
\* lease is waited for, until the deadline; a queued one is bypassed, and any
\* other is used if it is ready, in the same way as none.
PollPreparation(s) ==
  LET p == preparation[s]
      waits == p.status = "running" /\ p.leased
  IN /\ waiter[s] = "polling"
     /\ ~waits
     /\ Joined(s, IF p.status = "queued" THEN "bypassing" ELSE "joined")
     /\ UNCHANGED preparation

DeadlinePasses(s) ==
  /\ waiter[s] = "polling"
  /\ Running(preparation[s]) /\ preparation[s].leased
  /\ Joined(s, "joined")
  /\ UNCHANGED preparation

\* A queued preparation is taken out of the queue, if it still is in it.
BypassPreparation(s) ==
  /\ waiter[s] = "bypassing"
  /\ IF preparation[s].status = "queued"
     THEN /\ preparation' = [preparation EXCEPT ![s].status = "failed"]
          /\ Joined(s, "joined")
     ELSE Joined(s, "polling") /\ UNCHANGED preparation

\* The runs are through: none is queued or running.
ResearchEnds ==
  /\ research /\ \A s \in Symbols : waiter[s] \notin {"polling", "bypassing"}
  /\ research' = FALSE
  /\ UNCHANGED <<preparation, saved, preparer, requests, lastClaim, waiter,
                 mishaps, revived>>

PreparationNext ==
  \/ \E a \in Accounts, stocks \in SUBSET Symbols \ {{}} :
       SaveOnboardingInterests(a, stocks)
  \/ \E w \in Preparers :
       \/ ClaimStockPreparation(w) \/ HeartbeatPreparation(w)
       \/ CollectSources(w) \/ FinishStockPreparation(w) \/ PreparerDies(w)
  \/ \E s \in Symbols :
       \/ PreparationLeaseRunsOut(s) \/ TimePasses(s) \/ ResearchStarts(s)
       \/ PollPreparation(s) \/ DeadlinePasses(s) \/ BypassPreparation(s)
  \/ ResearchEnds

PreparationSpec == PreparationInit /\ [][PreparationNext]_preparationVars

\* A research handler that waits keeps polling, and its deadline passes.
WaiterFairness == \A s \in Symbols : WF_preparationVars(
  PollPreparation(s) \/ BypassPreparation(s) \/ DeadlinePasses(s))

-----------------------------------------------------------------------------
(* What must hold. *)

LivePreparations == {s \in Symbols :
                       Running(preparation[s]) /\ preparation[s].leased}

\* One preparation at a time in all processes, except that a loop that stalled
\* past its lease can renew it after another stock was claimed meanwhile.
OnePreparationAtATime == Cardinality(LivePreparations \ revived) <= 1

\* The plan's sentence: one global background preparation at a time.
OneGlobalPreparation == Cardinality(LivePreparations) <= 1

\* Whatever stalled, died or was requested again: a stock becomes ready only by
\* the loop of its latest claim, never by one whose work was replaced.
OnlyTheLastClaimCompletes ==
  [][\A s \in Symbols :
       preparation[s].status # "ready" /\ preparation'[s].status = "ready" =>
         \E w \in Preparers : /\ preparer[w].symbol = s
                              /\ preparer[w].token = lastClaim[s]
                              /\ preparer[w].at = "collected"]_preparationVars

\* Optional preparation never holds up paid research: who waits for one goes
\* on in the end, though its row changes between the reading and the bypass.
ResearchIsNotHeldUp ==
  \A s \in Symbols : waiter[s] = "polling"
                     ~> waiter[s] = "joined"
=============================================================================
