-------------------------- MODULE BillingWebhooks --------------------------
(***************************************************************************)
(* The plan of one account, kept by the events its payment provider sends, *)
(* and one checkout attempt.                                               *)
(*                                                                         *)
(* The provider numbers nothing: an event has an identity, the time it     *)
(* happened at and the membership it is about, and is delivered at any     *)
(* later time, more than once, or after events that are newer.  Two events *)
(* may carry the same time.  The handler is one transaction that locks the *)
(* entitlement, so a delivery is one action.                               *)
(*                                                                         *)
(* Provider actions are external, modelled from the events the handler     *)
(* understands.  A trial counts as active; events reach an account that    *)
(* exists, and the analytics flag is on.                                   *)
(***************************************************************************)
EXTENDS Integers, Sequences

CONSTANTS
  Memberships,
  NoMembership,
  MaxEvents         \* bound: events the provider ever sends

ASSUME NoMembershipIsFresh == NoMembership \notin Memberships
ASSUME EventsAreBounded == MaxEvents \in Nat

VARIABLES
  provider,     \* the life of each membership at the provider
  sent,         \* the events, in the order they happened
  processed,    \* whop_webhook_events: those that were delivered
  applied,      \* history: those that changed the entitlement
  entitlement,  \* the account's plan, status, membership and event time
  attempt       \* the checkout attempt

billingVars == <<provider, sent, processed, applied, entitlement, attempt>>

PaidPlans == {"pro", "ultra"}
\* A membership.activated and a payment.succeeded carry the plan they are for.
PlanEvents == {"activated", "succeeded"}
EventTypes == PlanEvents \cup {"deactivated", "cancel_changed", "failed",
                               "pending"}
\* Events that an account whose membership is another one ignores.
OfTheCurrentMembershipOnly ==
  {"deactivated", "cancel_changed", "failed", "pending"}
\* The statuses creditPeriodContext counts as paid.
PaidStatuses == {"active", "past_due"}

Events == [type: EventTypes, membership: Memberships, at: 1..MaxEvents,
           plan: PaidPlans \cup {"none"}, cancels: BOOLEAN]
Entitlements == [plan: PaidPlans \cup {"preview"},
                 status: PaidStatuses \cup {"cancelled"},
                 membership: Memberships \cup {NoMembership},
                 at: 0..MaxEvents, cancels: BOOLEAN]
Attempts == [status: {"none", "creating", "ready", "paid", "failed"},
             ready: BOOLEAN, paid: BOOLEAN]

BillingTypeOK ==
  /\ provider \in [Memberships -> {"none", "active", "ended"}]
  /\ sent \in Seq(Events)
  /\ processed \subseteq DOMAIN sent /\ applied \subseteq processed
  /\ entitlement \in Entitlements
  /\ attempt \in Attempts

BillingInit ==
  /\ provider = [m \in Memberships |-> "none"]
  /\ sent = <<>> /\ processed = {} /\ applied = {}
  /\ entitlement = [plan |-> "preview", status |-> "active",
                    membership |-> NoMembership, at |-> 0, cancels |-> FALSE]
  /\ attempt = [status |-> "none", ready |-> FALSE, paid |-> FALSE]

-----------------------------------------------------------------------------
(* The checkout: an attempt is made, then the provider's page is opened. *)

CreateCheckoutAttempt ==
  /\ attempt.status = "none"
  /\ attempt' = [attempt EXCEPT !.status = "creating"]
  /\ UNCHANGED <<provider, sent, processed, applied, entitlement>>

\* The mark moves an attempt that is being created only.
MarkCheckoutAttemptReady ==
  /\ attempt.status \in {"creating", "ready"}
  /\ attempt' = [attempt EXCEPT !.status = "ready", !.ready = TRUE]
  /\ UNCHANGED <<provider, sent, processed, applied, entitlement>>

\* The provider refused, or the answer of the mark was lost.
MarkCheckoutAttemptFailed ==
  /\ attempt.status # "none"
  /\ attempt' = IF attempt.ready THEN attempt
                ELSE [attempt EXCEPT !.status = "failed"]
  /\ UNCHANGED <<provider, sent, processed, applied, entitlement>>

-----------------------------------------------------------------------------
(* The provider: what happens to a membership, and the event that tells it. *)

Happens(type, m, plan, cancels) ==
  LET last == IF sent = <<>> THEN 0 ELSE sent[Len(sent)].at
  IN /\ Len(sent) < MaxEvents
     /\ \E at \in {last, last + 1} \ {0} :
          sent' = Append(sent, [type |-> type, membership |-> m, at |-> at,
                                plan |-> plan, cancels |-> cancels])
     /\ UNCHANGED <<processed, applied, entitlement, attempt>>

\* A membership starts once the checkout was ready to be paid.
MembershipStarts(m, plan) ==
  /\ provider[m] = "none" /\ attempt.ready
  /\ provider' = [provider EXCEPT ![m] = "active"]
  /\ Happens("activated", m, plan, FALSE)

MembershipEnds(m, plan) ==
  /\ provider[m] = "active"
  /\ provider' = [provider EXCEPT ![m] = "ended"]
  /\ Happens("deactivated", m, plan, FALSE)

\* A payment that fails tells its plan or leaves it to the account.
PaymentOrCancellation(m) ==
  /\ provider[m] = "active"
  /\ UNCHANGED provider
  /\ \/ \E plan \in PaidPlans : Happens("succeeded", m, plan, FALSE)
     \/ \E type \in {"failed", "pending"}, plan \in {"pro", "none"} :
          Happens(type, m, plan, FALSE)
     \/ \E cancels \in BOOLEAN : Happens("cancel_changed", m, "none", cancels)

-----------------------------------------------------------------------------
(* handleWhopWebhook *)

\* The attempt a payment names: paid stays paid.
\* (mutant) The last payment decides.
SettledByTheLast(e) ==
  CASE e.type = "succeeded" -> [attempt EXCEPT !.status = "paid", !.paid = TRUE]
    [] e.type = "failed" -> [attempt EXCEPT !.status = "failed"]
    [] OTHER -> attempt
SettledAttempt(e) ==
  CASE e.type = "succeeded" -> [attempt EXCEPT !.status = "paid", !.paid = TRUE]
    [] e.type = "failed" /\ ~attempt.paid -> [attempt EXCEPT !.status = "failed"]
    [] OTHER -> attempt

\* (mutant) Events are taken in the order they arrive.
NeverStale(e) == FALSE
IsStale(e) == entitlement.at > e.at
\* (mutant) Whichever membership an event is about.
NeverOfAnother(e) == FALSE
IsOfAnother(e) == /\ entitlement.membership \notin {NoMembership, e.membership}
                  /\ e.type \in OfTheCurrentMembershipOnly

\* (mutant) The plan of the event.
PlanOfTheEvent(e) == e.plan
\* The plan of the event, or the one the account has.
ResolvedPlan(e) == IF e.plan # "none" THEN e.plan ELSE entitlement.plan
ResolvedStatus(e) ==
  CASE e.type = "deactivated" -> "cancelled"
    [] e.type = "failed" -> "past_due"
    [] e.type = "pending" -> entitlement.status
    [] OTHER -> "active"

EntitledBy(e) ==
  IF IsStale(e) \/ IsOfAnother(e) THEN entitlement
  ELSE IF e.type = "cancel_changed"
       THEN [entitlement EXCEPT !.cancels = e.cancels, !.at = e.at]
  ELSE IF ResolvedPlan(e) = "preview" /\ e.type # "deactivated"
       THEN entitlement
  ELSE [entitlement EXCEPT !.plan = ResolvedPlan(e), !.at = e.at,
          !.status = ResolvedStatus(e), !.membership = e.membership]

\* A delivery that was processed before changes nothing.
Deliver(i) ==
  /\ i \in DOMAIN sent
  /\ IF i \in processed
     THEN UNCHANGED <<processed, applied, attempt, entitlement>>
     ELSE /\ processed' = processed \cup {i}
          /\ attempt' = SettledAttempt(sent[i])
          /\ entitlement' = EntitledBy(sent[i])
          /\ applied' = IF entitlement' # entitlement
                        THEN applied \cup {i} ELSE applied
  /\ UNCHANGED <<provider, sent>>

BillingNext ==
  \/ CreateCheckoutAttempt \/ MarkCheckoutAttemptReady
  \/ MarkCheckoutAttemptFailed
  \/ \E m \in Memberships :
       \/ \E plan \in PaidPlans : MembershipStarts(m, plan)
                                  \/ MembershipEnds(m, plan)
       \/ PaymentOrCancellation(m)
  \/ \E i \in 1..MaxEvents : Deliver(i)

BillingSpec == BillingInit /\ [][BillingNext]_billingVars

-----------------------------------------------------------------------------
(* What must hold. *)

Newest(i) == \A j \in processed \ {i} : sent[j].at < sent[i].at

\* The newest event decides, whatever was delivered before or after, how often
\* and in which order: if it names a plan, the account has that plan once it is
\* delivered; if it ends the only membership there was, the plan stays cancelled.
\* (A newer event that names no plan can hide one that does: README.)
NewestEventDecides ==
  \A i \in processed : Newest(i) =>
    /\ sent[i].type \in PlanEvents =>
         /\ entitlement.plan = sent[i].plan /\ entitlement.status = "active"
         /\ entitlement.membership = sent[i].membership
    /\ /\ sent[i].type = "deactivated"
       /\ \A j \in processed : sent[j].membership = sent[i].membership
       => entitlement.status = "cancelled"

\* An upgrade survives the end of the membership it replaced: a plan that took
\* effect stays paid while its membership lives and no other takes effect.
UpgradeSurvivesTheOldEnd ==
  \A i \in applied :
    /\ sent[i].type \in PlanEvents
    /\ provider[sent[i].membership] = "active"
    /\ \A j \in applied : sent[j].type \in PlanEvents
                          => sent[j].membership = sent[i].membership
                             \/ sent[j].at < sent[i].at
    => /\ entitlement.membership = sent[i].membership
       /\ entitlement.status \in PaidStatuses

\* An attempt is paid as soon as a payment of it was told of, and stays so,
\* whichever of its payments failed, and whatever was lost on the way to it.
PaidStaysPaid ==
  (\E i \in processed : sent[i].type = "succeeded") => attempt.status = "paid"
=============================================================================
