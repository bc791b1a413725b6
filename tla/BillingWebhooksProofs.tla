----------------------- MODULE BillingWebhooksProofs -----------------------
(***************************************************************************)
(* Proofs about BillingWebhooks for any memberships and any number of      *)
(* events, delivered in any order and any number of times: the newest      *)
(* event decides the plan, and an attempt that was paid stays paid.        *)
(***************************************************************************)
EXTENDS BillingWebhooks, TLAPS

\* What the provider sends: plans with the events that need one, and only after
\* a checkout was ready.
EventsNamePlans ==
  \A i \in DOMAIN sent :
    sent[i].type \in PlanEvents \cup {"deactivated"} => sent[i].plan \in PaidPlans
\* Time advances by at most one with an event.
TimesAreBounded == \A i \in DOMAIN sent : sent[i].at <= i
EventsFollowACheckout ==
  (sent # <<>> \/ \E m \in Memberships : provider[m] # "none") => attempt.ready

\* The entitlement is as old as an event that was delivered, and about one.
TimeOfAnEvent ==
  \/ entitlement.at = 0
  \/ \E i \in processed : sent[i].at = entitlement.at
MembershipOfAnEvent ==
  \/ entitlement.membership = NoMembership
  \/ \E i \in processed : sent[i].membership = entitlement.membership

\* Once the newest event is applied, the entitlement is as old as it.
NewestIsApplied ==
  \A i \in processed : Newest(i) =>
    /\ sent[i].type \in PlanEvents =>
         /\ entitlement.plan = sent[i].plan /\ entitlement.status = "active"
         /\ entitlement.membership = sent[i].membership
         /\ entitlement.at = sent[i].at
    /\ /\ sent[i].type = "deactivated"
       /\ \A j \in processed : sent[j].membership = sent[i].membership
       => entitlement.status = "cancelled" /\ entitlement.at = sent[i].at

AttemptRemembersPayment ==
  /\ (\E i \in processed : sent[i].type = "succeeded") => attempt.paid
  /\ attempt.paid => attempt.status = "paid" /\ attempt.ready

BillingInv ==
  /\ BillingTypeOK
  /\ EventsNamePlans /\ TimesAreBounded /\ EventsFollowACheckout
  /\ TimeOfAnEvent /\ MembershipOfAnEvent /\ NewestIsApplied
  /\ AttemptRemembersPayment

-----------------------------------------------------------------------------
(* The checkout and the provider. *)

LEMMA CheckoutKeeps ==
  ASSUME BillingInv,
         \/ CreateCheckoutAttempt \/ MarkCheckoutAttemptReady
         \/ MarkCheckoutAttemptFailed
  PROVE  BillingInv'
<1>1. UNCHANGED <<provider, sent, processed, applied, entitlement>>
  BY DEF CreateCheckoutAttempt, MarkCheckoutAttemptReady, MarkCheckoutAttemptFailed
<1>2. attempt' \in Attempts /\ (attempt.ready => attempt'.ready)
      /\ (attempt'.paid <=> attempt.paid)
      /\ (attempt.paid /\ attempt.status = "paid" /\ attempt.ready
          => attempt'.status = "paid")
  BY DEF BillingInv, BillingTypeOK, Attempts, CreateCheckoutAttempt,
     MarkCheckoutAttemptReady, MarkCheckoutAttemptFailed
<1>3. BillingTypeOK'
  BY <1>1, <1>2 DEF BillingInv, BillingTypeOK
<1>4. EventsNamePlans' /\ TimesAreBounded' /\ EventsFollowACheckout'
      /\ TimeOfAnEvent' /\ MembershipOfAnEvent'
  BY <1>1, <1>2 DEF BillingInv, EventsNamePlans, TimesAreBounded,
     EventsFollowACheckout, TimeOfAnEvent, MembershipOfAnEvent
<1>5. NewestIsApplied'
  BY <1>1 DEF BillingInv, NewestIsApplied, Newest
<1>6. AttemptRemembersPayment'
  BY <1>1, <1>2 DEF BillingInv, AttemptRemembersPayment
<1> QED BY <1>3, <1>4, <1>5, <1>6 DEF BillingInv

\* An event is sent and nothing is delivered: it comes after all others.
LEMMA SendingAppends ==
  ASSUME BillingInv, NEW type \in EventTypes, NEW m \in Memberships,
         NEW plan \in PaidPlans \cup {"none"}, NEW cancels \in BOOLEAN,
         Happens(type, m, plan, cancels)
  PROVE  /\ UNCHANGED <<processed, applied, entitlement, attempt>>
         /\ Len(sent) < MaxEvents /\ Len(sent) \in Nat
         /\ DOMAIN sent = 1..Len(sent) /\ processed \subseteq DOMAIN sent
         /\ \E event \in Events :
              /\ event.type = type /\ event.membership = m /\ event.plan = plan
              /\ event.at <= Len(sent) + 1
              /\ sent' \in Seq(Events) /\ Len(sent') = Len(sent) + 1
              /\ DOMAIN sent' = 1..(Len(sent) + 1)
              /\ sent'[Len(sent) + 1] = event
              /\ \A i \in DOMAIN sent : sent'[i] = sent[i]
<1>1. /\ sent \in Seq(Events) /\ Len(sent) \in Nat /\ DOMAIN sent = 1..Len(sent)
      /\ processed \subseteq DOMAIN sent
  BY DEF BillingInv, BillingTypeOK
<1>2. PICK at \in 1..(Len(sent) + 1) :
        sent' = Append(sent, [type |-> type, membership |-> m, at |-> at,
                              plan |-> plan, cancels |-> cancels])
  <2> DEFINE last == IF sent = <<>> THEN 0 ELSE sent[Len(sent)].at
  <2>1. last \in 0..Len(sent)
    <3>1. CASE sent = <<>>
      BY <3>1, <1>1
    <3>2. CASE sent # <<>>
      <4>1. Len(sent) \in DOMAIN sent
        BY <1>1, <3>2
      <4>2. sent[Len(sent)] \in Events
        BY <1>1, <4>1
      <4>3. sent[Len(sent)].at \in Nat
        BY <4>2 DEF Events
      <4> QED BY <1>1, <3>2, <4>1, <4>3 DEF BillingInv, TimesAreBounded
    <3> QED BY <3>1, <3>2
  <2>2. \E at \in {last, last + 1} \ {0} :
          sent' = Append(sent, [type |-> type, membership |-> m, at |-> at,
                                plan |-> plan, cancels |-> cancels])
    BY DEF Happens
  <2> HIDE DEF last
  <2>3. {last, last + 1} \ {0} \subseteq 1..(Len(sent) + 1)
    BY <1>1, <2>1
  <2> QED BY <2>2, <2>3
<1> DEFINE event == [type |-> type, membership |-> m, at |-> at, plan |-> plan,
                     cancels |-> cancels]
<1>3. /\ Len(sent) < MaxEvents /\ sent' = Append(sent, event)
      /\ UNCHANGED <<processed, applied, entitlement, attempt>>
  BY <1>2 DEF Happens
<1>4. event \in Events
  <2>1. at \in 1..MaxEvents
    BY <1>1, <1>3, EventsAreBounded
  <2> QED BY <2>1 DEF Events
<1>5. /\ event.type = type /\ event.membership = m /\ event.plan = plan
      /\ event.at <= Len(sent) + 1
  BY <1>1
<1> HIDE DEF event
<1>6. /\ sent' \in Seq(Events) /\ Len(sent') = Len(sent) + 1
      /\ DOMAIN sent' = 1..(Len(sent) + 1)
      /\ sent'[Len(sent) + 1] = event
      /\ \A i \in DOMAIN sent : sent'[i] = sent[i]
  BY <1>1, <1>3, <1>4
<1> QED BY <1>1, <1>3, <1>4, <1>5, <1>6

LEMMA SendingKeeps ==
  ASSUME BillingInv, NEW type \in EventTypes, NEW m \in Memberships,
         NEW plan \in PaidPlans \cup {"none"}, NEW cancels \in BOOLEAN,
         type \in PlanEvents \cup {"deactivated"} => plan \in PaidPlans,
         attempt.ready, Happens(type, m, plan, cancels),
         provider' \in [Memberships -> {"none", "active", "ended"}]
  PROVE  BillingInv'
<1>1. /\ Len(sent) \in Nat /\ DOMAIN sent = 1..Len(sent) /\ Len(sent) < MaxEvents
      /\ processed \subseteq DOMAIN sent
      /\ UNCHANGED <<processed, applied, entitlement, attempt>>
  BY SendingAppends
<1>2. PICK event \in Events :
        /\ event.type = type /\ event.plan = plan /\ event.at <= Len(sent) + 1
        /\ sent' \in Seq(Events) /\ DOMAIN sent' = 1..(Len(sent) + 1)
        /\ sent'[Len(sent) + 1] = event
        /\ \A i \in DOMAIN sent : sent'[i] = sent[i]
  BY SendingAppends
<1>3. BillingTypeOK'
  BY <1>1, <1>2 DEF BillingInv, BillingTypeOK
<1>4. EventsNamePlans' /\ TimesAreBounded'
  BY <1>1, <1>2 DEF BillingInv, EventsNamePlans, TimesAreBounded
<1>5. EventsFollowACheckout'
  BY <1>1 DEF EventsFollowACheckout
<1>6. \A i \in processed : i \in DOMAIN sent /\ sent'[i] = sent[i]
  BY <1>1, <1>2
<1>7. TimeOfAnEvent' /\ MembershipOfAnEvent' /\ AttemptRemembersPayment'
  BY <1>1, <1>6 DEF BillingInv, TimeOfAnEvent, MembershipOfAnEvent,
     AttemptRemembersPayment
<1>8. NewestIsApplied'
  BY <1>1, <1>6 DEF BillingInv, NewestIsApplied, Newest
<1> QED BY <1>3, <1>4, <1>5, <1>7, <1>8 DEF BillingInv

\* Each of the provider's actions sends one event.
LEMMA ProviderKeeps ==
  ASSUME BillingInv, NEW m \in Memberships,
         \/ \E plan \in PaidPlans : MembershipStarts(m, plan) \/ MembershipEnds(m, plan)
         \/ PaymentOrCancellation(m)
  PROVE  BillingInv'
<1>1. provider' \in [Memberships -> {"none", "active", "ended"}]
  BY DEF MembershipStarts, MembershipEnds, PaymentOrCancellation, BillingInv,
     BillingTypeOK
<1>2. CASE \E plan \in PaidPlans : MembershipStarts(m, plan)
  <2>1. PICK plan \in PaidPlans : attempt.ready /\ Happens("activated", m, plan, FALSE)
    BY <1>2 DEF MembershipStarts
  <2>2. "activated" \in EventTypes /\ FALSE \in BOOLEAN
    BY DEF EventTypes, PlanEvents
  <2> QED BY <1>1, <2>1, <2>2, SendingKeeps
<1>3. CASE \E plan \in PaidPlans : MembershipEnds(m, plan)
  <2>1. PICK plan \in PaidPlans : provider[m] = "active"
                                  /\ Happens("deactivated", m, plan, FALSE)
    BY <1>3 DEF MembershipEnds
  <2>2. "deactivated" \in EventTypes /\ FALSE \in BOOLEAN
    BY DEF EventTypes
  <2>3. attempt.ready
    BY <2>1 DEF BillingInv, EventsFollowACheckout
  <2> QED BY <1>1, <2>1, <2>2, <2>3, SendingKeeps
<1>4. CASE PaymentOrCancellation(m)
  <2>1. attempt.ready
    BY <1>4 DEF PaymentOrCancellation, BillingInv, EventsFollowACheckout
  <2>2. CASE \E plan \in PaidPlans : Happens("succeeded", m, plan, FALSE)
    <3>1. "succeeded" \in EventTypes
      BY DEF EventTypes, PlanEvents
    <3> QED BY <1>1, <2>1, <2>2, <3>1, SendingKeeps
  <2>3. CASE \E type \in {"failed", "pending"}, plan \in {"pro", "none"} :
               Happens(type, m, plan, FALSE)
    <3>1. /\ {"failed", "pending"} \subseteq EventTypes
          /\ {"failed", "pending"} \cap (PlanEvents \cup {"deactivated"}) = {}
          /\ {"pro", "none"} \subseteq PaidPlans \cup {"none"}
      BY DEF EventTypes, PlanEvents, PaidPlans
    <3> QED BY <1>1, <2>1, <2>3, <3>1, SendingKeeps
  <2>4. CASE \E cancels \in BOOLEAN : Happens("cancel_changed", m, "none", cancels)
    <3>1. "cancel_changed" \in EventTypes
          /\ "cancel_changed" \notin PlanEvents \cup {"deactivated"}
      BY DEF EventTypes, PlanEvents
    <3> QED BY <1>1, <2>1, <2>4, <3>1, SendingKeeps
  <2> QED BY <1>4, <2>2, <2>3, <2>4 DEF PaymentOrCancellation
<1> QED BY <1>2, <1>3, <1>4

-----------------------------------------------------------------------------
(* A delivery. *)

\* What an event makes of the entitlement: nothing, a note that it will end, or
\* its plan, its membership and its time.
LEMMA EntitledByCases ==
  ASSUME BillingInv, NEW i \in DOMAIN sent
  PROVE  /\ EntitledBy(sent[i]) \in Entitlements
         /\ \/ /\ EntitledBy(sent[i]) = entitlement
               /\ \/ IsStale(sent[i]) \/ IsOfAnother(sent[i])
                  \/ sent[i].type \notin PlanEvents \cup {"deactivated"}
            \/ /\ ~IsStale(sent[i]) /\ ~IsOfAnother(sent[i])
               /\ sent[i].type \notin PlanEvents \cup {"deactivated"}
               /\ EntitledBy(sent[i]).at = sent[i].at
               /\ EntitledBy(sent[i]).membership
                    \in {entitlement.membership, sent[i].membership}
            \/ /\ ~IsStale(sent[i]) /\ ~IsOfAnother(sent[i])
               /\ EntitledBy(sent[i]).at = sent[i].at
               /\ EntitledBy(sent[i]).membership = sent[i].membership
               /\ sent[i].type \in PlanEvents =>
                    /\ EntitledBy(sent[i]).plan = sent[i].plan
                    /\ EntitledBy(sent[i]).status = "active"
               /\ sent[i].type = "deactivated" =>
                    EntitledBy(sent[i]).status = "cancelled"
<1> DEFINE e == sent[i]
<1>1. e \in Events /\ entitlement \in Entitlements
  BY DEF BillingInv, BillingTypeOK
<1>2. e.type \in PlanEvents \cup {"deactivated"} => e.plan \in PaidPlans
  BY DEF BillingInv, EventsNamePlans
<1>3. /\ ResolvedPlan(e) \in PaidPlans \cup {"preview"}
      /\ e.type \in PlanEvents => ResolvedPlan(e) = e.plan /\ e.plan # "preview"
  BY <1>1, <1>2 DEF ResolvedPlan, Events, Entitlements, PaidPlans
<1>4. /\ ResolvedStatus(e) \in PaidStatuses \cup {"cancelled"}
      /\ e.type \in PlanEvents => ResolvedStatus(e) = "active"
      /\ e.type = "deactivated" => ResolvedStatus(e) = "cancelled"
  BY <1>1 DEF ResolvedStatus, Events, Entitlements, EventTypes, PlanEvents, PaidStatuses
<1>5. e.at \in 0..MaxEvents /\ e.membership \in Memberships /\ e.cancels \in BOOLEAN
      /\ "cancel_changed" \notin PlanEvents \cup {"deactivated"}
  BY <1>1 DEF Events, PlanEvents
<1> DEFINE noted == [entitlement EXCEPT !.cancels = e.cancels, !.at = e.at]
           moved == [entitlement EXCEPT !.plan = ResolvedPlan(e), !.at = e.at,
                       !.status = ResolvedStatus(e), !.membership = e.membership]
<1>6. noted \in Entitlements /\ moved \in Entitlements
  BY <1>1, <1>3, <1>4, <1>5, Zenon DEF Entitlements
<1>7. /\ noted.at = e.at /\ noted.membership = entitlement.membership
      /\ moved.at = e.at /\ moved.membership = e.membership
      /\ moved.plan = ResolvedPlan(e) /\ moved.status = ResolvedStatus(e)
  BY <1>1 DEF Entitlements
<1>8. EntitledBy(e) = IF IsStale(e) \/ IsOfAnother(e) THEN entitlement
        ELSE IF e.type = "cancel_changed" THEN noted
        ELSE IF ResolvedPlan(e) = "preview" /\ e.type # "deactivated" THEN entitlement
        ELSE moved
  BY DEF EntitledBy
<1> HIDE DEF noted, moved, e
<1>9. /\ EntitledBy(e) \in Entitlements
      /\ \/ /\ EntitledBy(e) = entitlement
            /\ \/ IsStale(e) \/ IsOfAnother(e)
               \/ e.type \notin PlanEvents \cup {"deactivated"}
         \/ /\ ~IsStale(e) /\ ~IsOfAnother(e)
            /\ e.type \notin PlanEvents \cup {"deactivated"}
            /\ EntitledBy(e).at = e.at
            /\ EntitledBy(e).membership \in {entitlement.membership, e.membership}
         \/ /\ ~IsStale(e) /\ ~IsOfAnother(e)
            /\ EntitledBy(e).at = e.at /\ EntitledBy(e).membership = e.membership
            /\ e.type \in PlanEvents => /\ EntitledBy(e).plan = e.plan
                                        /\ EntitledBy(e).status = "active"
            /\ e.type = "deactivated" => EntitledBy(e).status = "cancelled"
  BY <1>1, <1>3, <1>4, <1>5, <1>6, <1>7, <1>8
<1> QED BY <1>9 DEF e

\* A new event that is the newest is neither stale nor, if it names a plan or all
\* events are of one membership, of another one; afterwards all others are stale.
LEMMA DeliverKeeps ==
  ASSUME BillingInv, NEW i \in 1..MaxEvents, Deliver(i)
  PROVE  BillingInv'
<1>1. CASE i \in processed
  <2>1. UNCHANGED billingVars
    BY <1>1 DEF Deliver, billingVars
  <2> QED BY <2>1 DEF billingVars, BillingInv, BillingTypeOK, EventsNamePlans,
          TimesAreBounded, EventsFollowACheckout, TimeOfAnEvent,
          MembershipOfAnEvent, NewestIsApplied, Newest, AttemptRemembersPayment
<1>2. CASE i \notin processed
  <2> DEFINE e == sent[i]
  <2>1. /\ i \in DOMAIN sent /\ processed' = processed \cup {i}
        /\ attempt' = SettledAttempt(e) /\ entitlement' = EntitledBy(e)
        /\ applied' \subseteq applied \cup {i}
        /\ provider' = provider /\ sent' = sent
    BY <1>2 DEF Deliver
  <2>2. e \in Events /\ entitlement \in Entitlements
    BY <2>1 DEF BillingInv, BillingTypeOK
  <2>3. /\ entitlement' \in Entitlements
        /\ \/ /\ entitlement' = entitlement
              /\ \/ IsStale(e) \/ IsOfAnother(e)
                 \/ e.type \notin PlanEvents \cup {"deactivated"}
           \/ /\ ~IsStale(e) /\ ~IsOfAnother(e)
              /\ e.type \notin PlanEvents \cup {"deactivated"}
              /\ entitlement'.at = e.at
              /\ entitlement'.membership \in {entitlement.membership, e.membership}
           \/ /\ ~IsStale(e) /\ ~IsOfAnother(e)
              /\ entitlement'.at = e.at /\ entitlement'.membership = e.membership
              /\ e.type \in PlanEvents => /\ entitlement'.plan = e.plan
                                          /\ entitlement'.status = "active"
              /\ e.type = "deactivated" => entitlement'.status = "cancelled"
    BY <2>1, EntitledByCases
  <2>4. /\ attempt' \in Attempts /\ (attempt.ready => attempt'.ready)
        /\ attempt.paid \/ e.type = "succeeded" => attempt'.paid
        /\ attempt'.paid => attempt.paid \/ e.type = "succeeded"
        /\ e.type = "succeeded" => attempt'.status = "paid"
        /\ attempt.paid => attempt'.status \in {attempt.status, "paid"}
    BY <2>1 DEF SettledAttempt, BillingInv, BillingTypeOK, Attempts
  <2>5. BillingTypeOK'
    BY <2>1, <2>3, <2>4 DEF BillingInv, BillingTypeOK
  <2>6. EventsNamePlans' /\ TimesAreBounded' /\ EventsFollowACheckout'
    BY <2>1, <2>4 DEF BillingInv, EventsNamePlans, TimesAreBounded,
       EventsFollowACheckout
  <2>7. attempt.ready
    BY <2>1 DEF BillingInv, BillingTypeOK, EventsFollowACheckout
  <2>8. AttemptRemembersPayment'
    BY <2>1, <2>4, <2>7 DEF BillingInv, AttemptRemembersPayment
  <2>9. TimeOfAnEvent' /\ MembershipOfAnEvent'
    BY <2>1, <2>3 DEF BillingInv, TimeOfAnEvent, MembershipOfAnEvent
  <2>10. NewestIsApplied'
    <3> SUFFICES ASSUME NEW k \in processed', Newest(k)'
                 PROVE  /\ sent[k].type \in PlanEvents =>
                             /\ entitlement'.plan = sent[k].plan
                             /\ entitlement'.status = "active"
                             /\ entitlement'.membership = sent[k].membership
                             /\ entitlement'.at = sent[k].at
                        /\ /\ sent[k].type = "deactivated"
                           /\ \A j \in processed' : sent[j].membership = sent[k].membership
                           => entitlement'.status = "cancelled"
                              /\ entitlement'.at = sent[k].at
      BY <2>1 DEF NewestIsApplied
    <3>1. \A j \in processed' \ {k} : sent[j].at < sent[k].at
      BY <2>1 DEF Newest
    <3>2. /\ processed \subseteq DOMAIN sent
          /\ \A j \in DOMAIN sent : sent[j].at \in Nat
          /\ entitlement.at \in Nat
      <4>1. processed \subseteq DOMAIN sent
        BY DEF BillingInv, BillingTypeOK
      <4>2. \A j \in DOMAIN sent : sent[j] \in Events
        BY DEF BillingInv, BillingTypeOK
      <4>3. \A x \in Events : x.at \in Nat
        BY DEF Events
      <4>4. entitlement.at \in Nat
        BY <2>2 DEF Entitlements
      <4> QED BY <4>1, <4>2, <4>3, <4>4
    <3>3. CASE k = i
      <4>1. ~IsStale(e)
        <5>1. CASE entitlement.at = 0
          BY <2>1, <3>2, <5>1 DEF IsStale
        <5>2. CASE \E j \in processed : sent[j].at = entitlement.at
          <6>1. PICK j \in processed : sent[j].at = entitlement.at
            BY <5>2
          <6>2. j # k /\ j \in processed'
            BY <1>2, <2>1, <3>3
          <6>3. entitlement.at < e.at
            BY <3>1, <3>3, <6>1, <6>2
          <6> QED BY <2>1, <3>2, <6>3 DEF IsStale
        <5> QED BY <5>1, <5>2 DEF BillingInv, TimeOfAnEvent
      <4>2. e.type \in PlanEvents => ~IsOfAnother(e)
        BY DEF IsOfAnother, PlanEvents, OfTheCurrentMembershipOnly
      <4>3. (\A j \in processed' : sent[j].membership = e.membership)
              => ~IsOfAnother(e)
        BY <2>1 DEF IsOfAnother, BillingInv, MembershipOfAnEvent
      <4> QED BY <2>3, <3>3, <4>1, <4>2, <4>3
    <3>4. CASE k # i
      <4>1. k \in processed /\ e.at < sent[k].at
            /\ \A j \in processed \ {k} : sent[j].at < sent[k].at
        BY <2>1, <3>1, <3>4
      <4>2. Newest(k)
        BY <4>1 DEF Newest
      <4>3. entitlement.at = sent[k].at => entitlement' = entitlement
        BY <2>1, <2>3, <3>2, <4>1 DEF IsStale
      <4> QED BY <2>1, <4>1, <4>2, <4>3 DEF BillingInv, NewestIsApplied
    <3> QED BY <3>3, <3>4
  <2> QED BY <2>5, <2>6, <2>8, <2>9, <2>10 DEF BillingInv
<1> QED BY <1>1, <1>2

-----------------------------------------------------------------------------
(* The end of the membership that an upgrade replaced. *)

\* What was sent happened: memberships that have events are no new ones, and one
\* that was told to have ended has.
TalesAreTrue ==
  \A i \in DOMAIN sent :
    /\ provider[sent[i].membership] # "none"
    /\ sent[i].type = "deactivated" => provider[sent[i].membership] = "ended"
\* The entitlement is not older than what it took up.
AppliedIsPast == \A i \in applied : sent[i].at <= entitlement.at
SurvivalInv == TalesAreTrue /\ AppliedIsPast /\ UpgradeSurvivesTheOldEnd

\* A membership has one life.
Lives(m) ==
  /\ provider[m] # "none" => provider'[m] # "none"
  /\ provider[m] = "ended" => provider'[m] = "ended"
  /\ provider'[m] = "active" => provider[m] # "ended"

LEMMA SendingSurvives ==
  ASSUME BillingInv, SurvivalInv, NEW type \in EventTypes, NEW m \in Memberships,
         NEW plan \in PaidPlans \cup {"none"}, NEW cancels \in BOOLEAN,
         Happens(type, m, plan, cancels),
         \A x \in Memberships : Lives(x),
         provider'[m] # "none", type = "deactivated" => provider'[m] = "ended"
  PROVE  SurvivalInv'
<1>1. /\ processed \subseteq DOMAIN sent /\ DOMAIN sent = 1..Len(sent)
      /\ Len(sent) \in Nat
      /\ UNCHANGED <<processed, applied, entitlement, attempt>>
  BY SendingAppends
<1>2. PICK event \in Events :
        /\ event.type = type /\ event.membership = m
        /\ DOMAIN sent' = 1..(Len(sent) + 1)
        /\ sent'[Len(sent) + 1] = event
        /\ \A i \in DOMAIN sent : sent'[i] = sent[i]
  BY SendingAppends
<1>3. \A i \in DOMAIN sent : sent[i].membership \in Memberships
  <2>1. \A i \in DOMAIN sent : sent[i] \in Events
    BY DEF BillingInv, BillingTypeOK
  <2> QED BY <2>1 DEF Events
<1>4. TalesAreTrue'
  <2>1. ASSUME NEW i \in DOMAIN sent'
        PROVE  /\ provider'[sent'[i].membership] # "none"
               /\ sent'[i].type = "deactivated" =>
                    provider'[sent'[i].membership] = "ended"
    <3>1. CASE i \in DOMAIN sent
      BY <1>2, <1>3, <3>1 DEF SurvivalInv, TalesAreTrue, Lives
    <3>2. CASE i = Len(sent) + 1
      BY <1>2, <3>2
    <3> QED BY <1>1, <1>2, <2>1, <3>1, <3>2
  <2> QED BY <2>1 DEF TalesAreTrue
<1>5. applied \subseteq DOMAIN sent /\ \A i \in applied : sent'[i] = sent[i]
  BY <1>1, <1>2 DEF BillingInv, BillingTypeOK
<1>6. AppliedIsPast'
  BY <1>1, <1>5 DEF SurvivalInv, AppliedIsPast
<1>7. \A i \in applied : provider'[sent[i].membership] = "active"
                         => provider[sent[i].membership] = "active"
  <2>1. \A x \in Memberships : provider[x] \in {"none", "active", "ended"}
    BY DEF BillingInv, BillingTypeOK
  <2> QED BY <1>3, <1>5, <2>1 DEF SurvivalInv, TalesAreTrue, Lives
<1>8. UpgradeSurvivesTheOldEnd'
  BY <1>1, <1>5, <1>7 DEF SurvivalInv, UpgradeSurvivesTheOldEnd
<1> QED BY <1>4, <1>6, <1>8 DEF SurvivalInv

LEMMA ProviderSurvives ==
  ASSUME BillingInv, SurvivalInv, NEW m \in Memberships,
         \/ \E plan \in PaidPlans : MembershipStarts(m, plan) \/ MembershipEnds(m, plan)
         \/ PaymentOrCancellation(m)
  PROVE  SurvivalInv'
<1>1. provider \in [Memberships -> {"none", "active", "ended"}]
  BY DEF BillingInv, BillingTypeOK
<1>2. /\ {"activated", "deactivated", "succeeded", "failed", "pending",
          "cancel_changed"} \subseteq EventTypes
      /\ PaidPlans \subseteq PaidPlans \cup {"none"} /\ FALSE \in BOOLEAN
      /\ {"pro", "none"} \subseteq PaidPlans \cup {"none"}
  BY DEF EventTypes, PlanEvents, PaidPlans
<1>3. ASSUME NEW plan \in PaidPlans, MembershipStarts(m, plan)
      PROVE  SurvivalInv'
  <2>1. (\A x \in Memberships : Lives(x)) /\ provider'[m] # "none"
    BY <1>1, <1>3 DEF MembershipStarts, Lives
  <2>2. Happens("activated", m, plan, FALSE)
    BY <1>3 DEF MembershipStarts
  <2> QED BY <1>2, <2>1, <2>2, SendingSurvives
<1>4. ASSUME NEW plan \in PaidPlans, MembershipEnds(m, plan)
      PROVE  SurvivalInv'
  <2>1. (\A x \in Memberships : Lives(x)) /\ provider'[m] = "ended"
    BY <1>1, <1>4 DEF MembershipEnds, Lives
  <2>2. Happens("deactivated", m, plan, FALSE)
    BY <1>4 DEF MembershipEnds
  <2> QED BY <1>2, <2>1, <2>2, SendingSurvives
<1>5. CASE PaymentOrCancellation(m)
  <2>1. (\A x \in Memberships : Lives(x)) /\ provider'[m] # "none"
    BY <1>1, <1>5 DEF PaymentOrCancellation, Lives
  <2>2. PICK type \in EventTypes \ {"deactivated"}, plan \in PaidPlans \cup {"none"},
             cancels \in BOOLEAN : Happens(type, m, plan, cancels)
    BY <1>2, <1>5 DEF PaymentOrCancellation
  <2> QED BY <2>1, <2>2, SendingSurvives
<1> QED BY <1>3, <1>4, <1>5

\* No other event than the end of a membership makes a paid plan unpaid.
LEMMA PaidUntilTheEnd ==
  ASSUME BillingInv, NEW i \in DOMAIN sent, sent[i].type # "deactivated",
         entitlement.status \in PaidStatuses
  PROVE  EntitledBy(sent[i]).status \in PaidStatuses
<1> DEFINE e == sent[i]
<1>1. e \in Events /\ entitlement \in Entitlements
  BY DEF BillingInv, BillingTypeOK
<1>2. ResolvedStatus(e) \in PaidStatuses
  BY DEF ResolvedStatus, PaidStatuses
<1> DEFINE noted == [entitlement EXCEPT !.cancels = e.cancels, !.at = e.at]
           moved == [entitlement EXCEPT !.plan = ResolvedPlan(e), !.at = e.at,
                       !.status = ResolvedStatus(e), !.membership = e.membership]
<1>3. noted.status = entitlement.status /\ moved.status = ResolvedStatus(e)
  BY <1>1 DEF Entitlements
<1>4. EntitledBy(e) \in {entitlement, noted, moved}
  BY DEF EntitledBy
<1> HIDE DEF noted, moved, e
<1> QED BY <1>2, <1>3, <1>4 DEF e

\* While the membership of an upgrade lives, no event ends its plan: those of
\* other memberships that could are ignored, and those that name a plan are old.
LEMMA DeliverSurvives ==
  ASSUME BillingInv, SurvivalInv, NEW k \in 1..MaxEvents, Deliver(k)
  PROVE  SurvivalInv'
<1>1. provider' = provider /\ sent' = sent /\ k \in DOMAIN sent
  BY DEF Deliver
<1>2. TalesAreTrue'
  BY <1>1 DEF SurvivalInv, TalesAreTrue
<1>3. CASE entitlement' = entitlement
  <2>1. applied' = applied
    BY <1>3 DEF Deliver
  <2> QED BY <1>1, <1>2, <1>3, <2>1
          DEF SurvivalInv, AppliedIsPast, UpgradeSurvivesTheOldEnd
<1>4. CASE entitlement' # entitlement
  <2> DEFINE e == sent[k]
  <2>1. /\ applied' = applied \cup {k} /\ entitlement' = EntitledBy(e)
        /\ k \notin processed
    BY <1>4 DEF Deliver
  <2>2. /\ ~IsStale(e) /\ ~IsOfAnother(e) /\ entitlement'.at = e.at
        /\ entitlement'.membership \in {entitlement.membership, e.membership}
        /\ e.type \in PlanEvents \cup {"deactivated"} =>
             entitlement'.membership = e.membership
        /\ e.type \in PlanEvents => entitlement'.status = "active"
    BY <1>1, <1>4, <2>1, EntitledByCases
  <2>3. /\ \A i \in DOMAIN sent : sent[i].at \in Nat /\ sent[i].type \in EventTypes
        /\ applied \subseteq DOMAIN sent
        /\ entitlement.at \in Nat
        /\ e.membership # NoMembership /\ e.type \in EventTypes
    <3>1. /\ \A i \in DOMAIN sent : sent[i] \in Events
          /\ applied \subseteq DOMAIN sent /\ entitlement \in Entitlements
      BY DEF BillingInv, BillingTypeOK
    <3> QED BY <1>1, <3>1, NoMembershipIsFresh DEF Events, Entitlements
  <2>4. entitlement.at <= e.at
    BY <1>1, <2>2, <2>3 DEF IsStale
  <2>5. \A i \in applied : sent[i].at <= e.at
    BY <1>1, <2>3, <2>4 DEF SurvivalInv, AppliedIsPast
  <2>6. AppliedIsPast'
    BY <1>1, <2>1, <2>2, <2>3, <2>5 DEF AppliedIsPast
  <2>7. UpgradeSurvivesTheOldEnd'
    <3>1. SUFFICES
            ASSUME NEW i \in applied', sent[i].type \in PlanEvents,
                   provider[sent[i].membership] = "active",
                   \A j \in applied' : sent[j].type \in PlanEvents =>
                     \/ sent[j].membership = sent[i].membership
                     \/ sent[j].at < sent[i].at
            PROVE  /\ entitlement'.membership = sent[i].membership
                   /\ entitlement'.status \in PaidStatuses
      BY <1>1 DEF UpgradeSurvivesTheOldEnd
    <3>2. CASE i = k
      BY <2>2, <3>1, <3>2 DEF PlanEvents, PaidStatuses
    <3>3. CASE i \in applied
      <4>1. /\ entitlement.membership = sent[i].membership
            /\ entitlement.status \in PaidStatuses
        BY <2>1, <3>1, <3>3 DEF SurvivalInv, UpgradeSurvivesTheOldEnd
      <4>2. CASE e.type \in PlanEvents
        <5>1. e.membership = sent[i].membership
          <6>1. e.membership = sent[i].membership \/ e.at < sent[i].at
            BY <2>1, <3>1, <4>2
          <6>2. sent[i].at <= e.at /\ sent[i].at \in Nat /\ e.at \in Nat
            BY <1>1, <2>3, <2>5, <3>3
          <6> QED BY <6>1, <6>2
        <5> QED BY <2>2, <4>2, <5>1 DEF PaidStatuses
      <4>3. CASE e.type \notin PlanEvents
        <5>1. e.membership = entitlement.membership
              \/ entitlement.membership = NoMembership
          BY <2>2, <2>3, <4>3
             DEF IsOfAnother, EventTypes, OfTheCurrentMembershipOnly
        <5>2. sent[i].membership # NoMembership
          <6>1. sent[i] \in Events
            BY <2>3, <3>3 DEF BillingInv, BillingTypeOK
          <6> QED BY <6>1, NoMembershipIsFresh DEF Events
        <5>3. e.membership = sent[i].membership
          BY <4>1, <5>1, <5>2
        <5>4. e.type # "deactivated"
          BY <1>1, <3>1, <5>3 DEF SurvivalInv, TalesAreTrue
        <5>5. entitlement'.status \in PaidStatuses
          BY <1>1, <2>1, <4>1, <5>4, PaidUntilTheEnd
        <5> QED BY <2>2, <4>1, <5>3, <5>5
      <4> QED BY <4>2, <4>3
    <3> QED BY <2>1, <3>2, <3>3
  <2> QED BY <1>2, <2>6, <2>7 DEF SurvivalInv
<1> QED BY <1>3, <1>4

LEMMA SurvivalNext ==
  BillingInv /\ SurvivalInv /\ [BillingNext]_billingVars => SurvivalInv'
<1> SUFFICES ASSUME BillingInv, SurvivalInv, [BillingNext]_billingVars
             PROVE  SurvivalInv'
  OBVIOUS
<1>1. CASE UNCHANGED <<provider, sent, applied, entitlement>>
  BY <1>1 DEF SurvivalInv, TalesAreTrue, AppliedIsPast, UpgradeSurvivesTheOldEnd
<1>2. CASE CreateCheckoutAttempt \/ MarkCheckoutAttemptReady
           \/ MarkCheckoutAttemptFailed
  BY <1>1, <1>2
     DEF CreateCheckoutAttempt, MarkCheckoutAttemptReady, MarkCheckoutAttemptFailed
<1>3. CASE BillingNext
  BY <1>2, <1>3, ProviderSurvives, DeliverSurvives DEF BillingNext
<1> QED BY <1>1, <1>3 DEF billingVars

-----------------------------------------------------------------------------
(* The theorems. *)

LEMMA BillingInitInv == BillingInit => BillingInv
  BY EventsAreBounded
  DEF BillingInit, BillingInv, BillingTypeOK, Entitlements, Attempts, PaidPlans,
      PaidStatuses, EventsNamePlans, TimesAreBounded, EventsFollowACheckout,
      TimeOfAnEvent, MembershipOfAnEvent, NewestIsApplied, AttemptRemembersPayment

LEMMA BillingNextKeeps == BillingInv /\ [BillingNext]_billingVars => BillingInv'
<1> SUFFICES ASSUME BillingInv, [BillingNext]_billingVars PROVE BillingInv'
  OBVIOUS
<1>1. CASE UNCHANGED billingVars
  BY <1>1 DEF billingVars, BillingInv, BillingTypeOK, EventsNamePlans,
     TimesAreBounded, EventsFollowACheckout, TimeOfAnEvent, MembershipOfAnEvent,
     NewestIsApplied, Newest, AttemptRemembersPayment
<1>2. CASE BillingNext
  BY <1>2, CheckoutKeeps, ProviderKeeps, DeliverKeeps DEF BillingNext
<1> QED BY <1>1, <1>2

\* handleWhopWebhook and the checkout keep the entitlement and the attempt in step
\* with the events that were processed.
THEOREM BillingInvariance == BillingSpec => []BillingInv
<1> QED BY BillingInitInv, BillingNextKeeps, PTL DEF BillingSpec

\* handleWhopWebhook: in whatever order events arrive, and however often, the
\* newest one decides the plan of the account or ends it.
THEOREM NewestEventDecidesAlways == BillingSpec => []NewestEventDecides
<1>1. BillingInv => NewestEventDecides
  BY DEF BillingInv, NewestIsApplied, NewestEventDecides
<1> QED BY <1>1, BillingInvariance, PTL

\* An attempt that was paid stays paid, whichever of its payments failed and
\* whatever the checkout lost: markCheckoutAttemptFailed, handleWhopWebhook.
THEOREM PaidStaysPaidAlways == BillingSpec => []PaidStaysPaid
<1>1. BillingInv => PaidStaysPaid
  BY DEF BillingInv, AttemptRemembersPayment, PaidStaysPaid
<1> QED BY <1>1, BillingInvariance, PTL

\* The rows and the checkout attempt have their types, whatever arrives.
THEOREM BillingTypes == BillingSpec => []BillingTypeOK
<1>1. BillingInv => BillingTypeOK
  BY DEF BillingInv
<1> QED BY <1>1, BillingInvariance, PTL

\* isOfAnother and the stale check of handleWhopWebhook: an upgrade stays paid
\* when the membership it replaced ends, however late that is told, as long as
\* its own membership lives.
THEOREM UpgradeSurvivesTheOldEndAlways ==
  BillingSpec => []UpgradeSurvivesTheOldEnd
<1>1. BillingInit => SurvivalInv
  BY DEF BillingInit, SurvivalInv, TalesAreTrue, AppliedIsPast,
     UpgradeSurvivesTheOldEnd
<1>2. SurvivalInv => UpgradeSurvivesTheOldEnd
  BY DEF SurvivalInv
<1> QED BY <1>1, <1>2, BillingInvariance, SurvivalNext, PTL DEF BillingSpec
=============================================================================
