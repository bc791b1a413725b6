------------------------ MODULE AccountCreditsProofs ------------------------
(***************************************************************************)
(* Proofs about AccountCredits for any number of requests and keys, any    *)
(* costs and allowances, and any interleaving of requests, readers, plan   *)
(* changes, expiries and lost answers: no admission exceeds the balance by *)
(* more than the runs charged between its own two reads, no credit is      *)
(* counted twice, and only completed runs are charged.                     *)
(***************************************************************************)
EXTENDS AccountCredits, FiniteSetTheorems, TLAPS

-----------------------------------------------------------------------------
(* What keys cost. *)

IsTargeted(rs) == \A q \in Requests : rs[q].target \in Targets

CostOfKey(rs, k) ==
  CASE k = "translation" -> TranslationCost
    [] k = "view" -> ViewCost
    [] OTHER -> IF rs[k].target = "department" THEN DepartmentCost
                ELSE CommitteeCost

LEMMA Products ==
  /\ \A a, b \in Nat : a * b \in Nat
  /\ \A a, b \in Nat : a * (b + 1) = a * b + a
  OBVIOUS

LEMMA ResearchedIsFinite ==
  ASSUME NEW rs, NEW keys \in SUBSET UsageKeys, NEW target \in Targets
  PROVE  /\ IsFiniteSet(Researched(rs, keys, target))
         /\ Cardinality(Researched(rs, keys, target)) \in Nat
<1>1. Researched(rs, keys, target) \subseteq Requests
  BY DEF Researched
<1>2. IsFiniteSet(Researched(rs, keys, target))
  BY <1>1, RequestsAreFinite, FS_Subset
<1> QED BY <1>2, FS_CardinalityType

LEMMA TotalCostType ==
  ASSUME NEW rs, NEW keys \in SUBSET UsageKeys
  PROVE  TotalCost(rs, keys) \in Nat
<1>1. "committee" \in Targets /\ "department" \in Targets
  BY DEF Targets
<1>2. /\ Cardinality(Researched(rs, keys, "committee")) \in Nat
      /\ Cardinality(Researched(rs, keys, "department")) \in Nat
  BY <1>1, ResearchedIsFinite
<1>3. /\ CommitteeCost * Cardinality(Researched(rs, keys, "committee")) \in Nat
      /\ DepartmentCost * Cardinality(Researched(rs, keys, "department")) \in Nat
  BY <1>2, CreditsAreNatural, Products
<1> QED BY <1>3, CreditsAreNatural DEF TotalCost

\* The cost depends on the targets of the keys only.
LEMMA TotalCostFrame ==
  ASSUME NEW rs, NEW rt, NEW keys,
         \A q \in keys \cap Requests : rs[q].target = rt[q].target
  PROVE  TotalCost(rs, keys) = TotalCost(rt, keys)
<1>1. \A target \in Targets :
        Researched(rs, keys, target) = Researched(rt, keys, target)
  BY DEF Researched
<1> QED BY <1>1 DEF TotalCost, Targets

\* A key that is added adds its cost.
LEMMA TotalCostAdd ==
  ASSUME NEW rs, IsTargeted(rs), NEW keys \in SUBSET UsageKeys,
         NEW k \in UsageKeys, k \notin keys
  PROVE  TotalCost(rs, keys \cup {k}) = TotalCost(rs, keys) + CostOfKey(rs, k)
<1> DEFINE C(s) == Cardinality(Researched(rs, s, "committee"))
           D(s) == Cardinality(Researched(rs, s, "department"))
           T(s) == IF "translation" \in s THEN TranslationCost ELSE 0
           V(s) == IF "view" \in s THEN ViewCost ELSE 0
           more == keys \cup {k}
<1>1. /\ TotalCost(rs, keys) = CommitteeCost * C(keys) + DepartmentCost * D(keys)
                               + T(keys) + V(keys)
      /\ TotalCost(rs, more) = CommitteeCost * C(more) + DepartmentCost * D(more)
                               + T(more) + V(more)
  BY DEF TotalCost
<1>2. "committee" \in Targets /\ "department" \in Targets /\ "committee" # "department"
  BY DEF Targets
<1>3. C(keys) \in Nat /\ D(keys) \in Nat
      /\ IsFiniteSet(Researched(rs, keys, "committee"))
      /\ IsFiniteSet(Researched(rs, keys, "department"))
  BY <1>2, ResearchedIsFinite
<1>4. /\ CommitteeCost * C(keys) \in Nat /\ DepartmentCost * D(keys) \in Nat
      /\ CommitteeCost * (C(keys) + 1) = CommitteeCost * C(keys) + CommitteeCost
      /\ DepartmentCost * (D(keys) + 1) = DepartmentCost * D(keys) + DepartmentCost
      /\ CommitteeCost \in Nat /\ DepartmentCost \in Nat
      /\ TranslationCost \in Nat /\ ViewCost \in Nat
  BY <1>3, CreditsAreNatural, Products
<1>5. CASE k \in Consumptions
  <2>1. k \notin Requests
    BY <1>5, RequestsAreNoConsumptions
  <2>2. \A target : Researched(rs, more, target) = Researched(rs, keys, target)
    BY <2>1 DEF Researched
  <2>3. C(more) = C(keys) /\ D(more) = D(keys)
    BY <2>2
  <2>4. T(more) + V(more) = T(keys) + V(keys) + CostOfKey(rs, k)
    BY <1>4, <1>5 DEF Consumptions, CostOfKey
  <2>5. T(keys) \in Nat /\ V(keys) \in Nat /\ T(more) \in Nat /\ V(more) \in Nat
        /\ CostOfKey(rs, k) \in Nat
    BY <1>4, <1>5 DEF Consumptions, CostOfKey
  <2> HIDE DEF C, D, T, V
  <2> QED BY <1>1, <1>4, <2>3, <2>4, <2>5
<1>6. CASE k \in Requests
  <2>1. k \notin Consumptions
    BY <1>6, RequestsAreNoConsumptions
  <2>2. T(more) = T(keys) /\ V(more) = V(keys) /\ T(keys) \in Nat /\ V(keys) \in Nat
    BY <1>4, <2>1 DEF Consumptions
  <2>3. CASE rs[k].target = "department"
    <3>1. /\ Researched(rs, more, "department") = Researched(rs, keys, "department") \cup {k}
          /\ k \notin Researched(rs, keys, "department")
          /\ Researched(rs, more, "committee") = Researched(rs, keys, "committee")
      BY <1>2, <1>6, <2>3 DEF Researched
    <3>2. D(more) = D(keys) + 1 /\ C(more) = C(keys)
      BY <1>3, <3>1, FS_AddElement
    <3>3. CostOfKey(rs, k) = DepartmentCost
      BY <2>1, <2>3 DEF CostOfKey, Consumptions
    <3> HIDE DEF C, D, T, V
    <3> QED BY <1>1, <1>4, <2>2, <3>2, <3>3
  <2>4. CASE rs[k].target # "department"
    <3>0. rs[k].target = "committee"
      BY <1>6, <2>4 DEF IsTargeted, Targets
    <3>1. /\ Researched(rs, more, "committee") = Researched(rs, keys, "committee") \cup {k}
          /\ k \notin Researched(rs, keys, "committee")
          /\ Researched(rs, more, "department") = Researched(rs, keys, "department")
      BY <1>2, <1>6, <3>0 DEF Researched
    <3>2. C(more) = C(keys) + 1 /\ D(more) = D(keys)
      BY <1>3, <3>1, FS_AddElement
    <3>3. CostOfKey(rs, k) = CommitteeCost
      BY <2>1, <2>4 DEF CostOfKey, Consumptions
    <3> HIDE DEF C, D, T, V
    <3> QED BY <1>1, <1>4, <2>2, <3>2, <3>3
  <2> QED BY <2>3, <2>4
<1> QED BY <1>5, <1>6 DEF UsageKeys

-----------------------------------------------------------------------------
(* The invariant. *)

PeriodIsReached == period <= changes + 1
\* Only the holder of the entitlement's lock has read the account.
LockIsHeld == \A q \in Requests : request[q].at = "counted" => lock = q
MonthsAreSet ==
  \A q \in Requests : request[q].at \in {"begun", "counted"}
                        => request[q].month \in Periods
\* A run comes of a request whose transaction is over.
RunsAreMade ==
  \A q \in Requests : run[q] # "none" => request[q].at \in {"release", "done"}
\* A run that was read as completed is completed for good.
ReadsAreReal ==
  \A r \in Requests : <<r, "completed">> \in reads => run[r] = "completed"
UnseenAreCharged == \A r \in unseen : usage[r] # 0

UsedKeys(events, t, p) ==
  {k \in UsageKeys : events[k] # 0 /\ (t = "free" \/ events[k] = p)}
\* What the holder of the lock read as used falls short of what is used by the
\* runs that were charged since.
IsCovered(rs, q, t, events, late) ==
  TotalCost(rs, UsedKeys(events, t, rs[q].month))
    <= rs[q].used + TotalCost(rs, late)
UsedCovers ==
  \A q \in Requests : request[q].at = "counted"
                        => IsCovered(request, q, tier, usage, unseen)

CreditInv ==
  /\ CreditTypeOK /\ PeriodIsReached /\ LockIsHeld /\ MonthsAreSet
  /\ RunsAreMade /\ ReadsAreReal /\ UnseenAreCharged /\ UsedCovers
  /\ OnlySuccessIsCharged /\ NoDoubleCount /\ UpgradesGrantTheDifference

LEMMA UsedIsTotalCost ==
  \A events, p : UsedCredits(events, p) = TotalCost(request, UsedKeys(events, tier, p))
  BY DEF UsedCredits, UsedKeys

\* The rows and the fields of a request.
LEMMA RowTypes ==
  ASSUME CreditTypeOK, NEW q \in Requests
  PROVE  /\ request[q] \in RequestRecords /\ request[q].used \in Nat
         /\ request[q].target \in Targets /\ request[q].month \in Months
         /\ IsTargeted(request)
<1>1. \A r \in Requests : request[r] \in RequestRecords
  BY DEF CreditTypeOK
<1>2. \A r \in RequestRecords : r.used \in Nat /\ r.target \in Targets /\ r.month \in Months
  BY DEF RequestRecords
<1> QED BY <1>1, <1>2 DEF IsTargeted

\* Until its transaction is over, a request has no run and no charge.
LEMMA UnsettledAreUncharged ==
  ASSUME CreditInv, NEW q \in Requests, request[q].at \notin {"release", "done"}
  PROVE  run[q] = "none" /\ usage[q] = 0
  BY DEF CreditInv, RunsAreMade, OnlySuccessIsCharged

\* The cost of charged keys stays while their targets do.
LEMMA CoverageStays ==
  ASSUME CreditInv, NEW rs, NEW q \in Requests,
         \A r \in Requests : usage[r] # 0 => rs[r].target = request[r].target,
         rs[q].month = request[q].month, rs[q].used = request[q].used,
         IsCovered(request, q, tier, usage, unseen)
  PROVE  IsCovered(rs, q, tier, usage, unseen)
<1> DEFINE keys == UsedKeys(usage, tier, request[q].month)
<1>1. \A k \in keys \cap Requests : rs[k].target = request[k].target
  BY DEF UsedKeys
<1>2. \A k \in unseen \cap Requests : rs[k].target = request[k].target
  BY DEF CreditInv, UnseenAreCharged
<1> HIDE DEF keys
<1>3. TotalCost(rs, keys) = TotalCost(request, keys)
  BY <1>1, TotalCostFrame
<1>4. TotalCost(rs, unseen) = TotalCost(request, unseen)
  BY <1>2, TotalCostFrame
<1> QED BY <1>3, <1>4 DEF IsCovered, keys

-----------------------------------------------------------------------------
(* The steps of one request outside its transaction. *)

LEMMA RequestMoves ==
  ASSUME CreditInv, NEW q \in Requests, NEW row \in RequestRecords,
         request' = [request EXCEPT ![q] = row],
         row.at # "counted",
         row.at = "begun" => row.month \in Periods,
         usage[q] # 0 => row.target = request[q].target,
         UNCHANGED <<tier, usage, unseen, lock>>
  PROVE  /\ request' \in [Requests -> RequestRecords]
         /\ LockIsHeld' /\ MonthsAreSet' /\ UnseenAreCharged' /\ UsedCovers'
<1>1. request \in [Requests -> RequestRecords]
  BY DEF CreditInv, CreditTypeOK
<1>2. /\ request' \in [Requests -> RequestRecords]
      /\ request'[q] = row
      /\ \A x \in Requests : x # q => request'[x] = request[x]
  BY <1>1
<1>3. LockIsHeld' /\ MonthsAreSet' /\ UnseenAreCharged'
  BY <1>2 DEF CreditInv, LockIsHeld, MonthsAreSet, UnseenAreCharged
<1>4. UsedCovers'
  <2>1. \A r \in Requests : usage[r] # 0 => request'[r].target = request[r].target
    BY <1>2
  <2>2. SUFFICES ASSUME NEW x \in Requests, request'[x].at = "counted"
                 PROVE  IsCovered(request', x, tier, usage, unseen)
    BY DEF UsedCovers
  <2>3. x # q /\ request'[x] = request[x]
    BY <1>2, <2>2
  <2>4. IsCovered(request, x, tier, usage, unseen)
    BY <2>2, <2>3 DEF CreditInv, UsedCovers
  <2> QED BY <2>1, <2>3, <2>4, CoverageStays
<1> QED BY <1>2, <1>3, <1>4

\* A request that is answered, or begins, is one of the records.
LEMMA RequestRows ==
  /\ IdleRequest \in RequestRecords /\ Answered \in RequestRecords
  /\ Answered.at = "done" /\ Answered.target = "committee"
  /\ 0 \in Months /\ Periods \subseteq Months
<1>1. 0 \in Months /\ Periods \subseteq Months
  BY DEF Months
<1>2. IdleRequest \in RequestRecords
  BY <1>1 DEF IdleRequest, RequestRecords, Targets
<1>3. Answered = [at |-> "done", kind |-> "research", key |-> NoKey,
                  target |-> "committee", month |-> 0, used |-> 0]
  BY DEF Answered, IdleRequest
<1>4. Answered \in RequestRecords
  BY <1>1, <1>3 DEF RequestRecords, Targets
<1> QED BY <1>1, <1>2, <1>3, <1>4

LEMMA BeginResearchKeeps ==
  ASSUME CreditInv, NEW q \in Requests, NEW key \in IdempotencyKeys,
         NEW target \in Targets, BeginResearch(q, key, target)
  PROVE  CreditInv'
<1> DEFINE begun == [IdleRequest EXCEPT !.at = "begun", !.key = key,
                                        !.target = target, !.month = period]
           known == RunOf(key)
           row == IF known = {} THEN begun ELSE Answered
           same == {r \in known : request[r].target = target}
<1>1. /\ request[q].at = "idle"
      /\ request' = [request EXCEPT ![q] = row]
      /\ reads' = reads \cup {<<r, run[r]>> : r \in same}
      /\ UNCHANGED <<tier, period, changes, paidGrants, reservation, usage, run,
                     recorded, lock, unseen>>
  BY DEF BeginResearch, CreditPlan
<1>2. period \in Periods
  BY DEF CreditInv, CreditTypeOK
<1>3. IdleRequest \in RequestRecords /\ period \in Months
  BY <1>2, RequestRows
<1>4. begun \in RequestRecords /\ begun.at = "begun" /\ begun.month = period
  <2>1. begun \in RequestRecords
    BY <1>3, Zenon DEF RequestRecords
  <2>2. begun.at = "begun" /\ begun.month = period
    BY <1>3 DEF RequestRecords
  <2> QED BY <2>1, <2>2
<1>5. run[q] = "none" /\ usage[q] = 0
  BY <1>1, UnsettledAreUncharged
<1>6. same \subseteq Requests
  BY DEF RunOf
<1> HIDE DEF begun, known, same
<1>7. row \in RequestRecords /\ row.at # "counted"
      /\ (row.at = "begun" => row.month \in Periods)
  BY <1>2, <1>4, RequestRows
<1> HIDE DEF row
<1>8. /\ request' \in [Requests -> RequestRecords]
      /\ LockIsHeld' /\ MonthsAreSet' /\ UnseenAreCharged' /\ UsedCovers'
  BY <1>1, <1>5, <1>7, RequestMoves
<1>9. reads' \subseteq Requests \X RunStates
  BY <1>1, <1>6 DEF CreditInv, CreditTypeOK
<1>10. CreditTypeOK' /\ PeriodIsReached'
  BY <1>1, <1>8, <1>9 DEF CreditInv, CreditTypeOK, PeriodIsReached
<1>11. RunsAreMade'
  <2>1. \A x \in Requests : x # q => request'[x] = request[x]
    BY <1>1 DEF CreditInv, CreditTypeOK
  <2> QED BY <1>1, <1>5, <2>1 DEF CreditInv, RunsAreMade
<1>12. ReadsAreReal'
  BY <1>1 DEF CreditInv, ReadsAreReal
<1>13. OnlySuccessIsCharged' /\ NoDoubleCount' /\ UpgradesGrantTheDifference'
  BY <1>1 DEF CreditInv, OnlySuccessIsCharged, NoDoubleCount,
     UpgradesGrantTheDifference, PaidSum
<1> QED BY <1>8, <1>10, <1>11, <1>12, <1>13 DEF CreditInv

LEMMA BeginConsumptionKeeps ==
  ASSUME CreditInv, NEW q \in Requests, NEW kind \in Consumptions,
         BeginConsumption(q, kind)
  PROVE  CreditInv'
<1> DEFINE row == [IdleRequest EXCEPT !.at = "begun", !.kind = kind, !.month = period]
<1>1. /\ request[q].at = "idle"
      /\ request' = [request EXCEPT ![q] = row]
      /\ UNCHANGED <<tier, period, changes, paidGrants, reservation, usage, run,
                     recorded, reads, lock, unseen>>
  BY DEF BeginConsumption, CreditPlan, ResearchRuns
<1>2. period \in Periods
  BY DEF CreditInv, CreditTypeOK
<1>3. IdleRequest \in RequestRecords /\ period \in Months
  BY <1>2, RequestRows
<1>4. row \in RequestRecords /\ row.at = "begun" /\ row.month = period
  <2>1. row \in RequestRecords
    BY <1>3, Zenon DEF RequestRecords
  <2>2. row.at = "begun" /\ row.month = period
    BY <1>3 DEF RequestRecords
  <2> QED BY <2>1, <2>2
<1>5. run[q] = "none" /\ usage[q] = 0
  BY <1>1, UnsettledAreUncharged
<1> HIDE DEF row
<1>8. /\ request' \in [Requests -> RequestRecords]
      /\ LockIsHeld' /\ MonthsAreSet' /\ UnseenAreCharged' /\ UsedCovers'
  BY <1>1, <1>2, <1>4, <1>5, RequestMoves
<1>10. CreditTypeOK' /\ PeriodIsReached'
  BY <1>1, <1>8 DEF CreditInv, CreditTypeOK, PeriodIsReached
<1>11. RunsAreMade'
  <2>1. \A x \in Requests : x # q => request'[x] = request[x]
    BY <1>1 DEF CreditInv, CreditTypeOK
  <2> QED BY <1>1, <1>5, <2>1 DEF CreditInv, RunsAreMade
<1>12. ReadsAreReal'
  BY <1>1 DEF CreditInv, ReadsAreReal
<1>13. OnlySuccessIsCharged' /\ NoDoubleCount' /\ UpgradesGrantTheDifference'
  BY <1>1 DEF CreditInv, OnlySuccessIsCharged, NoDoubleCount,
     UpgradesGrantTheDifference, PaidSum
<1> QED BY <1>8, <1>10, <1>11, <1>12, <1>13 DEF CreditInv

-----------------------------------------------------------------------------
(* The transaction. *)

\* Whoever waits for the lock finds that nobody else has read the account.
LEMMA NobodyCounts ==
  ASSUME CreditInv, NEW q \in Requests, lock = NoRequest \/ lock = q
  PROVE  \A x \in Requests \ {q} : request[x].at # "counted"
  BY NoRequestIsFresh DEF CreditInv, LockIsHeld

LEMMA LockAccountKeeps ==
  ASSUME CreditInv, NEW q \in Requests, LockAccount(q)
  PROVE  CreditInv'
<1> DEFINE used == UsedCredits(usage, request[q].month)
           row == [request[q] EXCEPT !.at = "counted", !.used = used]
           keys == UsedKeys(usage, tier, request[q].month)
<1>1. /\ request[q].at = "begun" /\ lock = NoRequest
      /\ lock' = q /\ unseen' = {}
      /\ request \in [Requests -> RequestRecords]
      /\ UNCHANGED <<tier, period, changes, paidGrants, reservation, usage, run,
                     recorded, reads>>
  BY DEF LockAccount, CreditPlan, ResearchRuns, CreditInv, CreditTypeOK
<1>2. request' = [request EXCEPT ![q] = row]
  BY <1>1 DEF LockAccount
<1>3. keys \in SUBSET UsageKeys /\ {} \in SUBSET UsageKeys
  BY DEF UsedKeys
<1>4. used = TotalCost(request, keys) /\ used \in Nat
  BY <1>3, UsedIsTotalCost, TotalCostType
<1>5. request[q] \in RequestRecords
  BY <1>1
<1> HIDE DEF used, keys
<1>6. row \in RequestRecords
  BY <1>4, <1>5, Zenon DEF RequestRecords
<1>7. /\ row.at = "counted" /\ row.used = used /\ row.month = request[q].month
      /\ row.target = request[q].target
  BY <1>5 DEF RequestRecords
<1> HIDE DEF row
<1>8. /\ request' \in [Requests -> RequestRecords] /\ request'[q] = row
      /\ \A x \in Requests : x # q => request'[x] = request[x]
  BY <1>1, <1>2, <1>6
<1>9. CreditTypeOK' /\ PeriodIsReached'
  BY <1>1, <1>8 DEF CreditInv, CreditTypeOK, PeriodIsReached
<1>10. \A x \in Requests \ {q} : request'[x].at # "counted"
  BY <1>1, <1>8, NobodyCounts
<1>11. LockIsHeld' /\ MonthsAreSet' /\ UnseenAreCharged'
  BY <1>1, <1>7, <1>8, <1>10 DEF CreditInv, LockIsHeld, MonthsAreSet, UnseenAreCharged
<1>12. UsedCovers'
  <2>1. TotalCost(request', keys) = TotalCost(request, keys)
    <3>1. \A x \in keys \cap Requests : request'[x].target = request[x].target
      BY <1>7, <1>8
    <3> QED BY <3>1, TotalCostFrame
  <2>2. TotalCost(request', {}) \in Nat
    BY <1>3, TotalCostType
  <2>3. IsCovered(request', q, tier, usage, {})
    BY <1>4, <1>7, <1>8, <2>1, <2>2 DEF IsCovered, keys
  <2>4. IsCovered(request', q, tier', usage', unseen')
    BY <1>1, <2>3
  <2> QED BY <1>10, <2>4 DEF UsedCovers
<1>13. RunsAreMade'
  <2>1. run[q] = "none"
    BY <1>1, UnsettledAreUncharged
  <2> QED BY <1>1, <1>8, <2>1 DEF CreditInv, RunsAreMade
<1>14. ReadsAreReal' /\ OnlySuccessIsCharged' /\ NoDoubleCount'
       /\ UpgradesGrantTheDifference'
  BY <1>1 DEF CreditInv, ReadsAreReal, OnlySuccessIsCharged, NoDoubleCount,
     UpgradesGrantTheDifference, PaidSum
<1> QED BY <1>9, <1>11, <1>12, <1>13, <1>14 DEF CreditInv

\* The grants of a month keep adding up to one of the allowances.
LEMMA GrantsAddUp ==
  ASSUME CreditInv, NEW p \in Periods
  PROVE  /\ EnsuredPaid(p) \in [Periods -> [PaidTiers -> Nat]]
         /\ \A m \in Periods :
              PaidSum(EnsuredPaid(p), m) \in
                {0} \cup {Allowance[t] :
                            t \in {u \in PaidTiers : EnsuredPaid(p)[m][u] # 0}}
<1>1. /\ paidGrants \in [Periods -> [PaidTiers -> Nat]]
      /\ \A m \in Periods :
           PaidSum(paidGrants, m) \in
             {0} \cup {Allowance[t] : t \in {u \in PaidTiers : paidGrants[m][u] # 0}}
  BY DEF CreditInv, CreditTypeOK, UpgradesGrantTheDifference
<1>2. CASE tier \notin PaidTiers \/ paidGrants[p][tier] # 0
  BY <1>1, <1>2 DEF EnsuredPaid
<1>3. CASE tier \in PaidTiers /\ paidGrants[p][tier] = 0
  <2> DEFINE more == TopUp(p)
             new == [paidGrants EXCEPT ![p] = [paidGrants[p] EXCEPT ![tier] = more]]
  <2>1. EnsuredPaid(p) = [paidGrants EXCEPT ![p][tier] = TopUp(p)]
    BY <1>3 DEF EnsuredPaid
  <2>2. EnsuredPaid(p) = new
    BY <1>1, <1>3, <2>1
  <2>3. paidGrants[p] \in [PaidTiers -> Nat]
    BY <1>1
  <2>4. paidGrants[p]["pro"] \in Nat /\ paidGrants[p]["ultra"] \in Nat
    BY <2>3 DEF PaidTiers
  <2>5. Allowance[tier] \in Nat
    BY <1>3, CreditsAreNatural DEF Allowance, PaidTiers
  <2>6. /\ more \in Nat
        /\ more # 0 => more = Allowance[tier] - PaidSum(paidGrants, p)
    BY <2>4, <2>5 DEF TopUp, AtLeastZero, PaidSum
  <2> HIDE DEF more
  <2>7. /\ new \in [Periods -> [PaidTiers -> Nat]]
        /\ \A m \in Periods \ {p} : new[m] = paidGrants[m]
        /\ new[p] = [paidGrants[p] EXCEPT ![tier] = more]
    <3>1. [paidGrants[p] EXCEPT ![tier] = more] \in [PaidTiers -> Nat]
      BY <1>3, <2>3, <2>6
    <3> QED BY <1>1, <3>1
  <2> HIDE DEF new
  <2>8. /\ new[p][tier] = more
        /\ \A t \in PaidTiers \ {tier} : new[p][t] = paidGrants[p][t]
    BY <1>3, <2>3, <2>7
  <2>9. PaidSum(new, p) = PaidSum(paidGrants, p) + more
    <3>1. CASE tier = "pro"
      BY <1>3, <2>4, <2>6, <2>8, <3>1 DEF PaidSum, PaidTiers
    <3>2. CASE tier = "ultra"
      BY <1>3, <2>4, <2>6, <2>8, <3>2 DEF PaidSum, PaidTiers
    <3> QED BY <1>3, <3>1, <3>2 DEF PaidTiers
  <2>10. PaidSum(new, p) \in
           {0} \cup {Allowance[t] : t \in {u \in PaidTiers : new[p][u] # 0}}
    <3>1. CASE more # 0
      <4>1. PaidSum(new, p) = Allowance[tier]
        BY <2>4, <2>5, <2>6, <2>9, <3>1 DEF PaidSum
      <4> QED BY <1>3, <2>8, <3>1, <4>1
    <3>2. CASE more = 0
      <4>1. \A t \in PaidTiers : new[p][t] = paidGrants[p][t]
        BY <1>3, <2>8, <3>2
      <4>2. PaidSum(new, p) = PaidSum(paidGrants, p)
        BY <4>1 DEF PaidSum, PaidTiers
      <4> QED BY <1>1, <4>1, <4>2
    <3> QED BY <3>1, <3>2
  <2>11. \A m \in Periods \ {p} :
           PaidSum(new, m) \in
             {0} \cup {Allowance[t] : t \in {u \in PaidTiers : new[m][u] # 0}}
    BY <1>1, <2>7 DEF PaidSum
  <2> QED BY <2>2, <2>7, <2>10, <2>11
<1> QED BY <1>2, <1>3

\* However a transaction ends, nobody has read the account any more.
LEMMA TransactionEnds ==
  ASSUME CreditInv, NEW q \in Requests, NEW at \in {"create", "done"},
         EndTransaction(q, at)
  PROVE  /\ lock = q /\ run[q] = "none" /\ usage[q] = 0
         /\ request[q].month \in Periods
         /\ request' \in [Requests -> RequestRecords]
         /\ lock' = NoRequest /\ unseen' = {}
         /\ UNCHANGED <<tier, period, changes, run, recorded, reads>>
         /\ paidGrants' \in [Periods -> [PaidTiers -> Nat]]
         /\ LockIsHeld' /\ MonthsAreSet' /\ UnseenAreCharged' /\ UsedCovers'
         /\ RunsAreMade' /\ ReadsAreReal' /\ UpgradesGrantTheDifference'
<1> DEFINE row == IF at = "done" THEN Answered
                  ELSE [request[q] EXCEPT !.at = at, !.month = 0, !.used = 0]
<1>1. /\ request[q].at = "counted" /\ lock' = NoRequest /\ unseen' = {}
      /\ paidGrants' = EnsuredPaid(request[q].month)
      /\ UNCHANGED <<tier, period, changes, run, recorded, reads>>
      /\ request \in [Requests -> RequestRecords]
  BY DEF EndTransaction, CreditPlan, ResearchRuns, CreditInv, CreditTypeOK
<1>2. request' = [request EXCEPT ![q] = row]
  BY <1>1 DEF EndTransaction
<1>3. lock = q /\ request[q].month \in Periods
  BY <1>1 DEF CreditInv, LockIsHeld, MonthsAreSet
<1>4. run[q] = "none" /\ usage[q] = 0
  BY <1>1, UnsettledAreUncharged
<1>5. row \in RequestRecords /\ row.at = at
  <2>1. CASE at = "done"
    BY <2>1, RequestRows
  <2>2. CASE at = "create"
    <3>1. request[q] \in RequestRecords /\ 0 \in Months
      BY <1>1, RequestRows
    <3>2. [request[q] EXCEPT !.at = at, !.month = 0, !.used = 0] \in RequestRecords
      BY <2>2, <3>1, Zenon, 0 \in Nat DEF RequestRecords
    <3>3. [request[q] EXCEPT !.at = at, !.month = 0, !.used = 0].at = at
      BY <3>1 DEF RequestRecords
    <3> QED BY <2>2, <3>2, <3>3
  <2> QED BY <2>1, <2>2
<1> HIDE DEF row
<1>6. /\ request' \in [Requests -> RequestRecords] /\ request'[q] = row
      /\ \A x \in Requests : x # q => request'[x] = request[x]
  BY <1>1, <1>2, <1>5
<1>7. \A x \in Requests : request'[x].at # "counted"
  BY <1>3, <1>5, <1>6, NobodyCounts
<1>8. LockIsHeld' /\ UsedCovers' /\ MonthsAreSet' /\ UnseenAreCharged'
  BY <1>1, <1>5, <1>6, <1>7 DEF CreditInv, LockIsHeld, UsedCovers, MonthsAreSet,
     UnseenAreCharged
<1>9. RunsAreMade' /\ ReadsAreReal'
  BY <1>1, <1>4, <1>6 DEF CreditInv, RunsAreMade, ReadsAreReal
<1>10. paidGrants' \in [Periods -> [PaidTiers -> Nat]] /\ UpgradesGrantTheDifference'
  BY <1>1, <1>3, GrantsAddUp DEF UpgradesGrantTheDifference, PaidSum
<1> QED BY <1>1, <1>3, <1>4, <1>6, <1>8, <1>9, <1>10

LEMMA ReserveKeeps ==
  ASSUME CreditInv, NEW q \in Requests, ReserveResearchCredits(q)
  PROVE  CreditInv'
<1>1. PICK at \in {"create", "done"} : EndTransaction(q, at)
  BY DEF ReserveResearchCredits
<1>2. /\ UNCHANGED usage
      /\ \/ reservation' = [reservation EXCEPT ![q] = request[q].month]
         \/ UNCHANGED reservation
  BY DEF ReserveResearchCredits
<1>3. /\ usage[q] = 0 /\ request[q].month \in Periods
      /\ request' \in [Requests -> RequestRecords]
      /\ lock' = NoRequest /\ unseen' = {}
      /\ UNCHANGED <<tier, period, changes, run, recorded, reads>>
      /\ paidGrants' \in [Periods -> [PaidTiers -> Nat]]
      /\ LockIsHeld' /\ MonthsAreSet' /\ UnseenAreCharged' /\ UsedCovers'
      /\ RunsAreMade' /\ ReadsAreReal' /\ UpgradesGrantTheDifference'
  BY <1>1, TransactionEnds
<1>4. /\ reservation' \in [Requests -> Months]
      /\ \A r \in Requests : r # q => reservation'[r] = reservation[r]
  BY <1>2, <1>3, RequestRows DEF CreditInv, CreditTypeOK
<1>5. CreditTypeOK' /\ PeriodIsReached'
  BY <1>2, <1>3, <1>4 DEF CreditInv, CreditTypeOK, PeriodIsReached
<1>6. NoDoubleCount'
  BY <1>2, <1>3, <1>4 DEF CreditInv, NoDoubleCount
<1>7. OnlySuccessIsCharged'
  BY <1>2, <1>3 DEF CreditInv, OnlySuccessIsCharged
<1> QED BY <1>3, <1>5, <1>6, <1>7 DEF CreditInv

LEMMA ConsumeKeeps ==
  ASSUME CreditInv, NEW q \in Requests, ConsumeCredit(q)
  PROVE  CreditInv'
<1>1. EndTransaction(q, "done")
  BY DEF ConsumeCredit
<1>2. /\ UNCHANGED reservation /\ request[q].kind \in Consumptions
      /\ \/ usage' = [usage EXCEPT ![request[q].kind] = request[q].month]
         \/ UNCHANGED usage
  BY DEF ConsumeCredit
<1>3. /\ request[q].month \in Periods
      /\ request' \in [Requests -> RequestRecords]
      /\ lock' = NoRequest /\ unseen' = {}
      /\ UNCHANGED <<tier, period, changes, run, recorded, reads>>
      /\ paidGrants' \in [Periods -> [PaidTiers -> Nat]]
      /\ LockIsHeld' /\ MonthsAreSet' /\ UnseenAreCharged' /\ UsedCovers'
      /\ RunsAreMade' /\ ReadsAreReal' /\ UpgradesGrantTheDifference'
  BY <1>1, TransactionEnds
<1>4. /\ usage' \in [UsageKeys -> Months]
      /\ \A r \in Requests : usage'[r] = usage[r]
  BY <1>2, <1>3, RequestRows, RequestsAreNoConsumptions
  DEF CreditInv, CreditTypeOK, UsageKeys
<1>5. CreditTypeOK' /\ PeriodIsReached'
  BY <1>2, <1>3, <1>4 DEF CreditInv, CreditTypeOK, PeriodIsReached
<1>6. NoDoubleCount'
  BY <1>2, <1>4 DEF CreditInv, NoDoubleCount
<1>7. OnlySuccessIsCharged'
  BY <1>3, <1>4 DEF CreditInv, OnlySuccessIsCharged
<1> QED BY <1>3, <1>5, <1>6, <1>7 DEF CreditInv

LEMMA RollBackKeeps ==
  ASSUME CreditInv, NEW q \in Requests, RollBack(q)
  PROVE  CreditInv'
<1>1. /\ request[q].at \in {"begun", "counted"}
      /\ request' = [request EXCEPT ![q] = Answered]
      /\ lock' = (IF lock = q THEN NoRequest ELSE lock)
      /\ unseen' = (IF lock = q THEN {} ELSE unseen)
      /\ UNCHANGED <<tier, period, changes, paidGrants, reservation, usage, run,
                     recorded, reads>>
      /\ request \in [Requests -> RequestRecords]
  BY DEF RollBack, CreditPlan, ResearchRuns, CreditInv, CreditTypeOK
<1>2. run[q] = "none" /\ usage[q] = 0
  BY <1>1, UnsettledAreUncharged
<1>3. /\ request' \in [Requests -> RequestRecords] /\ request'[q] = Answered
      /\ \A x \in Requests : x # q => request'[x] = request[x]
  BY <1>1, RequestRows
<1>4. LockIsHeld' /\ MonthsAreSet' /\ UnseenAreCharged' /\ UsedCovers'
  <2>1. CASE lock = q
    <3>1. \A x \in Requests : request'[x].at # "counted"
      BY <1>3, <2>1, NobodyCounts, RequestRows
    <3>2. unseen' = {}
      BY <1>1, <2>1
    <3> QED BY <1>1, <1>3, <3>1, <3>2, RequestRows DEF CreditInv, LockIsHeld,
            UsedCovers, MonthsAreSet, UnseenAreCharged
  <2>2. CASE lock # q
    <3>1. lock' = lock /\ unseen' = unseen
      BY <1>1, <2>2
    <3> QED BY <1>1, <1>2, <3>1, RequestRows, RequestMoves
  <2> QED BY <2>1, <2>2
<1>5. CreditTypeOK' /\ PeriodIsReached'
  BY <1>1, <1>3 DEF CreditInv, CreditTypeOK, PeriodIsReached
<1>6. RunsAreMade' /\ ReadsAreReal'
  BY <1>1, <1>2, <1>3 DEF CreditInv, RunsAreMade, ReadsAreReal
<1>7. OnlySuccessIsCharged' /\ NoDoubleCount' /\ UpgradesGrantTheDifference'
  BY <1>1 DEF CreditInv, OnlySuccessIsCharged, NoDoubleCount,
     UpgradesGrantTheDifference, PaidSum
<1> QED BY <1>4, <1>5, <1>6, <1>7 DEF CreditInv

-----------------------------------------------------------------------------
(* Runs, and whoever reads them. *)

LEMMA CreateRunKeeps ==
  ASSUME CreditInv, NEW q \in Requests, CreateRun(q)
  PROVE  CreditInv'
<1> DEFINE same == {r \in RunOf(request[q].key) : request[r].target = request[q].target}
<1>1. /\ request[q].at = "create" /\ request \in [Requests -> RequestRecords]
      /\ UNCHANGED <<tier, period, changes, paidGrants, reservation, usage,
                     recorded, lock, unseen>>
  BY DEF CreateRun, CreditPlan, CreditInv, CreditTypeOK
<1>2. run[q] = "none" /\ usage[q] = 0
  BY <1>1, UnsettledAreUncharged
<1>3. PICK to \in {"done", "release"} : request' = [request EXCEPT ![q].at = to]
  BY DEF CreateRun
<1> DEFINE row == [request[q] EXCEPT !.at = to]
<1>4. request' = [request EXCEPT ![q] = row] /\ request[q] \in RequestRecords
  BY <1>1, <1>3
<1>5. row \in RequestRecords /\ row.at = to
  <2>1. row \in RequestRecords
    BY <1>4, Zenon DEF RequestRecords
  <2>2. row.at = to
    BY <1>4 DEF RequestRecords
  <2> QED BY <2>1, <2>2
<1> HIDE DEF row
<1>6. /\ request' \in [Requests -> RequestRecords]
      /\ LockIsHeld' /\ MonthsAreSet' /\ UnseenAreCharged' /\ UsedCovers'
  BY <1>1, <1>2, <1>4, <1>5, RequestMoves
<1>7. \/ UNCHANGED run
      \/ run' = [run EXCEPT ![q] = "active"]
  BY DEF CreateRun
<1>8. \/ UNCHANGED reads
      \/ reads' = reads \cup {<<q, "active">>}
      \/ reads' = reads \cup {<<r, run[r]>> : r \in same}
  BY DEF CreateRun
<1>9. same \subseteq Requests
  BY DEF RunOf
<1> HIDE DEF same
<1>10. run \in [Requests -> RunStates] /\ "active" \in RunStates
  BY DEF CreditInv, CreditTypeOK, RunStates
<1>11. /\ run' \in [Requests -> RunStates]
       /\ \A x \in Requests : x # q => run'[x] = run[x]
  BY <1>7, <1>10
<1>12. reads' \subseteq Requests \X RunStates
  BY <1>8, <1>9, <1>10 DEF CreditInv, CreditTypeOK
<1>13. CreditTypeOK' /\ PeriodIsReached'
  BY <1>1, <1>6, <1>11, <1>12 DEF CreditInv, CreditTypeOK, PeriodIsReached
<1>14. RunsAreMade'
  <2>1. /\ \A x \in Requests : x # q => request'[x] = request[x]
        /\ request'[q].at = to
    BY <1>1, <1>4, <1>5
  <2> QED BY <1>11, <2>1 DEF CreditInv, RunsAreMade
<1>15. ReadsAreReal'
  <2> SUFFICES ASSUME NEW r \in Requests, <<r, "completed">> \in reads'
               PROVE  run'[r] = "completed"
    BY DEF ReadsAreReal
  <2>1. run[r] = "completed"
    <3>1. CASE <<r, "completed">> \in reads
      BY <3>1 DEF CreditInv, ReadsAreReal
    <3>2. CASE reads' = reads \cup {<<q, "active">>}
      BY <3>2 DEF CreditInv, ReadsAreReal
    <3>3. CASE reads' = reads \cup {<<x, run[x]>> : x \in same}
      BY <3>3 DEF CreditInv, ReadsAreReal
    <3> QED BY <1>8, <3>1, <3>2, <3>3
  <2> QED BY <1>2, <1>11, <2>1
<1>16. OnlySuccessIsCharged'
  BY <1>1, <1>2, <1>11 DEF CreditInv, OnlySuccessIsCharged
<1>17. NoDoubleCount' /\ UpgradesGrantTheDifference'
  BY <1>1 DEF CreditInv, NoDoubleCount, UpgradesGrantTheDifference, PaidSum
<1> QED BY <1>6, <1>13, <1>14, <1>15, <1>16, <1>17 DEF CreditInv

LEMMA ReleaseKeeps ==
  ASSUME CreditInv, NEW q \in Requests, ReleaseResearchCredits(q)
  PROVE  CreditInv'
<1> DEFINE row == [request[q] EXCEPT !.at = "done"]
<1>1. /\ request[q].at = "release" /\ request \in [Requests -> RequestRecords]
      /\ request' = [request EXCEPT ![q].at = "done"]
      /\ reservation' = [reservation EXCEPT ![q] = 0]
      /\ UNCHANGED <<tier, period, changes, paidGrants, usage, run, recorded,
                     reads, lock, unseen>>
  BY DEF ReleaseResearchCredits, CreditPlan, ResearchRuns, CreditInv, CreditTypeOK
<1>2. request' = [request EXCEPT ![q] = row] /\ request[q] \in RequestRecords
  BY <1>1
<1>3. row \in RequestRecords
  BY <1>2, Zenon DEF RequestRecords
<1>4. row.at = "done" /\ row.target = request[q].target
  BY <1>2 DEF RequestRecords
<1> HIDE DEF row
<1>5. /\ request' \in [Requests -> RequestRecords]
      /\ LockIsHeld' /\ MonthsAreSet' /\ UnseenAreCharged' /\ UsedCovers'
  BY <1>1, <1>2, <1>3, <1>4, RequestMoves
<1>6. /\ reservation' \in [Requests -> Months] /\ reservation'[q] = 0
      /\ \A x \in Requests : x # q => reservation'[x] = reservation[x]
  BY <1>1, RequestRows DEF CreditInv, CreditTypeOK
<1>7. CreditTypeOK' /\ PeriodIsReached'
  BY <1>1, <1>5, <1>6 DEF CreditInv, CreditTypeOK, PeriodIsReached
<1>8. RunsAreMade'
  <2>1. /\ \A x \in Requests : x # q => request'[x] = request[x]
        /\ request'[q].at = "done"
    BY <1>1, <1>2, <1>4
  <2> QED BY <1>1, <2>1 DEF CreditInv, RunsAreMade
<1>9. NoDoubleCount'
  BY <1>1, <1>6 DEF CreditInv, NoDoubleCount
<1>10. ReadsAreReal' /\ OnlySuccessIsCharged' /\ UpgradesGrantTheDifference'
  BY <1>1 DEF CreditInv, ReadsAreReal, OnlySuccessIsCharged,
     UpgradesGrantTheDifference, PaidSum
<1> QED BY <1>5, <1>7, <1>8, <1>9, <1>10 DEF CreditInv

\* No step of a run or of its readers that charges nothing touches the account.
LEMMA BystanderKeeps ==
  ASSUME CreditInv, NEW r \in Requests,
         \/ ReadRun(r) \/ ExpireReservation(r)
         \/ \E to \in RunStates : MoveRun(r, to)
  PROVE  CreditInv'
<1>1. UNCHANGED <<tier, paidGrants, usage, recorded, request, lock, unseen>>
  BY DEF ReadRun, ExpireReservation, MoveRun, CreditPlan, ResearchRuns
<1>2. /\ UNCHANGED <<period, changes>>
      /\ \/ UNCHANGED reads
         \/ run[r] # "none" /\ UNCHANGED run /\ reads' = reads \cup {<<r, run[r]>>}
      /\ \/ UNCHANGED run
         \/ /\ run[r] \in {"active", "failed"} /\ UNCHANGED reads
            /\ \E to \in RunStates : run' = [run EXCEPT ![r] = to]
      /\ \/ UNCHANGED reservation
         \/ reservation' = [reservation EXCEPT ![r] = 0]
  BY DEF ReadRun, ExpireReservation, MoveRun, MayMove, CreditPlan, ResearchRuns
<1>3. run \in [Requests -> RunStates] /\ reservation \in [Requests -> Months]
      /\ reads \subseteq Requests \X RunStates
  BY DEF CreditInv, CreditTypeOK
<1>4. /\ run' \in [Requests -> RunStates]
      /\ \A x \in Requests : x # r => run'[x] = run[x]
      /\ run'[r] # run[r] => run[r] \in {"active", "failed"}
  BY <1>2, <1>3
<1>5. reads' \subseteq Requests \X RunStates
  BY <1>2, <1>3
<1>6. /\ reservation' \in [Requests -> Months]
      /\ \A x \in Requests : reservation'[x] \in {0, reservation[x]}
  BY <1>2, <1>3, RequestRows
<1>7. PeriodIsReached'
  BY <1>2 DEF CreditInv, PeriodIsReached
<1>8. CreditTypeOK'
  BY <1>1, <1>2, <1>4, <1>5, <1>6 DEF CreditInv, CreditTypeOK
<1>9. ReadsAreReal'
  <2> SUFFICES ASSUME NEW x \in Requests, <<x, "completed">> \in reads'
               PROVE  run'[x] = "completed"
    BY DEF ReadsAreReal
  <2>1. run[x] = "completed"
    BY <1>2 DEF CreditInv, ReadsAreReal
  <2> QED BY <1>4, <2>1
<1>10. RunsAreMade' /\ OnlySuccessIsCharged' /\ NoDoubleCount'
  BY <1>1, <1>4, <1>6 DEF CreditInv, RunsAreMade, OnlySuccessIsCharged, NoDoubleCount
<1>11. /\ LockIsHeld' /\ MonthsAreSet' /\ UnseenAreCharged' /\ UsedCovers'
       /\ UpgradesGrantTheDifference'
  BY <1>1 DEF CreditInv, LockIsHeld, MonthsAreSet, UnseenAreCharged, UsedCovers,
     UpgradesGrantTheDifference, PaidSum
<1> QED BY <1>7, <1>8, <1>9, <1>10, <1>11 DEF CreditInv

\* A charge that the holder of the lock has not seen is remembered as unseen.
LEMMA RecordKeeps ==
  ASSUME CreditInv, NEW r \in Requests, NEW status \in RunStates,
         RecordResearchRun(r, status)
  PROVE  CreditInv'
<1>1. /\ <<r, status>> \in reads /\ reads' = reads \ {<<r, status>>}
      /\ UNCHANGED <<tier, period, changes, paidGrants, run, request, lock>>
  BY DEF RecordResearchRun, CreditPlan
<1>2. ReadsAreReal' /\ RunsAreMade' /\ LockIsHeld' /\ MonthsAreSet'
      /\ PeriodIsReached' /\ UpgradesGrantTheDifference'
      /\ reads' \subseteq Requests \X RunStates
  BY <1>1 DEF CreditInv, CreditTypeOK, ReadsAreReal, RunsAreMade, LockIsHeld,
     MonthsAreSet, PeriodIsReached, UpgradesGrantTheDifference, PaidSum
<1>3. CASE UNCHANGED <<recorded, usage, reservation, unseen>>
  BY <1>1, <1>2, <1>3 DEF CreditInv, CreditTypeOK, UnseenAreCharged, UsedCovers,
     OnlySuccessIsCharged, NoDoubleCount
<1>4. CASE ~ UNCHANGED <<recorded, usage, reservation, unseen>>
  <2> DEFINE charged == Charges(r, status)
  <2>1. /\ recorded' = [recorded EXCEPT ![r] = status]
        /\ usage' = (IF charged THEN [usage EXCEPT ![r] = period] ELSE usage)
        /\ reservation' = [reservation EXCEPT ![r] = HeldAfter(r, status)]
        /\ unseen' = (IF charged /\ lock # NoRequest /\ request[lock].at = "counted"
                      THEN unseen \cup {r} ELSE unseen)
    BY <1>4 DEF RecordResearchRun
  <2>2. /\ period \in Periods /\ period # 0 /\ 0 \in Months /\ Periods \subseteq Months
        /\ r \in UsageKeys
        /\ recorded \in [Requests -> RunStates] /\ usage \in [UsageKeys -> Months]
        /\ reservation \in [Requests -> Months]
    BY RequestRows DEF CreditInv, CreditTypeOK, UsageKeys, Periods
  <2>3. /\ recorded' \in [Requests -> RunStates]
        /\ usage' \in [UsageKeys -> Months]
        /\ reservation' \in [Requests -> Months]
        /\ \A x \in Requests : reservation'[x] \in {0, reservation[x]}
        /\ unseen' \subseteq Requests
    BY <2>1, <2>2 DEF HeldAfter, CreditInv, CreditTypeOK
  <2>4. CreditTypeOK'
    BY <1>1, <1>2, <2>3 DEF CreditInv, CreditTypeOK
  <2>5. charged => /\ status = "completed" /\ usage[r] = 0 /\ run[r] = "completed"
                   /\ usage'[r] = period
                   /\ \A k \in UsageKeys \ {r} : usage'[k] = usage[k]
                   /\ reservation'[r] = 0
    BY <1>1, <2>1, <2>2 DEF Charges, HeldAfter, Ended, CreditInv, ReadsAreReal
  <2>6. CASE ~charged
    <3>1. usage' = usage /\ unseen' = unseen
      BY <2>1, <2>6
    <3> QED BY <1>1, <1>2, <2>3, <2>4, <3>1 DEF CreditInv, UnseenAreCharged,
            UsedCovers, OnlySuccessIsCharged, NoDoubleCount
  <2>7. CASE charged
    <3>1. OnlySuccessIsCharged' /\ NoDoubleCount'
      <4>1. \A x \in Requests \ {r} : usage'[x] = usage[x]
        BY <2>5, <2>7 DEF UsageKeys
      <4> QED BY <1>1, <2>3, <2>5, <2>7, <4>1 DEF CreditInv,
              OnlySuccessIsCharged, NoDoubleCount
    <3>2. UnseenAreCharged'
      <4>1. \A x \in unseen : x # r /\ x \in UsageKeys
        BY <2>5, <2>7 DEF CreditInv, CreditTypeOK, UnseenAreCharged, UsageKeys
      <4> QED BY <2>1, <2>2, <2>5, <2>7, <4>1 DEF CreditInv, UnseenAreCharged
    <3>3. UsedCovers'
      <4> SUFFICES ASSUME NEW q \in Requests, request[q].at = "counted"
                   PROVE  IsCovered(request, q, tier, usage', unseen')
        BY <1>1 DEF UsedCovers
      <4>1. lock = q /\ unseen' = unseen \cup {r}
        BY <2>1, <2>7, NoRequestIsFresh DEF CreditInv, LockIsHeld
      <4> DEFINE keys == UsedKeys(usage, tier, request[q].month)
                 more == UsedKeys(usage', tier, request[q].month)
      <4>2. /\ keys \in SUBSET UsageKeys /\ r \notin keys
            /\ more = keys \/ more = keys \cup {r}
        BY <2>2, <2>5, <2>7 DEF UsedKeys
      <4>3. /\ unseen \in SUBSET UsageKeys /\ r \notin unseen
        BY <2>5, <2>7 DEF CreditInv, CreditTypeOK, UnseenAreCharged, UsageKeys
      <4>4. TotalCost(request, keys) <= request[q].used + TotalCost(request, unseen)
        BY DEF CreditInv, UsedCovers, IsCovered
      <4> HIDE DEF keys, more
      <4>5. /\ IsTargeted(request) /\ request[q].used \in Nat
            /\ request[r].target \in Targets
        BY RowTypes DEF CreditInv
      <4>6. /\ TotalCost(request, keys \cup {r})
                 = TotalCost(request, keys) + CostOfKey(request, r)
            /\ TotalCost(request, unseen \cup {r})
                 = TotalCost(request, unseen) + CostOfKey(request, r)
        BY <2>2, <4>2, <4>3, <4>5, TotalCostAdd
      <4>7. /\ TotalCost(request, keys) \in Nat /\ TotalCost(request, unseen) \in Nat
            /\ CostOfKey(request, r) \in Nat
        <5>1. CostOfKey(request, r) \in Nat
          BY CreditsAreNatural DEF CostOfKey
        <5> QED BY <4>2, <4>3, <5>1, TotalCostType
      <4>8. TotalCost(request, more) <= request[q].used + TotalCost(request, unseen')
        <5> DEFINE Tk == TotalCost(request, keys)
                   Tu == TotalCost(request, unseen)
                   c == CostOfKey(request, r)
        <5>1. TotalCost(request, unseen') = Tu + c
          BY <4>1, <4>6
        <5>2. TotalCost(request, more) = Tk \/ TotalCost(request, more) = Tk + c
          BY <4>2, <4>6
        <5>3. Tk <= request[q].used + Tu /\ Tk \in Nat /\ Tu \in Nat /\ c \in Nat
          BY <4>4, <4>7
        <5> HIDE DEF Tk, Tu, c
        <5> QED BY <4>5, <5>1, <5>2, <5>3
      <4> QED BY <4>8 DEF IsCovered, more
    <3> QED BY <1>2, <2>4, <3>1, <3>2, <3>3 DEF CreditInv
  <2> QED BY <2>6, <2>7
<1> QED BY <1>3, <1>4

LEMMA ChangePlanKeeps ==
  ASSUME CreditInv, NEW to \in {"free"} \cup PaidTiers, ChangePlan(to)
  PROVE  CreditInv'
<1>1. /\ lock = NoRequest /\ changes < MaxChanges /\ tier' = to
      /\ changes' = changes + 1
      /\ UNCHANGED <<period, paidGrants, reservation, usage, run, recorded,
                     reads, request, lock, unseen>>
  BY DEF ChangePlan, ResearchRuns
<1>2. UsedCovers'
  BY <1>1, NoRequestIsFresh DEF CreditInv, LockIsHeld, UsedCovers
<1>3. changes' \in 0..MaxChanges /\ PeriodIsReached'
  BY <1>1, CreditsAreNatural DEF CreditInv, CreditTypeOK, PeriodIsReached, Periods
<1>4. CreditTypeOK'
  BY <1>1, <1>3 DEF CreditInv, CreditTypeOK
<1>5. LockIsHeld' /\ MonthsAreSet' /\ RunsAreMade' /\ ReadsAreReal'
      /\ UnseenAreCharged' /\ OnlySuccessIsCharged' /\ NoDoubleCount'
      /\ UpgradesGrantTheDifference'
  BY <1>1 DEF CreditInv, LockIsHeld, MonthsAreSet, RunsAreMade, ReadsAreReal,
     UnseenAreCharged, OnlySuccessIsCharged, NoDoubleCount,
     UpgradesGrantTheDifference, PaidSum
<1> QED BY <1>2, <1>3, <1>4, <1>5 DEF CreditInv

LEMMA NextPeriodKeeps ==
  ASSUME CreditInv, NextPeriod
  PROVE  CreditInv'
<1>1. /\ changes < MaxChanges /\ changes' = changes + 1 /\ period' = period + 1
      /\ UNCHANGED <<tier, paidGrants, reservation, usage, run, recorded, reads,
                     request, lock, unseen>>
  BY DEF NextPeriod, ResearchRuns
<1>2. period' \in Periods /\ changes' \in 0..MaxChanges /\ PeriodIsReached'
  BY <1>1, CreditsAreNatural DEF CreditInv, CreditTypeOK, PeriodIsReached, Periods
<1>3. CreditTypeOK'
  BY <1>1, <1>2 DEF CreditInv, CreditTypeOK
<1>4. /\ LockIsHeld' /\ MonthsAreSet' /\ RunsAreMade' /\ ReadsAreReal'
      /\ UnseenAreCharged' /\ UsedCovers' /\ OnlySuccessIsCharged'
      /\ NoDoubleCount' /\ UpgradesGrantTheDifference'
  BY <1>1 DEF CreditInv, LockIsHeld, MonthsAreSet, RunsAreMade, ReadsAreReal,
     UnseenAreCharged, UsedCovers, OnlySuccessIsCharged, NoDoubleCount,
     UpgradesGrantTheDifference, PaidSum
<1> QED BY <1>2, <1>3, <1>4 DEF CreditInv

-----------------------------------------------------------------------------
(* The theorems. *)

LEMMA InitialAccount == CreditInit => CreditInv
<1> SUFFICES ASSUME CreditInit PROVE CreditInv
  OBVIOUS
<1>1. 1 \in Periods
  BY CreditsAreNatural DEF Periods
<1>2. paidGrants \in [Periods -> [PaidTiers -> Nat]]
      /\ \A p \in Periods : PaidSum(paidGrants, p) = 0
  BY DEF CreditInit, PaidSum, PaidTiers
<1>3. CreditTypeOK /\ PeriodIsReached
  BY <1>1, <1>2, CreditsAreNatural, RequestRows
  DEF CreditInit, CreditTypeOK, PeriodIsReached, RunStates
<1>4. \A q \in Requests : request[q].at = "idle"
  BY DEF CreditInit, IdleRequest
<1>5. LockIsHeld /\ MonthsAreSet /\ RunsAreMade /\ ReadsAreReal /\ UsedCovers
  BY <1>4 DEF CreditInit, LockIsHeld, MonthsAreSet, RunsAreMade, ReadsAreReal, UsedCovers
<1>6. UnseenAreCharged /\ OnlySuccessIsCharged /\ NoDoubleCount
      /\ UpgradesGrantTheDifference
  BY <1>2 DEF CreditInit, UnseenAreCharged, OnlySuccessIsCharged, NoDoubleCount,
     UpgradesGrantTheDifference, UsageKeys
<1> QED BY <1>3, <1>5, <1>6 DEF CreditInv

LEMMA AccountKeeps ==
  ASSUME CreditInv, [CreditNext]_creditVars
  PROVE  CreditInv'
<1>1. CASE CreditNext
  BY <1>1, BeginResearchKeeps, BeginConsumptionKeeps, LockAccountKeeps,
     ReserveKeeps, ConsumeKeeps, RollBackKeeps, CreateRunKeeps, ReleaseKeeps,
     BystanderKeeps, RecordKeeps, ChangePlanKeeps, NextPeriodKeeps DEF CreditNext
<1>2. CASE UNCHANGED creditVars
  BY <1>2 DEF creditVars, CreditInv, CreditTypeOK, PeriodIsReached, LockIsHeld,
     MonthsAreSet, RunsAreMade, ReadsAreReal, UnseenAreCharged, UsedCovers,
     OnlySuccessIsCharged, NoDoubleCount, UpgradesGrantTheDifference, PaidSum
<1> QED BY <1>1, <1>2

\* Whatever requests, readers and plan changes do, the invariant holds.
THEOREM CreditInvariance == CreditSpec => []CreditInv
<1>1. CreditInit => CreditInv
  BY InitialAccount
<1>2. CreditInv /\ [CreditNext]_creditVars => CreditInv'
  BY AccountKeeps
<1> QED BY <1>1, <1>2, PTL DEF CreditSpec

\* No credit is both spent and held for the same run, for any number of
\* requests, readers and repetitions of recordResearchRun.
THEOREM NoDoubleCountAlways == CreditSpec => []NoDoubleCount
<1>1. CreditInv => NoDoubleCount
  BY DEF CreditInv
<1> QED BY <1>1, CreditInvariance, PTL

\* Only completed runs are charged, however late their reads are recorded.
THEOREM OnlySuccessIsChargedAlways == CreditSpec => []OnlySuccessIsCharged
<1>1. CreditInv => OnlySuccessIsCharged
  BY DEF CreditInv
<1> QED BY <1>1, CreditInvariance, PTL

\* The paid grants of a month add up to one of the allowances it had, in
\* whatever order the plans came and whatever the allowances are.
THEOREM UpgradesGrantTheDifferenceAlways ==
  CreditSpec => []UpgradesGrantTheDifference
<1>1. CreditInv => UpgradesGrantTheDifference
  BY DEF CreditInv
<1> QED BY <1>1, CreditInvariance, PTL

-----------------------------------------------------------------------------
(* An admission is covered by the balance. *)

LEMMA GrantedType ==
  ASSUME CreditInv, NEW p \in Periods
  PROVE  GrantedCredits(p) \in Nat
<1>1. CASE tier = "free"
  BY <1>1, CreditsAreNatural DEF GrantedCredits
<1>2. CASE tier # "free"
  <2>1. tier \in PaidTiers
    BY <1>2 DEF CreditInv, CreditTypeOK
  <2>2. Allowance[tier] \in Nat
    BY <2>1, CreditsAreNatural DEF Allowance, PaidTiers
  <2>3. EnsuredPaid(p)[p] \in [PaidTiers -> Nat]
    BY GrantsAddUp
  <2>4. PaidSum(EnsuredPaid(p), p) \in Nat
    BY <2>3 DEF PaidSum, PaidTiers
  <2> QED BY <1>2, <2>2, <2>4 DEF GrantedCredits, Least
<1> QED BY <1>1, <1>2

LEMMA AdmissionArithmetic ==
  ASSUME NEW granted \in Nat, NEW used \in Nat, NEW held \in Nat,
         NEW cost \in Nat \ {0}, NEW real \in Nat, NEW late \in Nat,
         AtLeastZero(granted - used - held) >= cost, real <= used + late
  PROVE  real + cost + held <= granted + late
  BY DEF AtLeastZero

\* What a request that has read the account knows.
LEMMA ReadAccountIsCovered ==
  ASSUME CreditInv, NEW q \in Requests, request[q].at = "counted"
  PROVE  /\ lock = q /\ request[q].month \in Periods /\ request[q].used \in Nat
         /\ UsedCredits(usage, request[q].month) \in Nat
         /\ TotalCost(request, unseen) \in Nat
         /\ UsedCredits(usage, request[q].month)
              <= request[q].used + TotalCost(request, unseen)
<1>1. lock = q /\ request[q].month \in Periods /\ request[q].used \in Nat
  BY RowTypes DEF CreditInv, LockIsHeld, MonthsAreSet
<1>2. UsedKeys(usage, tier, request[q].month) \in SUBSET UsageKeys
      /\ unseen \in SUBSET UsageKeys
  BY DEF UsedKeys, CreditInv, CreditTypeOK, UsageKeys
<1>3. TotalCost(request, UsedKeys(usage, tier, request[q].month))
        <= request[q].used + TotalCost(request, unseen)
  BY DEF CreditInv, UsedCovers, IsCovered
<1> QED BY <1>1, <1>2, <1>3, TotalCostType, UsedIsTotalCost

LEMMA ReservationIsCovered ==
  ASSUME CreditInv, NEW q \in Requests, Admits(q), ReserveResearchCredits(q)
  PROVE  Committed(q, usage', reservation')
           <= GrantedCredits(request[q].month) + TotalCost(request, unseen)
<1> DEFINE p == request[q].month
           enough == RemainingCredits(q) >= ResearchCost(q)
           held == {x \in Requests \ {q} : reservation[x] = p}
<1>1. /\ request[q].at = "counted" /\ request[q].kind = "research"
      /\ EndTransaction(q, IF enough THEN "create" ELSE "done")
      /\ reservation' = (IF enough /\ ResearchCost(q) > 0
                         THEN [reservation EXCEPT ![q] = p] ELSE reservation)
      /\ usage' = usage
  BY DEF ReserveResearchCredits, EndTransaction
<1>2. enough
  <2> SUFFICES ASSUME ~enough PROVE FALSE
    OBVIOUS
  <2>1. request' = [request EXCEPT ![q] = Answered]
    BY <1>1 DEF EndTransaction
  <2>2. request'[q] = Answered
    BY <2>1 DEF CreditInv, CreditTypeOK
  <2> QED BY <1>1, <2>2, RequestRows DEF Admits
<1>3. CostOfKey(request, q) = ResearchCost(q) /\ ResearchCost(q) \in Nat \ {0}
  <2>1. q \notin Consumptions
    BY RequestsAreNoConsumptions
  <2> QED BY <2>1, CreditsAreNatural DEF CostOfKey, ResearchCost, Consumptions
<1>4. reservation' = [reservation EXCEPT ![q] = p]
  BY <1>1, <1>2, <1>3
<1>5. {x \in Requests \ {} : reservation'[x] = p} = held \cup {q}
  BY <1>4 DEF CreditInv, CreditTypeOK
<1>6. /\ held \in SUBSET UsageKeys /\ q \in UsageKeys /\ q \notin held
  BY DEF UsageKeys
<1>7. RemainingCredits(q)
        = AtLeastZero(GrantedCredits(p) - request[q].used - TotalCost(request, held))
  BY <1>1 DEF RemainingCredits, ReservedCredits
<1>8. Committed(q, usage', reservation')
        = UsedCredits(usage, p) + TotalCost(request, held \cup {q})
  BY <1>1, <1>5 DEF Committed, ReservedCredits, UsedCredits
<1> HIDE DEF p, held
<1>9. /\ TotalCost(request, held \cup {q})
           = TotalCost(request, held) + ResearchCost(q)
      /\ TotalCost(request, held) \in Nat
  BY <1>3, <1>6, RowTypes, TotalCostAdd, TotalCostType DEF CreditInv
<1>10. GrantedCredits(p) \in Nat
  BY <1>1, ReadAccountIsCovered, GrantedType DEF p
<1>11. UsedCredits(usage, p) + ResearchCost(q) + TotalCost(request, held)
         <= GrantedCredits(p) + TotalCost(request, unseen)
  <2>1. /\ request[q].used \in Nat /\ UsedCredits(usage, p) \in Nat
        /\ TotalCost(request, unseen) \in Nat
        /\ UsedCredits(usage, p) <= request[q].used + TotalCost(request, unseen)
    BY <1>1, ReadAccountIsCovered DEF p
  <2>2. AtLeastZero(GrantedCredits(p) - request[q].used - TotalCost(request, held))
          >= ResearchCost(q)
    BY <1>2, <1>7
  <2> QED BY <1>3, <1>9, <1>10, <2>1, <2>2, AdmissionArithmetic
<1>12. UsedCredits(usage, p) \in Nat
  BY <1>1, ReadAccountIsCovered DEF p
<1>13. Committed(q, usage', reservation')
         = UsedCredits(usage, p) + ResearchCost(q) + TotalCost(request, held)
  BY <1>3, <1>8, <1>9, <1>12
<1> QED BY <1>11, <1>13 DEF p

LEMMA ConsumptionIsCovered ==
  ASSUME CreditInv, NEW q \in Requests, Admits(q), ConsumeCredit(q)
  PROVE  Committed(q, usage', reservation')
           <= GrantedCredits(request[q].month) + TotalCost(request, unseen)
<1> DEFINE p == request[q].month
           kind == request[q].kind
           charged == usage[kind] = 0 /\ RemainingCredits(q) >= KeyCost(kind)
           held == {x \in Requests \ {} : reservation[x] = p}
           keys == UsedKeys(usage, tier, p)
<1>1. /\ request[q].at = "counted" /\ kind \in Consumptions
      /\ EndTransaction(q, "done")
      /\ usage' = (IF charged THEN [usage EXCEPT ![kind] = p] ELSE usage)
      /\ reservation' = reservation
  BY DEF ConsumeCredit, EndTransaction
<1>2. charged
  <2> SUFFICES ASSUME ~charged PROVE FALSE
    OBVIOUS
  <2>1. request' = [request EXCEPT ![q] = Answered]
    BY <1>1 DEF EndTransaction
  <2>2. request'[q] = Answered
    BY <2>1 DEF CreditInv, CreditTypeOK
  <2> QED BY <1>1, <2>2, RequestRows DEF Admits
<1>3. CostOfKey(request, kind) = KeyCost(kind) /\ KeyCost(kind) \in Nat \ {0}
  BY <1>1, CreditsAreNatural DEF CostOfKey, KeyCost, Consumptions
<1>4. p \in Periods /\ p # 0 /\ usage \in [UsageKeys -> Months] /\ kind \in UsageKeys
  BY <1>1, ReadAccountIsCovered DEF CreditInv, CreditTypeOK, UsageKeys, Periods
<1>5. UsedKeys(usage', tier, p) = keys \cup {kind} /\ kind \notin keys
  BY <1>1, <1>2, <1>4 DEF UsedKeys
<1>6. held \in SUBSET UsageKeys /\ keys \in SUBSET UsageKeys
  BY DEF UsageKeys, UsedKeys
<1>7. RemainingCredits(q)
        = AtLeastZero(GrantedCredits(p) - request[q].used - TotalCost(request, held))
  <2>1. kind # "research"
    BY <1>1 DEF Consumptions
  <2> QED BY <2>1 DEF RemainingCredits, ReservedCredits
<1>8. Committed(q, usage', reservation')
        = TotalCost(request, keys \cup {kind}) + TotalCost(request, held)
  BY <1>1, <1>5, UsedIsTotalCost DEF Committed, ReservedCredits
<1>9. UsedCredits(usage, p) = TotalCost(request, keys)
  BY UsedIsTotalCost
<1>10. RemainingCredits(q) >= KeyCost(kind)
  BY <1>2
<1>11. GrantedCredits(p) \in Nat
  BY <1>4, GrantedType
<1>12. /\ request[q].used \in Nat /\ UsedCredits(usage, p) \in Nat
       /\ TotalCost(request, unseen) \in Nat
       /\ UsedCredits(usage, p) <= request[q].used + TotalCost(request, unseen)
  BY <1>1, ReadAccountIsCovered
<1> HIDE DEF p, kind, charged, held, keys
<1>13. /\ TotalCost(request, keys \cup {kind})
            = TotalCost(request, keys) + KeyCost(kind)
       /\ TotalCost(request, held) \in Nat
  BY <1>3, <1>4, <1>5, <1>6, RowTypes, TotalCostAdd, TotalCostType DEF CreditInv
<1>14. UsedCredits(usage, p) + KeyCost(kind) + TotalCost(request, held)
         <= GrantedCredits(p) + TotalCost(request, unseen)
  <2>1. AtLeastZero(GrantedCredits(p) - request[q].used - TotalCost(request, held))
          >= KeyCost(kind)
    BY <1>7, <1>10
  <2> QED BY <1>3, <1>11, <1>12, <1>13, <2>1, AdmissionArithmetic
<1>15. Committed(q, usage', reservation')
         = UsedCredits(usage, p) + KeyCost(kind) + TotalCost(request, held)
  BY <1>8, <1>9, <1>13
<1> QED BY <1>14, <1>15 DEF p

\* Nothing but the end of its own transaction admits a request.
LEMMA AdmissionsEndTransactions ==
  ASSUME CreditInv, NEW q \in Requests, Admits(q), [CreditNext]_creditVars
  PROVE  ReserveResearchCredits(q) \/ ConsumeCredit(q)
<1>1. /\ request[q].at = "counted"
      /\ \/ request'[q].at = "create"
         \/ \E k \in Consumptions : usage'[k] # usage[k]
  BY DEF Admits
<1>2. request \in [Requests -> RequestRecords]
  BY DEF CreditInv, CreditTypeOK
<1>3. SUFFICES ASSUME ~ReserveResearchCredits(q), ~ConsumeCredit(q)
               PROVE  /\ request'[q].at # "create"
                      /\ \A k \in Consumptions : usage'[k] = usage[k]
  BY <1>1
<1>4. ASSUME NEW x \in Requests,
             \/ \E key \in IdempotencyKeys, target \in Targets :
                  BeginResearch(x, key, target)
             \/ \E kind \in Consumptions : BeginConsumption(x, kind)
             \/ LockAccount(x) \/ CreateRun(x) \/ ReleaseResearchCredits(x)
      PROVE  UNCHANGED usage /\ request'[q] = request[q]
  <2>1. UNCHANGED usage /\ request[x].at # "counted"
    BY <1>4 DEF BeginResearch, BeginConsumption, LockAccount, CreateRun,
       ReleaseResearchCredits
  <2>2. x # q
    BY <1>1, <2>1
  <2>3. \E v : request' = [request EXCEPT ![x] = v]
    <3>1. CASE LockAccount(x)
      <4>1. request' = [request EXCEPT ![x] =
              [request[x] EXCEPT !.at = "counted",
                                 !.used = UsedCredits(usage, request[x].month)]]
        BY <1>2, <3>1 DEF LockAccount
      <4> QED BY <4>1
    <3>2. CASE CreateRun(x)
      <4>1. PICK to : request' = [request EXCEPT ![x].at = to]
        BY <3>2 DEF CreateRun
      <4>2. request' = [request EXCEPT ![x] = [request[x] EXCEPT !.at = to]]
        BY <1>2, <4>1
      <4> QED BY <4>2
    <3>3. CASE ReleaseResearchCredits(x)
      <4>1. request' = [request EXCEPT ![x] = [request[x] EXCEPT !.at = "done"]]
        BY <1>2, <3>3 DEF ReleaseResearchCredits
      <4> QED BY <4>1
    <3>4. CASE \/ \E key \in IdempotencyKeys, target \in Targets :
                    BeginResearch(x, key, target)
               \/ \E kind \in Consumptions : BeginConsumption(x, kind)
      BY <3>4 DEF BeginResearch, BeginConsumption
    <3> QED BY <1>4, <3>1, <3>2, <3>3, <3>4
  <2> QED BY <1>2, <2>1, <2>2, <2>3
<1>5. ASSUME NEW x \in Requests, ReserveResearchCredits(x) \/ ConsumeCredit(x)
      PROVE  FALSE
  <2>1. request[x].at = "counted"
    BY <1>5 DEF ReserveResearchCredits, ConsumeCredit, EndTransaction
  <2>2. lock = x /\ lock = q
    BY <1>1, <2>1 DEF CreditInv, LockIsHeld
  <2> QED BY <1>3, <1>5, <2>2
<1>6. ASSUME NEW x \in Requests, RollBack(x)
      PROVE  UNCHANGED usage /\ request'[q] \in {request[q], Answered}
  BY <1>2, <1>6 DEF RollBack
<1>7. ASSUME NEW r \in Requests, NEW status \in RunStates,
             RecordResearchRun(r, status)
      PROVE  UNCHANGED request /\ \A k \in Consumptions : usage'[k] = usage[k]
  <2>1. UNCHANGED request
    BY <1>7 DEF RecordResearchRun
  <2>2. UNCHANGED usage \/ usage' = [usage EXCEPT ![r] = period]
    BY <1>7 DEF RecordResearchRun
  <2>3. \A k \in Consumptions : k # r /\ k \in UsageKeys
    BY RequestsAreNoConsumptions DEF UsageKeys
  <2> QED BY <2>1, <2>2, <2>3 DEF CreditInv, CreditTypeOK
<1>8. CASE UNCHANGED <<request, usage>>
  BY <1>1, <1>8
<1>9. CASE CreditNext
  <2>1. ASSUME NEW x \in Requests,
               ReadRun(x) \/ ExpireReservation(x)
                 \/ \E to \in RunStates : MoveRun(x, to)
        PROVE  UNCHANGED <<request, usage>>
    BY <2>1 DEF ReadRun, ExpireReservation, MoveRun
  <2>2. CASE NextPeriod \/ \E to \in {"free"} \cup PaidTiers : ChangePlan(to)
    BY <2>2, <1>8 DEF NextPeriod, ChangePlan
  <2> QED BY <1>1, <1>4, <1>5, <1>6, <1>7, <1>8, <1>9, <2>1, <2>2, RequestRows
      DEF CreditNext
<1> QED BY <1>8, <1>9 DEF creditVars

\* An admission leaves no more spent and reserved than the plan granted, but
\* for the runs that were charged between its own two reads: for any number of
\* requests at once, any costs and any allowances.
THEOREM AdmissionsAreCoveredAlways == CreditSpec => AdmissionsAreCovered
<1> DEFINE Covered == \A q \in Requests : Admits(q) =>
             Committed(q, usage', reservation')
               <= GrantedCredits(request[q].month) + TotalCost(request, unseen)
<1>1. CreditInv /\ [CreditNext]_creditVars => Covered
  BY AdmissionsEndTransactions, ReservationIsCovered, ConsumptionIsCovered
<1> HIDE DEF Covered
<1>2. CreditSpec => [][Covered]_creditVars
  BY <1>1, CreditInvariance, PTL DEF CreditSpec
<1> QED BY <1>2 DEF AdmissionsAreCovered, Covered


\* Grants, reservations, charges and requests keep their types, and so do what
\* requests and readers remember of them.
THEOREM CreditTypes == CreditSpec => []CreditTypeOK
<1>1. CreditInv => CreditTypeOK
  BY DEF CreditInv
<1> QED BY <1>1, CreditInvariance, PTL

-----------------------------------------------------------------------------
(* Every hold has a run behind it, or an excuse. *)

HoldsAreAsked ==
  \A q \in Requests : reservation[q] # 0 \/ run[q] # "none" => q \in AskedFor
UnmadeAreUnrecorded == \A q \in Requests : run[q] = "none" => recorded[q] = "none"
ReadsAreMade == \A read \in reads : run[read[1]] # "none" /\ read[2] # "none"
\* A request for research has its key until it is answered, no other has one.
KeyFits(row) ==
  /\ row.at \in {"begun", "counted"} /\ row.kind = "research"
       => row.key \in IdempotencyKeys
  /\ row.at \in {"create", "release"} => row.key \in IdempotencyKeys
  /\ row.kind # "research" => row.key = NoKey
KeysAreSet == \A q \in Requests : KeyFits(request[q])

HoldsInv == /\ HoldsAreAsked /\ UnmadeAreUnrecorded /\ ReadsAreMade /\ KeysAreSet
            /\ HeldForARun

Asked(row) == row.at \in {"create", "release", "done"} /\ row.key # NoKey
Held == {q \in Requests : reservation[q] # 0}
Charged == {k \in UsageKeys : usage[k] # 0}

\* A request without a run and a hold changes, and is given none.
LEMMA UnaskedMoves ==
  ASSUME CreditInv, HoldsInv, NEW q \in Requests, NEW row \in RequestRecords,
         q \notin AskedFor, ~ Asked(row), KeyFits(row),
         request' = [request EXCEPT ![q] = row], ReadsAreMade',
         UNCHANGED <<reservation, run, recorded>>
  PROVE  HoldsInv' /\ UNCHANGED AskedFor
<1>1. request'[q] = row /\ \A x \in Requests : x # q => request'[x] = request[x]
  BY DEF CreditInv, CreditTypeOK
<1>2. AskedFor' = AskedFor
  BY <1>1 DEF AskedFor, Asked
<1>3. HoldsAreAsked' /\ UnmadeAreUnrecorded' /\ KeysAreSet'
  BY <1>1, <1>2 DEF HoldsInv, HoldsAreAsked, UnmadeAreUnrecorded, KeysAreSet
<1>4. HeldForARun'
  <2> SUFFICES ASSUME NEW x \in Requests, reservation[x] # 0
               PROVE  \/ run[x] # "none" /\ recorded[x] \notin Ended
                      \/ request'[x].at \in {"create", "release"}
                      \/ /\ request'[x].at = "done"
                         /\ \E r \in (RunOf(request[x].key))' \ {x} : TRUE
    <3>1. \A x \in Requests : reservation[x] # 0 => request'[x] = request[x]
      BY <1>1 DEF HoldsInv, HoldsAreAsked
    <3> QED BY <3>1 DEF HeldForARun, RunOf
  <2>1. request'[x] = request[x]
    BY <1>1 DEF HoldsInv, HoldsAreAsked
  <2>2. RunOf(request[x].key) \subseteq (RunOf(request[x].key))'
    <3>1. \A r \in Requests : run[r] # "none" => request'[r] = request[r]
      BY <1>1 DEF HoldsInv, HoldsAreAsked
    <3> QED BY <2>1, <3>1 DEF RunOf
  <2> QED BY <2>1, <2>2 DEF HoldsInv, HeldForARun
<1> QED BY <1>2, <1>3, <1>4 DEF HoldsInv

\* A run or a hold changes and no request does: runs stay, holds are dropped,
\* and a hold that is kept is not recorded as ended.
LEMMA RunsMove ==
  ASSUME CreditInv, HoldsInv, UNCHANGED request,
         \A q \in Requests : run[q] = "none" <=> run'[q] = "none",
         \A q \in Requests : reservation'[q] \in {0, reservation[q]},
         \A q \in Requests : \/ recorded'[q] = recorded[q]
                             \/ /\ recorded'[q] \in Ended => reservation'[q] = 0
                                /\ run[q] # "none",
         ReadsAreMade'
  PROVE  HoldsInv' /\ UNCHANGED AskedFor
<1>1. AskedFor' = AskedFor
  BY DEF AskedFor
<1>2. \A key : (RunOf(key))' = RunOf(key)
  BY DEF RunOf
<1>3. HoldsAreAsked' /\ UnmadeAreUnrecorded' /\ KeysAreSet'
  BY <1>1 DEF HoldsInv, HoldsAreAsked, UnmadeAreUnrecorded, KeysAreSet
<1>4. HeldForARun'
  <2>1. ASSUME NEW q \in Requests, reservation'[q] # 0
        PROVE  \/ run'[q] # "none" /\ recorded'[q] \notin Ended
               \/ request[q].at \in {"create", "release"}
               \/ /\ request[q].at = "done"
                  /\ \E r \in RunOf(request[q].key) \ {q} : TRUE
    BY <2>1 DEF HoldsInv, HeldForARun
  <2> QED BY <1>2, <2>1 DEF HeldForARun
<1> QED BY <1>1, <1>3, <1>4 DEF HoldsInv

\* A request that is not past its transaction was given nothing.
LEMMA UnsettledAreUnasked ==
  ASSUME NEW q \in Requests, request[q].at \in {"idle", "begun", "counted"}
  PROVE  q \notin AskedFor
  BY DEF AskedFor

LEMMA AnsweredFits == ~ Asked(Answered) /\ KeyFits(Answered)
  BY DEF Asked, KeyFits, Answered, IdleRequest

\* What a reader sees of a run is made.
LEMMA ReadsStayMade ==
  ASSUME HoldsInv, NEW seen, seen \subseteq Requests,
         \A r \in seen : run'[r] # "none",
         \A r \in Requests : run[r] # "none" => run'[r] # "none",
         CreditInv,
         reads' \subseteq reads \cup {<<r, run'[r]>> : r \in seen}
  PROVE  ReadsAreMade'
<1>1. \A read \in reads : read[1] \in Requests
  BY DEF CreditInv, CreditTypeOK
<1> QED BY <1>1 DEF HoldsInv, ReadsAreMade

-----------------------------------------------------------------------------
(* The steps, as the contract sees them. *)

\* No step of one request's own transaction, until it reserves, is seen.
LEMMA BeginResearchHolds ==
  ASSUME CreditInv, HoldsInv, NEW q \in Requests, NEW key \in IdempotencyKeys,
         NEW target \in Targets, BeginResearch(q, key, target)
  PROVE  HoldsInv' /\ UNCHANGED <<AskedFor, Held, Charged>>
<1> DEFINE begun == [IdleRequest EXCEPT !.at = "begun", !.key = key,
                                        !.target = target, !.month = period]
           known == RunOf(key)
           row == IF known = {} THEN begun ELSE Answered
           same == {r \in known : request[r].target = target}
<1>1. /\ request[q].at = "idle"
      /\ request' = [request EXCEPT ![q] = row]
      /\ reads' = reads \cup {<<r, run[r]>> : r \in same}
      /\ UNCHANGED <<reservation, usage, run, recorded>>
  BY DEF BeginResearch
<1>2. IdleRequest \in RequestRecords /\ period \in Months
  BY RequestRows DEF CreditInv, CreditTypeOK
<1>3. /\ begun \in RequestRecords
      /\ begun.at = "begun" /\ begun.key = key /\ begun.kind = "research"
  <2>1. begun \in RequestRecords
    BY <1>2, Zenon DEF RequestRecords
  <2>2. begun.at = "begun" /\ begun.key = key /\ begun.kind = IdleRequest.kind
    BY <1>2 DEF RequestRecords
  <2> QED BY <2>1, <2>2 DEF IdleRequest
<1>4. ~ Asked(begun) /\ KeyFits(begun)
  BY <1>3 DEF Asked, KeyFits
<1>5. same \subseteq Requests /\ \A r \in same : run[r] # "none"
  BY DEF RunOf
<1> HIDE DEF begun, known, same
<1>6. row \in RequestRecords /\ ~ Asked(row) /\ KeyFits(row)
  BY <1>3, <1>4, AnsweredFits, RequestRows
<1> HIDE DEF row
<1>7. ReadsAreMade'
  BY <1>1, <1>5, ReadsStayMade
<1>8. HoldsInv' /\ UNCHANGED AskedFor
  BY <1>1, <1>6, <1>7, UnsettledAreUnasked, UnaskedMoves
<1> QED BY <1>1, <1>8 DEF Held, Charged

LEMMA BeginConsumptionHolds ==
  ASSUME CreditInv, HoldsInv, NEW q \in Requests, NEW kind \in Consumptions,
         BeginConsumption(q, kind)
  PROVE  HoldsInv' /\ UNCHANGED <<AskedFor, Held, Charged>>
<1> DEFINE row == [IdleRequest EXCEPT !.at = "begun", !.kind = kind, !.month = period]
<1>1. /\ request[q].at = "idle"
      /\ request' = [request EXCEPT ![q] = row]
      /\ UNCHANGED <<reservation, usage, run, recorded, reads>>
  BY DEF BeginConsumption, ResearchRuns
<1>2. IdleRequest \in RequestRecords /\ period \in Months
  BY RequestRows DEF CreditInv, CreditTypeOK
<1>3. row \in RequestRecords /\ row.at = "begun" /\ row.key = NoKey /\ row.kind = kind
  <2>1. row \in RequestRecords
    BY <1>2, Zenon DEF RequestRecords
  <2>2. row.at = "begun" /\ row.key = IdleRequest.key /\ row.kind = kind
    BY <1>2 DEF RequestRecords
  <2> QED BY <2>1, <2>2 DEF IdleRequest
<1>4. ~ Asked(row) /\ KeyFits(row)
  BY <1>3 DEF Asked, KeyFits, Consumptions
<1> HIDE DEF row
<1>5. ReadsAreMade'
  BY <1>1 DEF HoldsInv, ReadsAreMade
<1>6. HoldsInv' /\ UNCHANGED AskedFor
  BY <1>1, <1>3, <1>4, <1>5, UnsettledAreUnasked, UnaskedMoves
<1> QED BY <1>1, <1>6 DEF Held, Charged

LEMMA LockAccountHolds ==
  ASSUME CreditInv, HoldsInv, NEW q \in Requests, LockAccount(q)
  PROVE  HoldsInv' /\ UNCHANGED <<AskedFor, Held, Charged>>
<1> DEFINE row == [request[q] EXCEPT !.at = "counted",
                     !.used = UsedCredits(usage, request[q].month)]
<1>1. /\ request[q].at = "begun" /\ request \in [Requests -> RequestRecords]
      /\ UNCHANGED <<reservation, usage, run, recorded, reads>>
  BY DEF LockAccount, ResearchRuns, CreditInv, CreditTypeOK
<1>2. request' = [request EXCEPT ![q] = row] /\ request'[q] = row
  BY <1>1 DEF LockAccount
<1>3. row \in RequestRecords
  BY <1>1, <1>2, LockAccountKeeps DEF CreditInv, CreditTypeOK
<1>4. /\ row.at = "counted" /\ row.kind = request[q].kind /\ row.key = request[q].key
  BY <1>1 DEF RequestRecords
<1>5. ~ Asked(row) /\ KeyFits(row)
  BY <1>1, <1>4 DEF Asked, KeyFits, HoldsInv, KeysAreSet
<1> HIDE DEF row
<1>6. ReadsAreMade'
  BY <1>1 DEF HoldsInv, ReadsAreMade
<1>7. HoldsInv' /\ UNCHANGED AskedFor
  BY <1>1, <1>2, <1>3, <1>5, <1>6, UnsettledAreUnasked, UnaskedMoves
<1> QED BY <1>1, <1>7 DEF Held, Charged

LEMMA RollBackHolds ==
  ASSUME CreditInv, HoldsInv, NEW q \in Requests, RollBack(q)
  PROVE  HoldsInv' /\ UNCHANGED <<AskedFor, Held, Charged>>
<1>1. /\ request[q].at \in {"begun", "counted"}
      /\ request' = [request EXCEPT ![q] = Answered]
      /\ UNCHANGED <<reservation, usage, run, recorded, reads>>
  BY DEF RollBack, ResearchRuns
<1>2. ReadsAreMade'
  BY <1>1 DEF HoldsInv, ReadsAreMade
<1>3. HoldsInv' /\ UNCHANGED AskedFor
  BY <1>1, <1>2, AnsweredFits, RequestRows, UnsettledAreUnasked, UnaskedMoves
<1> QED BY <1>1, <1>3 DEF Held, Charged

\* A translation or a view is paid for once, without a hold.
LEMMA ConsumeHolds ==
  ASSUME CreditInv, HoldsInv, NEW q \in Requests, ConsumeCredit(q)
  PROVE  /\ HoldsInv' /\ UNCHANGED <<AskedFor, Held>>
         /\ \/ UNCHANGED Charged
            \/ \E k \in Consumptions \ Charged : Charged' = Charged \cup {k}
<1> DEFINE kind == request[q].kind
<1>1. /\ request[q].at = "counted" /\ kind \in Consumptions
      /\ request' = [request EXCEPT ![q] = Answered]
      /\ UNCHANGED <<reservation, run, recorded, reads>>
  BY DEF ConsumeCredit, EndTransaction, ResearchRuns
<1>2. ReadsAreMade'
  BY <1>1 DEF HoldsInv, ReadsAreMade
<1>3. HoldsInv' /\ UNCHANGED AskedFor
  BY <1>1, <1>2, AnsweredFits, RequestRows, UnsettledAreUnasked, UnaskedMoves
<1>4. \/ UNCHANGED usage
      \/ usage[kind] = 0 /\ usage' = [usage EXCEPT ![kind] = request[q].month]
  BY DEF ConsumeCredit
<1>5. request[q].month # 0 /\ usage \in [UsageKeys -> Months] /\ kind \in UsageKeys
  BY <1>1 DEF CreditInv, CreditTypeOK, MonthsAreSet, Periods, UsageKeys
<1>6. \/ UNCHANGED Charged
      \/ kind \notin Charged /\ Charged' = Charged \cup {kind}
  BY <1>4, <1>5 DEF Charged
<1> QED BY <1>1, <1>3, <1>6 DEF Held

\* A reservation is the first hold of its request.
LEMMA ReserveHolds ==
  ASSUME CreditInv, HoldsInv, NEW q \in Requests, ReserveResearchCredits(q)
  PROVE  /\ HoldsInv' /\ UNCHANGED Charged
         /\ \/ UNCHANGED <<AskedFor, Held>>
            \/ /\ q \notin AskedFor /\ AskedFor' = AskedFor \cup {q}
               /\ Held' = Held \cup {q}
<1> DEFINE enough == RemainingCredits(q) >= ResearchCost(q)
           row == [request[q] EXCEPT !.at = "create", !.month = 0, !.used = 0]
<1>1. /\ request[q].at = "counted" /\ request[q].kind = "research"
      /\ EndTransaction(q, IF enough THEN "create" ELSE "done")
      /\ reservation' = (IF enough /\ ResearchCost(q) > 0
                         THEN [reservation EXCEPT ![q] = request[q].month]
                         ELSE reservation)
      /\ UNCHANGED <<usage, run, recorded, reads>>
      /\ request \in [Requests -> RequestRecords]
  BY DEF ReserveResearchCredits, EndTransaction, ResearchRuns, CreditInv, CreditTypeOK
<1>2. ReadsAreMade' /\ UNCHANGED Charged
  BY <1>1 DEF HoldsInv, ReadsAreMade, Charged
<1>3. CASE ~enough
  <2>1. request' = [request EXCEPT ![q] = Answered] /\ UNCHANGED reservation
    BY <1>1, <1>3 DEF EndTransaction
  <2>2. HoldsInv' /\ UNCHANGED AskedFor
    BY <1>1, <1>2, <2>1, AnsweredFits, RequestRows, UnsettledAreUnasked, UnaskedMoves
  <2> QED BY <1>2, <2>1, <2>2 DEF Held
<1>4. CASE enough
  <2>1. ResearchCost(q) > 0 /\ request[q].month \in Periods /\ request[q].month # 0
    BY <1>1, CreditsAreNatural
    DEF ResearchCost, CreditInv, MonthsAreSet, Periods
  <2>2. /\ request' = [request EXCEPT ![q] = row]
        /\ reservation' = [reservation EXCEPT ![q] = request[q].month]
    BY <1>1, <1>4, <2>1 DEF EndTransaction
  <2>3. row.at = "create" /\ row.kind = "research" /\ row.key = request[q].key
    BY <1>1 DEF RequestRecords
  <2>4. row.key \in IdempotencyKeys
    BY <1>1, <2>3 DEF HoldsInv, KeysAreSet, KeyFits
  <2>5. Asked(row) /\ KeyFits(row)
    BY <2>3, <2>4, NoKeyIsFresh DEF Asked, KeyFits
  <2> HIDE DEF row, enough
  <2>6. /\ request'[q] = row /\ reservation'[q] = request[q].month
        /\ \A x \in Requests : x # q => /\ request'[x] = request[x]
                                        /\ reservation'[x] = reservation[x]
    BY <1>1, <2>2 DEF CreditInv, CreditTypeOK
  <2>7. q \notin AskedFor /\ AskedFor' = AskedFor \cup {q} /\ Held' = Held \cup {q}
    BY <1>1, <2>1, <2>5, <2>6 DEF AskedFor, Asked, Held
  <2>8. HoldsAreAsked' /\ UnmadeAreUnrecorded' /\ KeysAreSet'
    BY <1>1, <2>5, <2>6, <2>7 DEF HoldsInv, HoldsAreAsked, UnmadeAreUnrecorded, KeysAreSet
  <2>9. HeldForARun'
    <3>1. run[q] = "none"
      BY <2>7 DEF HoldsInv, HoldsAreAsked
    <3>2. \A key : (RunOf(key))' = RunOf(key)
      BY <1>1, <2>6, <3>1 DEF RunOf
    <3>3. ASSUME NEW x \in Requests, reservation'[x] # 0
          PROVE  \/ run[x] # "none" /\ recorded[x] \notin Ended
                 \/ request'[x].at \in {"create", "release"}
                 \/ /\ request'[x].at = "done"
                    /\ \E r \in RunOf(request'[x].key) \ {x} : TRUE
      BY <2>3, <2>6, <3>3 DEF HoldsInv, HeldForARun
    <3> QED BY <1>1, <3>2, <3>3 DEF HeldForARun
  <2> QED BY <1>2, <2>7, <2>8, <2>9 DEF HoldsInv
<1> QED BY <1>3, <1>4

\* A request that was given a hold goes on: what it was given stays given.
LEMMA AskedMoves ==
  ASSUME CreditInv, HoldsInv, NEW q \in Requests, NEW row,
         q \in AskedFor, Asked(row), KeyFits(row), row.key = request[q].key,
         request' = [request EXCEPT ![q] = row], ReadsAreMade',
         UNCHANGED recorded,
         \A x \in Requests : /\ run[x] # "none" => run'[x] # "none"
                             /\ x # q => run'[x] = run[x],
         \A x \in Requests : x # q => reservation'[x] = reservation[x],
         reservation'[q] # 0 =>
           \/ run'[q] # "none" /\ recorded[q] \notin Ended
           \/ row.at = "release"
           \/ row.at = "done" /\ \E r \in RunOf(row.key) \ {q} : TRUE
  PROVE  HoldsInv' /\ UNCHANGED AskedFor
<1>1. request'[q] = row /\ \A x \in Requests : x # q => request'[x] = request[x]
  BY DEF CreditInv, CreditTypeOK
<1>2. AskedFor' = AskedFor
  BY <1>1 DEF AskedFor, Asked
<1>3. HoldsAreAsked' /\ UnmadeAreUnrecorded' /\ KeysAreSet'
  BY <1>1, <1>2 DEF HoldsInv, HoldsAreAsked, UnmadeAreUnrecorded, KeysAreSet
<1>4. \A x \in Requests : RunOf(request[x].key) \subseteq (RunOf(request[x].key))'
  BY <1>1 DEF RunOf
<1>5. ASSUME NEW x \in Requests, reservation'[x] # 0
      PROVE  \/ run'[x] # "none" /\ recorded[x] \notin Ended
             \/ request'[x].at \in {"create", "release"}
             \/ /\ request'[x].at = "done"
                /\ \E r \in (RunOf(request[x].key))' \ {x} : TRUE
  <2>1. CASE x = q
    BY <1>1, <1>4, <1>5, <2>1
  <2>2. CASE x # q
    <3>1. /\ request'[x] = request[x] /\ run'[x] = run[x] /\ reservation[x] # 0
      BY <1>1, <1>5, <2>2
    <3> QED BY <1>4, <3>1 DEF HoldsInv, HeldForARun
  <2> QED BY <2>1, <2>2
<1>6. HeldForARun'
  BY <1>5 DEF HeldForARun, RunOf
<1> QED BY <1>2, <1>3, <1>6 DEF HoldsInv

\* Whether the run is created, refused or found, the hold has its excuse.
LEMMA CreateRunHolds ==
  ASSUME CreditInv, HoldsInv, NEW q \in Requests, CreateRun(q)
  PROVE  HoldsInv' /\ UNCHANGED <<AskedFor, Held, Charged>>
<1> DEFINE known == RunOf(request[q].key)
           same == {r \in known : request[r].target = request[q].target}
<1>1. /\ request[q].at = "create" /\ request \in [Requests -> RequestRecords]
      /\ run \in [Requests -> RunStates]
      /\ UNCHANGED <<reservation, usage, recorded>>
  BY DEF CreateRun, CreditInv, CreditTypeOK
<1>2. run[q] = "none" /\ recorded[q] = "none" /\ request[q].key \in IdempotencyKeys
  BY <1>1, UnsettledAreUncharged DEF HoldsInv, UnmadeAreUnrecorded, KeysAreSet, KeyFits
<1>3. q \in AskedFor
  BY <1>1, <1>2, NoKeyIsFresh DEF AskedFor
<1>4. PICK to \in {"done", "release"} :
        /\ request' = [request EXCEPT ![q].at = to]
        /\ \/ run' = [run EXCEPT ![q] = "active"]
           \/ run' = run /\ (to = "release" \/ same # {})
        /\ \/ UNCHANGED reads
           \/ run'[q] = "active" /\ reads' = reads \cup {<<q, "active">>}
           \/ run' = run /\ reads' = reads \cup {<<r, run[r]>> : r \in same}
  <2>1. CASE /\ same = {} /\ request' = [request EXCEPT ![q].at = "release"]
             /\ UNCHANGED <<run, reads>>
    BY <2>1
  <2>2. CASE /\ same # {} /\ request' = [request EXCEPT ![q].at = "done"]
             /\ reads' = reads \cup {<<r, run[r]>> : r \in same}
             /\ UNCHANGED run
    BY <2>2
  <2>3. ASSUME NEW answered \in BOOLEAN,
               run' = [run EXCEPT ![q] = "active"],
               request' = [request EXCEPT ![q].at =
                             IF answered THEN "done" ELSE "release"],
               reads' = IF answered THEN reads \cup {<<q, "active">>} ELSE reads
        PROVE  \E to \in {"done", "release"} :
                 /\ request' = [request EXCEPT ![q].at = to]
                 /\ run' = [run EXCEPT ![q] = "active"]
                 /\ \/ UNCHANGED reads
                    \/ run'[q] = "active" /\ reads' = reads \cup {<<q, "active">>}
    BY <1>1, <2>3
  <2> QED BY <2>1, <2>2, <2>3 DEF CreateRun
<1> DEFINE row == [request[q] EXCEPT !.at = to]
<1>5. request' = [request EXCEPT ![q] = row]
  BY <1>1, <1>4
<1>6. row.at = to /\ row.key = request[q].key /\ row.kind = request[q].kind
  BY <1>1 DEF RequestRecords
<1>7. Asked(row) /\ KeyFits(row)
  BY <1>2, <1>6, NoKeyIsFresh DEF Asked, KeyFits, HoldsInv, KeysAreSet
<1> HIDE DEF row
<1>8. /\ \A x \in Requests : /\ run[x] # "none" => run'[x] # "none"
                             /\ x # q => run'[x] = run[x]
      /\ run' # run => run'[q] # "none"
  BY <1>1, <1>2, <1>4
<1>9. same \subseteq Requests /\ same \subseteq RunOf(request[q].key)
      /\ \A r \in same : run[r] # "none" /\ r # q
  BY <1>2 DEF RunOf
<1> HIDE DEF known, same
<1>10. ReadsAreMade'
  <2>1. PICK seen \in SUBSET Requests :
          /\ \A r \in seen : run'[r] # "none"
          /\ reads' \subseteq reads \cup {<<r, run'[r]>> : r \in seen}
    <3>1. CASE UNCHANGED reads
      <4> WITNESS {} \in SUBSET Requests
      <4> QED BY <3>1
    <3>2. CASE run'[q] = "active" /\ reads' = reads \cup {<<q, "active">>}
      <4> WITNESS {q} \in SUBSET Requests
      <4> QED BY <3>2
    <3>3. CASE run' = run /\ reads' = reads \cup {<<r, run[r]>> : r \in same}
      <4> same \in SUBSET Requests
        BY <1>9
      <4> WITNESS same \in SUBSET Requests
      <4> QED BY <1>9, <3>3
    <3> QED BY <1>4, <3>1, <3>2, <3>3
  <2> QED BY <1>8, <2>1, ReadsStayMade
<1>11. \/ run'[q] # "none" /\ recorded[q] \notin Ended
       \/ row.at = "release"
       \/ row.at = "done" /\ \E r \in RunOf(row.key) \ {q} : TRUE
  <2>1. recorded[q] \notin Ended
    BY <1>2 DEF Ended
  <2>2. same # {} => \E r \in RunOf(row.key) \ {q} : TRUE
    BY <1>6, <1>9
  <2>3. run' = [run EXCEPT ![q] = "active"] => run'[q] # "none"
    BY <1>1
  <2> QED BY <1>4, <1>6, <2>1, <2>2, <2>3
<1>12. HoldsInv' /\ UNCHANGED AskedFor
  BY <1>1, <1>3, <1>5, <1>6, <1>7, <1>8, <1>10, <1>11, AskedMoves
<1> QED BY <1>1, <1>12 DEF Held, Charged

LEMMA ReleaseHolds ==
  ASSUME CreditInv, HoldsInv, NEW q \in Requests, ReleaseResearchCredits(q)
  PROVE  /\ HoldsInv' /\ UNCHANGED <<AskedFor, Charged>>
         /\ \E let \in {q} : Held' = Held \ {let}
<1> DEFINE row == [request[q] EXCEPT !.at = "done"]
<1>1. /\ request[q].at = "release" /\ request \in [Requests -> RequestRecords]
      /\ request' = [request EXCEPT ![q].at = "done"]
      /\ reservation' = [reservation EXCEPT ![q] = 0]
      /\ reservation \in [Requests -> Months]
      /\ UNCHANGED <<usage, run, recorded, reads>>
  BY DEF ReleaseResearchCredits, ResearchRuns, CreditInv, CreditTypeOK
<1>2. request' = [request EXCEPT ![q] = row]
  BY <1>1
<1>3. row.at = "done" /\ row.key = request[q].key /\ row.kind = request[q].kind
  BY <1>1 DEF RequestRecords
<1>4. request[q].key \in IdempotencyKeys
  BY <1>1 DEF HoldsInv, KeysAreSet, KeyFits
<1>5. Asked(row) /\ KeyFits(row) /\ q \in AskedFor
  BY <1>1, <1>3, <1>4, NoKeyIsFresh DEF Asked, KeyFits, HoldsInv, KeysAreSet, AskedFor
<1> HIDE DEF row
<1>6. reservation'[q] = 0 /\ \A x \in Requests : x # q => reservation'[x] = reservation[x]
  BY <1>1
<1>7. ReadsAreMade'
  BY <1>1 DEF HoldsInv, ReadsAreMade
<1>8. HoldsInv' /\ UNCHANGED AskedFor
  BY <1>1, <1>2, <1>3, <1>5, <1>6, <1>7, AskedMoves
<1> QED BY <1>1, <1>6, <1>8 DEF Held, Charged

\* A run moves, is read, or its hold expires.
LEMMA BystanderHolds ==
  ASSUME CreditInv, HoldsInv, NEW r \in Requests,
         \/ ReadRun(r) \/ ExpireReservation(r)
         \/ \E to \in RunStates : MoveRun(r, to)
  PROVE  /\ HoldsInv' /\ UNCHANGED <<AskedFor, Charged>>
         /\ UNCHANGED Held \/ Held' = Held \ {r}
<1>1. UNCHANGED <<usage, recorded, request>>
  BY DEF ReadRun, ExpireReservation, MoveRun, ResearchRuns
<1>2. /\ \/ UNCHANGED reads
         \/ run[r] # "none" /\ UNCHANGED run /\ reads' = reads \cup {<<r, run[r]>>}
      /\ \/ UNCHANGED run
         \/ /\ run[r] \in {"active", "failed"} /\ UNCHANGED reads
            /\ \E to \in Ended \cup {"active"} : run' = [run EXCEPT ![r] = to]
      /\ \/ UNCHANGED reservation
         \/ reservation' = [reservation EXCEPT ![r] = 0]
  BY DEF ReadRun, ExpireReservation, MoveRun, MayMove, ResearchRuns
<1>3. run \in [Requests -> RunStates] /\ reservation \in [Requests -> Months]
  BY DEF CreditInv, CreditTypeOK
<1>4. \A q \in Requests : run[q] = "none" <=> run'[q] = "none"
  BY <1>2, <1>3 DEF Ended
<1>5. \A q \in Requests : reservation'[q] \in {0, reservation[q]}
  BY <1>2, <1>3
<1>6. ReadsAreMade'
  <2>1. PICK seen \in SUBSET Requests :
          /\ \A x \in seen : run'[x] # "none"
          /\ reads' \subseteq reads \cup {<<x, run'[x]>> : x \in seen}
    <3>1. CASE UNCHANGED reads
      <4> WITNESS {} \in SUBSET Requests
      <4> QED BY <3>1
    <3>2. CASE run[r] # "none" /\ UNCHANGED run /\ reads' = reads \cup {<<r, run[r]>>}
      <4> WITNESS {r} \in SUBSET Requests
      <4> QED BY <3>2
    <3> QED BY <1>2, <3>1, <3>2
  <2> QED BY <1>4, <2>1, ReadsStayMade
<1>7. HoldsInv' /\ UNCHANGED AskedFor
  BY <1>1, <1>4, <1>5, <1>6, RunsMove
<1> QED BY <1>1, <1>2, <1>3, <1>7 DEF Held, Charged

\* A recording drops the hold of a run that ended, and charges the first success.
LEMMA RecordHolds ==
  ASSUME CreditInv, HoldsInv, NEW r \in Requests, NEW status \in RunStates,
         RecordResearchRun(r, status)
  PROVE  /\ HoldsInv' /\ UNCHANGED AskedFor
         /\ \/ UNCHANGED Charged /\ (UNCHANGED Held \/ Held' = Held \ {r})
            \/ /\ r \in AskedFor \ Charged /\ Charged' = Charged \cup {r}
               /\ Held' = Held \ {r}
<1>1. /\ <<r, status>> \in reads /\ reads' = reads \ {<<r, status>>}
      /\ UNCHANGED <<run, request>>
  BY DEF RecordResearchRun
<1>2. run[r] # "none" /\ r \in AskedFor
  BY <1>1 DEF HoldsInv, ReadsAreMade, HoldsAreAsked
<1>3. ReadsAreMade'
  BY <1>1 DEF HoldsInv, ReadsAreMade
<1>4. /\ recorded \in [Requests -> RunStates] /\ usage \in [UsageKeys -> Months]
      /\ reservation \in [Requests -> Months] /\ r \in UsageKeys
      /\ period # 0
  BY DEF CreditInv, CreditTypeOK, UsageKeys, Periods
<1>5. CASE UNCHANGED <<recorded, usage, reservation>>
  <2>1. HoldsInv' /\ UNCHANGED AskedFor
    BY <1>1, <1>3, <1>5, RunsMove
  <2> QED BY <1>5, <2>1 DEF Held, Charged
<1>6. CASE ~ UNCHANGED <<recorded, usage, reservation>>
  <2>1. /\ recorded' = [recorded EXCEPT ![r] = status]
        /\ usage' = (IF Charges(r, status) THEN [usage EXCEPT ![r] = period] ELSE usage)
        /\ reservation' = [reservation EXCEPT ![r] = HeldAfter(r, status)]
    BY <1>6 DEF RecordResearchRun
  <2>2. /\ \A q \in Requests : reservation'[q] \in {0, reservation[q]}
        /\ status \in Ended => reservation'[r] = 0
        /\ recorded'[r] = status
        /\ \A q \in Requests : q # r => /\ recorded'[q] = recorded[q]
                                        /\ reservation'[q] = reservation[q]
    BY <1>4, <2>1 DEF HeldAfter
  <2>3. HoldsInv' /\ UNCHANGED AskedFor
    BY <1>1, <1>2, <1>3, <2>2, RunsMove
  <2>4. UNCHANGED Held \/ Held' = Held \ {r}
    BY <2>2 DEF Held
  <2>5. CASE ~ Charges(r, status)
    BY <2>1, <2>3, <2>4, <2>5 DEF Charged
  <2>6. CASE Charges(r, status)
    <3>1. usage[r] = 0 /\ status \in Ended
      BY <2>6 DEF Charges, Ended
    <3>2. r \notin Charged /\ Charged' = Charged \cup {r}
      BY <1>4, <2>1, <2>6, <3>1 DEF Charged
    <3>3. Held' = Held \ {r}
      BY <2>2, <3>1 DEF Held
    <3> QED BY <1>2, <2>3, <3>2, <3>3
  <2> QED BY <2>5, <2>6
<1> QED BY <1>5, <1>6

LEMMA MonthAndPlanHold ==
  ASSUME CreditInv, HoldsInv,
         UNCHANGED creditVars \/ NextPeriod
           \/ \E to \in {"free"} \cup PaidTiers : ChangePlan(to)
  PROVE  HoldsInv' /\ UNCHANGED <<AskedFor, Held, Charged>>
<1>1. UNCHANGED <<reservation, usage, run, recorded, reads, request>>
  BY DEF creditVars, NextPeriod, ChangePlan, ResearchRuns
<1>2. ReadsAreMade'
  BY <1>1 DEF HoldsInv, ReadsAreMade
<1>3. HoldsInv' /\ UNCHANGED AskedFor
  BY <1>1, <1>2, RunsMove
<1> QED BY <1>1, <1>3 DEF Held, Charged

\* Every step of the account is one of the contract, or none of its business.
LEMMA AccountStep ==
  ASSUME CreditInv, HoldsInv, [CreditNext]_creditVars
  PROVE  HoldsInv' /\ [Promise!Next]_(Promise!vars)
<1>1. /\ Promise!vars = <<AskedFor, Held, Charged>>
      /\ Promise!vars' = <<AskedFor', Held', Charged'>>
  BY DEF Promise!vars, Held, Charged
<1>2. ASSUME UNCHANGED <<AskedFor, Held, Charged>>
      PROVE  [Promise!Next]_(Promise!vars)
  BY <1>1, <1>2
<1>3. ASSUME NEW q \in Requests, UNCHANGED <<AskedFor, Charged>>, Held' = Held \ {q}
      PROVE  [Promise!Next]_(Promise!vars)
  <2>1. CASE q \in Held
    <3>1. Promise!LetGo(q)
      BY <1>3, <2>1 DEF Promise!LetGo, Held, Charged
    <3> QED BY <3>1 DEF Promise!Next
  <2>2. CASE q \notin Held
    BY <1>2, <1>3, <2>2
  <2> QED BY <2>1, <2>2
<1>4. ASSUME NEW q \in Requests, q \notin AskedFor, AskedFor' = AskedFor \cup {q},
             Held' = Held \cup {q}, UNCHANGED Charged
      PROVE  [Promise!Next]_(Promise!vars)
  <2>1. Promise!Hold(q)
    BY <1>4 DEF Promise!Hold, Held, Charged
  <2> QED BY <2>1 DEF Promise!Next
<1>5. ASSUME NEW q \in Requests, q \in AskedFor \ Charged, UNCHANGED AskedFor,
             Charged' = Charged \cup {q}, Held' = Held \ {q}
      PROVE  [Promise!Next]_(Promise!vars)
  <2>1. Promise!Charge(q)
    BY <1>5 DEF Promise!Charge, Held, Charged
  <2> QED BY <2>1 DEF Promise!Next
<1>6. ASSUME NEW k \in Consumptions \ Charged, UNCHANGED <<AskedFor, Held>>,
             Charged' = Charged \cup {k}
      PROVE  [Promise!Next]_(Promise!vars)
  <2>1. Promise!Consume(k)
    BY <1>6 DEF Promise!Consume, Held, Charged
  <2> QED BY <2>1 DEF Promise!Next
<1>7. ASSUME NEW q \in Requests,
             \/ \E key \in IdempotencyKeys, target \in Targets :
                  BeginResearch(q, key, target)
             \/ \E kind \in Consumptions : BeginConsumption(q, kind)
             \/ LockAccount(q) \/ RollBack(q) \/ CreateRun(q)
      PROVE  HoldsInv' /\ UNCHANGED <<AskedFor, Held, Charged>>
  BY <1>7, BeginResearchHolds, BeginConsumptionHolds, LockAccountHolds, RollBackHolds,
     CreateRunHolds
<1>8. ASSUME NEW q \in Requests,
             ReserveResearchCredits(q) \/ ConsumeCredit(q) \/ ReleaseResearchCredits(q)
      PROVE  HoldsInv' /\ [Promise!Next]_(Promise!vars)
  <2>1. CASE ReserveResearchCredits(q)
    BY <1>2, <1>4, <2>1, ReserveHolds
  <2>2. CASE ConsumeCredit(q)
    BY <1>2, <1>6, <2>2, ConsumeHolds
  <2>3. CASE ReleaseResearchCredits(q)
    BY <1>3, <2>3, ReleaseHolds
  <2> QED BY <1>8, <2>1, <2>2, <2>3
<1>9. ASSUME NEW r \in Requests,
             \/ ReadRun(r) \/ ExpireReservation(r)
             \/ \E to \in RunStates : MoveRun(r, to)
      PROVE  HoldsInv' /\ [Promise!Next]_(Promise!vars)
  BY <1>2, <1>3, <1>9, BystanderHolds
<1>10. ASSUME NEW r \in Requests, NEW to \in RunStates, RecordResearchRun(r, to)
       PROVE  HoldsInv' /\ [Promise!Next]_(Promise!vars)
  BY <1>2, <1>3, <1>5, <1>10, RecordHolds
<1>11. CASE \/ UNCHANGED creditVars \/ NextPeriod
            \/ \E to \in {"free"} \cup PaidTiers : ChangePlan(to)
  BY <1>2, <1>11, MonthAndPlanHold
<1> QED BY <1>2, <1>7, <1>8, <1>9, <1>10, <1>11 DEF CreditNext

LEMMA InitialHolds == CreditInit => HoldsInv /\ Promise!Init
<1> SUFFICES ASSUME CreditInit PROVE HoldsInv /\ Promise!Init
  OBVIOUS
<1>1. /\ \A q \in Requests : /\ request[q] = IdleRequest /\ reservation[q] = 0
                             /\ run[q] = "none" /\ recorded[q] = "none"
      /\ \A k \in UsageKeys : usage[k] = 0
      /\ reads = {}
  BY DEF CreditInit
<1>2. IdleRequest.at = "idle" /\ IdleRequest.kind = "research"
  BY DEF IdleRequest
<1>3. HoldsInv
  BY <1>1, <1>2 DEF HoldsInv, HoldsAreAsked, UnmadeAreUnrecorded, ReadsAreMade,
     KeysAreSet, KeyFits, HeldForARun
<1>4. Promise!Init
  BY <1>1, <1>2 DEF Promise!Init, AskedFor
<1> QED BY <1>3, <1>4

LEMMA HoldsInvariance == CreditSpec => [](CreditInv /\ HoldsInv)
<1>1. CreditInit => CreditInv /\ HoldsInv
  BY InitialAccount, InitialHolds
<1>2. CreditInv /\ HoldsInv /\ [CreditNext]_creditVars => CreditInv' /\ HoldsInv'
  BY AccountKeeps, AccountStep
<1> QED BY <1>1, <1>2, PTL DEF CreditSpec

\* Whatever requests, readers, expiries and lost answers do, credits are held for
\* a run that was not read as ended, or because of one of the three races.
THEOREM HeldForARunAlways == CreditSpec => []HeldForARun
<1>1. HoldsInv => HeldForARun
  BY DEF HoldsInv
<1> QED BY <1>1, HoldsInvariance, PTL

\* AccountCredits implements CreditContract: whoever reserves, creates, reads and
\* records, in whatever order, a request is held for once and charged once.
THEOREM AccountKeepsTheContract == CreditSpec => KeepsCreditContract
<1>1. CreditInit => Promise!Init
  BY InitialHolds
<1>2. CreditInv /\ HoldsInv /\ [CreditNext]_creditVars => [Promise!Next]_(Promise!vars)
  BY AccountStep
<1>3. CreditSpec => Promise!Spec
  BY <1>1, <1>2, HoldsInvariance, PTL DEF CreditSpec, Promise!Spec
<1> QED BY <1>3 DEF KeepsCreditContract
=============================================================================
