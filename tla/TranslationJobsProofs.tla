----------------------- MODULE TranslationJobsProofs -----------------------
(***************************************************************************)
(* Proofs about TranslationJobs for any number of readers, loops and jobs, *)
(* and any number of crashes, stalls, lost answers and retries: a pending  *)
(* charge waits for a job that is open, who paid for good is served unless *)
(* the success was not heard of, and a loop that lost its lease changes    *)
(* nothing.                                                                *)
(***************************************************************************)
EXTENDS TranslationJobs, FiniteSetTheorems, TLAPS

\* A charge that was made names its job.
ChargesNameTheirJobs ==
  \A r \in Readers : charge[r].state # "none" => charge[r].translation \in Translations

LoopsNameTheirJobs ==
  \A l \in TranslationLoops : loop[l].at # "idle" => loop[l].translation \in Translations

\* Tokens are numbers of claims that were made, so the next claim's is fresh.
TokensAreClaims ==
  /\ \A j \in Translations : translation[j].token <= claims
  /\ \A l \in TranslationLoops : loop[l].token <= claims

\* No two loops work under the same claim.
ClaimsDiffer ==
  \A l, m \in TranslationLoops :
    loop[l].at # "idle" /\ loop[m].at # "idle" /\ loop[l].token = loop[m].token
    => l = m

\* A loop that still holds a job that succeeded has not heard of it, and takes
\* it for failed.
HeldSuccessIsUnheard ==
  \A l \in TranslationLoops, j \in Translations :
    loop[l].at # "idle" /\ Holds(l, j) /\ translation[j].status = "succeeded"
    => loop[l].at = "failed" /\ j \in unheard

TokensInv ==
  LoopsNameTheirJobs /\ TokensAreClaims /\ ClaimsDiffer /\ HeldSuccessIsUnheard

TranslationInv ==
  /\ TranslationTypeOK
  /\ TokensInv
  /\ ChargesNameTheirJobs /\ PendingMeansOpen /\ PaidIsServed

-----------------------------------------------------------------------------
(* Two kinds of steps. *)

\* Jobs keep their status or stay open, with the same charges.
JobsStayOpen ==
  /\ charge' = charge /\ unheard' = unheard
  /\ \A j \in Translations :
       \/ translation'[j].status = translation[j].status
       \/ translation[j].status \in Open /\ translation'[j].status \in Open

\* A step that keeps jobs open and charges as they are keeps the promises to
\* the readers.
LEMMA OpenJobsKeep ==
  ASSUME TranslationInv, JobsStayOpen
  PROVE  ChargesNameTheirJobs' /\ PendingMeansOpen' /\ PaidIsServed'
<1>1. ChargesNameTheirJobs' /\ PendingMeansOpen'
  BY DEF TranslationInv, JobsStayOpen, ChargesNameTheirJobs, PendingMeansOpen, Open
<1>2. PaidIsServed'
  BY DEF TranslationInv, JobsStayOpen, ChargesNameTheirJobs, PaidIsServed, Served, Open
<1> QED BY <1>1, <1>2

\* The loops but l are as they were, and so is what they hold: they keep their
\* part.  It remains to show it of l.
LEMMA OtherLoopsKeep ==
  ASSUME TranslationInv, NEW l \in TranslationLoops, NEW v,
         loop' = [loop EXCEPT ![l] = v], claims' = claims,
         v.at # "idle" => /\ loop[l].at # "idle"
                          /\ v.translation = loop[l].translation
                          /\ v.token = loop[l].token,
         v.token \in Nat, v.token <= claims,
         \A j \in Translations : translation'[j].token = translation[j].token
  PROVE  LoopsNameTheirJobs' /\ TokensAreClaims' /\ ClaimsDiffer'
<1> USE DEF TranslationInv, TokensInv, TranslationTypeOK
<1>1. \A m \in TranslationLoops : loop'[m] = IF m = l THEN v ELSE loop[m]
  OBVIOUS
<1>2. LoopsNameTheirJobs'
  BY <1>1 DEF LoopsNameTheirJobs
<1>3. TokensAreClaims'
  BY <1>1 DEF TokensAreClaims
<1>4. ClaimsDiffer'
  BY <1>1 DEF ClaimsDiffer
<1> QED BY <1>2, <1>3, <1>4

\* A settlement: the charges that waited for j end with it, all others stay.
\* What it fails is, if it had succeeded, a success that was not heard of.
LEMMA SettlementKeeps ==
  ASSUME TranslationInv,
         NEW l \in TranslationLoops, NEW j \in Translations, NEW status, NEW to,
         loop[l].at # "idle", Holds(l, j), Settles(l, j, status, to),
         \/ status = "succeeded" /\ to = Final(j)
         \/ status = "failed" /\ to = Uncharged,
         status = "failed" => unheard' = unheard,
         \A k \in unheard \ {j} : k \in unheard'
  PROVE  /\ translation' \in [Translations -> TranslationRecords]
         /\ charge' \in [Readers -> ChargeRecords]
         /\ translation'[j].status = status
         /\ translation'[j].token = translation[j].token
         /\ \A k \in Translations \ {j} : translation'[k] = translation[k]
         /\ ChargesNameTheirJobs' /\ PendingMeansOpen' /\ PaidIsServed'
<1> USE DEF TranslationInv, TranslationTypeOK
<1> DEFINE settled == [translation[j] EXCEPT !.status = status, !.leased = FALSE]
<1>1. /\ translation' = [translation EXCEPT ![j] = settled]
      /\ charge' = SettledCharges(j, to)
  BY DEF Settles
<1>2. /\ settled \in TranslationRecords
      /\ settled.status = status /\ settled.token = translation[j].token
  BY DEF TranslationRecords
<1>3. to \in ChargeRecords /\ (to.state # "none" => to.translation = j)
      /\ (to.state = "final" <=> status = "succeeded") /\ to.state # "pending"
  BY DEF Final, Uncharged, ChargeRecords
<1> HIDE DEF settled
<1>4. translation' \in [Translations -> TranslationRecords]
  BY <1>1, <1>2
<1>5. /\ translation'[j] = settled
      /\ \A k \in Translations \ {j} : translation'[k] = translation[k]
  BY <1>1
<1>6. \A r \in Readers :
        charge'[r] = IF charge[r].state = "pending" /\ charge[r].translation = j
                     THEN to ELSE charge[r]
  BY <1>1 DEF SettledCharges
<1>7. charge' \in [Readers -> ChargeRecords]
  BY <1>1, <1>3 DEF SettledCharges
<1>8. ChargesNameTheirJobs'
  BY <1>3, <1>6 DEF ChargesNameTheirJobs
<1>9. PendingMeansOpen'
  BY <1>3, <1>5, <1>6 DEF PendingMeansOpen, ChargesNameTheirJobs
<1>10. PaidIsServed'
  <2> SUFFICES ASSUME NEW r \in Readers, charge'[r].state = "final",
                      charge'[r].translation \notin unheard'
               PROVE  translation'[charge'[r].translation].status = "succeeded"
    BY DEF PaidIsServed, Served
  <2>1. CASE charge'[r].translation = j /\ status = "succeeded"
    BY <1>2, <1>5, <2>1
  <2>2. CASE charge'[r].translation = j /\ status = "failed"
    <3>1. charge[r].state = "final" /\ charge[r].translation = j
      BY <1>3, <1>6, <2>2
    <3>2. j \in unheard
      BY <3>1 DEF PaidIsServed, Served, TokensInv, HeldSuccessIsUnheard
    <3> QED BY <2>2, <3>2
  <2>3. CASE charge'[r].translation # j
    <3>1. charge'[r] = charge[r] /\ charge[r].translation \in Translations \ {j}
      BY <1>3, <1>6, <2>3 DEF ChargesNameTheirJobs
    <3> QED BY <1>5, <2>3, <3>1 DEF PaidIsServed, Served
  <2> QED BY <2>1, <2>2, <2>3
<1> QED BY <1>2, <1>4, <1>5, <1>7, <1>8, <1>9, <1>10

-----------------------------------------------------------------------------
(* The actions. *)

\* A request numbers a job it inserts, and leaves its token as it is.
LEMMA AdmittedIsARecord ==
  ASSUME TranslationTypeOK, NEW j \in Translations, NEW retry \in BOOLEAN
  PROVE  /\ Admitted(j, retry) \in TranslationRecords
         /\ Admitted(j, retry).token = translation[j].token
         /\ \/ /\ Admitted(j, retry).status = translation[j].status
               /\ translation[j].status # "none"
            \/ /\ translation[j].status \in {"none", "failed"}
               /\ Admitted(j, retry).status = "queued"
<1> DEFINE Known == {k \in Translations : translation[k].created # 0}
<1>1. Cardinality(Known) + 1 \in Nat
  <2>1. IsFiniteSet(Known)
    BY FinitelyManyTranslations, FS_Subset
  <2> QED BY <2>1, FS_CardinalityType
<1>2. translation[j] \in TranslationRecords
  BY DEF TranslationTypeOK
<1> QED BY <1>1, <1>2 DEF Admitted, TranslationRecords

\* A reader is charged for a job that is open, or that it is served at once.
LEMMA RequestTranslationKeeps ==
  ASSUME TranslationInv, NEW r \in Readers, NEW j \in Translations,
         NEW retry \in BOOLEAN, RequestTranslation(r, j, retry)
  PROVE  TranslationInv'
<1> DEFINE admitted == Admitted(j, retry)
<1>1. /\ admitted \in TranslationRecords
      /\ admitted.token = translation[j].token
      /\ \/ /\ admitted.status = translation[j].status
            /\ translation[j].status # "none"
         \/ /\ translation[j].status \in {"none", "failed"}
            /\ admitted.status = "queued"
  BY AdmittedIsARecord DEF TranslationInv
<1>2. /\ admitted.status # "failed"
      /\ translation' = [translation EXCEPT ![j] = admitted]
      /\ charge' = IF charge[r].state = "none"
                   THEN [charge EXCEPT ![r] = [translation |-> j,
                                               state |-> ChargeFor(admitted)]]
                   ELSE charge
  BY DEF RequestTranslation
<1> HIDE DEF admitted
<1>3. TranslationTypeOK'
  <2>1. translation' \in [Translations -> TranslationRecords]
    BY <1>1, <1>2 DEF TranslationInv, TranslationTypeOK
  <2>2. charge' \in [Readers -> ChargeRecords]
    BY <1>2 DEF TranslationInv, TranslationTypeOK, ChargeFor, ChargeRecords
  <2>3. retries' \in 0..MaxRetries
    BY TranslationBounds DEF RequestTranslation, TranslationInv, TranslationTypeOK
  <2> QED BY <2>1, <2>2, <2>3
          DEF RequestTranslation, TranslationInv, TranslationTypeOK
<1>4. /\ translation'[j] = admitted
      /\ \A k \in Translations \ {j} : translation'[k] = translation[k]
  BY <1>2 DEF TranslationInv, TranslationTypeOK
<1>5. admitted.status # "none"
  BY <1>1
<1>6. \A x \in Readers :
        \/ charge'[x] = charge[x]
        \/ /\ charge'[x].translation = j
           /\ IF admitted.status = "succeeded" THEN charge'[x].state = "final"
                                               ELSE charge'[x].state = "pending"
  BY <1>2 DEF ChargeFor, TranslationInv, TranslationTypeOK
<1>7. ChargesNameTheirJobs'
  BY <1>6 DEF ChargesNameTheirJobs, TranslationInv
<1>8. TokensInv'
  <2>1. \A k \in Translations :
          /\ translation'[k].token = translation[k].token
          /\ translation'[k].status = "succeeded" => translation[k].status = "succeeded"
    BY <1>1, <1>4
  <2>2. loop' = loop /\ claims' = claims /\ unheard' = unheard
    BY DEF RequestTranslation
  <2> QED BY <2>1, <2>2 DEF TranslationInv, TokensInv, LoopsNameTheirJobs,
             TokensAreClaims, ClaimsDiffer, HeldSuccessIsUnheard, Holds
<1>9. admitted.status \in Open \cup {"succeeded"}
  BY <1>1, <1>2, <1>5 DEF TranslationRecords, Open
<1>10. PendingMeansOpen'
  BY <1>1, <1>4, <1>6, <1>9
     DEF PendingMeansOpen, ChargesNameTheirJobs, TranslationInv, Open
<1>11. PaidIsServed'
  BY <1>1, <1>2, <1>4, <1>6
     DEF PaidIsServed, Served, ChargesNameTheirJobs, TranslationInv, RequestTranslation
<1> QED BY <1>3, <1>7, <1>8, <1>10, <1>11 DEF TranslationInv

\* A claim and a heartbeat, and a lease that runs out, leave the job open.
LEMMA ClaimTranslationKeeps ==
  ASSUME TranslationInv, NEW l \in TranslationLoops, NEW j \in Translations,
         ClaimTranslation(l, j)
  PROVE  TranslationInv'
<1> USE DEF TranslationInv, TranslationTypeOK
<1>1. claims' \in Nat /\ translation' \in [Translations -> TranslationRecords]
  <2>1. claims' \in Nat
    BY DEF ClaimTranslation
  <2>2. [translation[j] EXCEPT !.status = "running", !.token = claims',
                               !.leased = TRUE] \in TranslationRecords
    BY <2>1 DEF TranslationRecords
  <2>3. translation' = [translation EXCEPT ![j] =
          [translation[j] EXCEPT !.status = "running", !.token = claims',
                                 !.leased = TRUE]]
    BY DEF ClaimTranslation
  <2> QED BY <2>1, <2>2, <2>3
<1>2. loop' \in [TranslationLoops -> LoopRecords]
  BY <1>1 DEF ClaimTranslation, LoopRecords
<1>3. JobsStayOpen
  BY DEF ClaimTranslation, Claimable, JobsStayOpen, Open, TranslationRecords
<1>4. TokensInv'
  <2>1. /\ claims' = claims + 1 /\ claims \in Nat /\ unheard' = unheard
        /\ loop[l].at = "idle"
        /\ loop'[l] = [at |-> "translating", translation |-> j, token |-> claims + 1]
        /\ \A m \in TranslationLoops \ {l} : loop'[m] = loop[m]
    BY DEF ClaimTranslation
  <2>2. /\ translation'[j].status = "running" /\ translation'[j].token = claims + 1
        /\ \A k \in Translations \ {j} : translation'[k] = translation[k]
    BY <2>1 DEF ClaimTranslation, TranslationRecords
  <2>3. /\ \A m \in TranslationLoops : loop[m].token \in Nat /\ loop[m].token <= claims
        /\ \A k \in Translations :
             translation[k].token \in Nat /\ translation[k].token <= claims
    BY DEF TokensInv, TokensAreClaims, LoopRecords, TranslationRecords
  <2>4. LoopsNameTheirJobs'
    BY <2>1 DEF TokensInv, LoopsNameTheirJobs
  <2>5. TokensAreClaims'
    BY <2>1, <2>2, <2>3 DEF TokensAreClaims
  <2>6. ClaimsDiffer'
    BY <2>1, <2>3 DEF TokensInv, ClaimsDiffer
  <2>7. HeldSuccessIsUnheard'
    BY <2>1, <2>2, <2>3 DEF TokensInv, HeldSuccessIsUnheard, Holds
  <2> QED BY <2>4, <2>5, <2>6, <2>7 DEF TokensInv
<1> QED BY <1>1, <1>2, <1>3, <1>4, OpenJobsKeep
        DEF ClaimTranslation, TranslationBoundsUsed

LEMMA LeaseStepKeeps ==
  ASSUME TranslationInv, NEW j \in Translations,
         \/ \E l \in TranslationLoops : HeartbeatTranslation(l, j)
         \/ LeaseRunsOut(j)
  PROVE  TranslationInv'
<1> USE DEF TranslationInv, TranslationTypeOK
<1>1. PICK v \in BOOLEAN : translation' =
        [translation EXCEPT ![j] = [translation[j] EXCEPT !.leased = v]]
  BY DEF HeartbeatTranslation, LeaseRunsOut
<1>2. translation' \in [Translations -> TranslationRecords]
  BY <1>1 DEF TranslationRecords
<1>3. failures' \in 0..MaxFailures
  <2>1. failures' = failures \/ Fault
    BY DEF HeartbeatTranslation, LeaseRunsOut, TranslationBoundsUsed
  <2> QED BY <2>1, TranslationBounds DEF Fault
<1>4. JobsStayOpen
  <2>1. charge' = charge /\ unheard' = unheard
    BY DEF HeartbeatTranslation, LeaseRunsOut
  <2> QED BY <1>1, <2>1 DEF JobsStayOpen, TranslationRecords
<1>5. TokensInv'
  <2>1. loop' = loop /\ claims' = claims /\ unheard' = unheard
    BY DEF HeartbeatTranslation, LeaseRunsOut
  <2>2. \A k \in Translations : /\ translation'[k].token = translation[k].token
                                /\ translation'[k].status = translation[k].status
    BY <1>1 DEF TranslationRecords
  <2> QED BY <2>1, <2>2 DEF TokensInv, LoopsNameTheirJobs, TokensAreClaims,
             ClaimsDiffer, HeldSuccessIsUnheard, Holds
<1> QED BY <1>2, <1>3, <1>4, <1>5, OpenJobsKeep
        DEF HeartbeatTranslation, LeaseRunsOut, TranslationBoundsUsed

\* A loop that translates, or dies, has written nothing yet.
LEMMA LoopStepKeeps ==
  ASSUME TranslationInv, NEW l \in TranslationLoops, Translate(l) \/ LoopDies(l)
  PROVE  TranslationInv'
<1> USE DEF TranslationInv, TranslationTypeOK
<1>1. loop' \in [TranslationLoops -> LoopRecords] /\ failures' \in 0..MaxFailures
  BY TranslationBounds DEF Translate, LoopDies, Fault, LoopRecords, IdleLoop,
     TranslationBoundsUsed
<1>2. JobsStayOpen
  BY DEF Translate, LoopDies, JobsStayOpen
<1>3. PICK at \in {"idle", "succeeded", "failed"} :
        loop' = [loop EXCEPT ![l] = IF at = "idle" THEN IdleLoop
                                    ELSE [loop[l] EXCEPT !.at = at]]
  BY DEF Translate, LoopDies
<1> DEFINE v == IF at = "idle" THEN IdleLoop ELSE [loop[l] EXCEPT !.at = at]
<1>4. /\ loop[l].at # "idle"
      /\ translation' = translation /\ claims' = claims /\ unheard' = unheard
      /\ at # "idle" => loop[l].at = "translating"
  BY <1>3 DEF Translate, LoopDies, IdleLoop, LoopRecords
<1>5. /\ v.at = at /\ v.token \in Nat /\ v.token <= claims
      /\ at # "idle" => v.translation = loop[l].translation /\ v.token = loop[l].token
  BY DEF IdleLoop, LoopRecords, TokensInv, TokensAreClaims
<1>6. loop' = [loop EXCEPT ![l] = v]
  BY <1>3
<1> HIDE DEF v
<1>7. LoopsNameTheirJobs' /\ TokensAreClaims' /\ ClaimsDiffer'
  BY <1>4, <1>5, <1>6, OtherLoopsKeep
<1>8. HeldSuccessIsUnheard'
  BY <1>4, <1>5, <1>6 DEF TokensInv, HeldSuccessIsUnheard, Holds
<1> QED BY <1>1, <1>2, <1>7, <1>8, OpenJobsKeep
        DEF Translate, LoopDies, TranslationBoundsUsed, TokensInv

\* A settlement writes its effect, or fails with it or without it.
LEMMA SettleKeeps ==
  ASSUME TranslationInv, NEW l \in TranslationLoops, NEW j \in Translations,
         SettleSuccess(l, j) \/ SettleFailure(l, j)
  PROVE  TranslationInv'
<1>1. /\ loop' \in [TranslationLoops -> LoopRecords]
      /\ failures' \in 0..MaxFailures
      /\ claims' = claims /\ retries' = retries
  BY TranslationBounds DEF TranslationInv, TranslationTypeOK, SettleSuccess,
     SettleFailure, Fault, LoopRecords, IdleLoop
<1> USE DEF TranslationInv, TranslationTypeOK
<1>2. PICK v \in {IdleLoop, [loop[l] EXCEPT !.at = "failed"]} :
        loop' = [loop EXCEPT ![l] = v]
  BY DEF SettleSuccess, SettleFailure
<1>3. /\ loop[l] \in LoopRecords /\ loop[l].at # "idle" /\ loop[l].translation = j
      /\ v.at \in {"idle", "failed"} /\ v.token \in Nat /\ v.token <= claims
      /\ v.at # "idle" => v.translation = j /\ v.token = loop[l].token
  BY DEF SettleSuccess, SettleFailure, LoopRecords, IdleLoop, TokensInv,
     TokensAreClaims
<1>4. \A m \in TranslationLoops : loop'[m] = IF m = l THEN v ELSE loop[m]
  BY <1>2
<1>5. CASE UNCHANGED <<translation, charge, unheard>>
  <2>1. JobsStayOpen
    BY <1>5 DEF JobsStayOpen
  <2>2. LoopsNameTheirJobs' /\ TokensAreClaims' /\ ClaimsDiffer'
    BY <1>1, <1>2, <1>3, <1>5, OtherLoopsKeep
  <2>3. HeldSuccessIsUnheard'
    BY <1>3, <1>4, <1>5 DEF TokensInv, HeldSuccessIsUnheard, Holds
  <2> QED BY <1>1, <1>5, <2>1, <2>2, <2>3, OpenJobsKeep DEF TokensInv
<1>6. ASSUME Holds(l, j), NEW status, NEW to, Settles(l, j, status, to),
             \/ status = "succeeded" /\ to = Final(j)
             \/ status = "failed" /\ to = Uncharged,
             status = "failed" => unheard' = unheard,
             status = "succeeded" /\ v.at # "idle" => j \in unheard',
             status = "failed" => v.at = "idle",
             unheard' \subseteq Translations,
             \A k \in unheard \ {j} : k \in unheard'
      PROVE  TranslationInv'
  <2>1. /\ translation' \in [Translations -> TranslationRecords]
        /\ charge' \in [Readers -> ChargeRecords]
        /\ translation'[j].token = translation[j].token
        /\ \A k \in Translations \ {j} : translation'[k] = translation[k]
        /\ ChargesNameTheirJobs' /\ PendingMeansOpen' /\ PaidIsServed'
    BY <1>3, <1>6, SettlementKeeps
  <2>2. LoopsNameTheirJobs' /\ TokensAreClaims' /\ ClaimsDiffer'
    BY <1>1, <1>2, <1>3, <2>1, OtherLoopsKeep
  <2>3. HeldSuccessIsUnheard'
    <3> SUFFICES ASSUME NEW m \in TranslationLoops, NEW k \in Translations,
                        loop'[m].at # "idle", Holds(m, k)',
                        translation'[k].status = "succeeded"
                 PROVE  loop'[m].at = "failed" /\ k \in unheard'
      BY DEF HeldSuccessIsUnheard
    <3>1. CASE m = l
      BY <1>3, <1>4, <1>6, <3>1, SettlementKeeps DEF Holds
    <3>2. CASE m # l /\ k = j
      BY <1>3, <1>4, <1>6, <2>1, <3>2 DEF Holds, TokensInv, ClaimsDiffer
    <3>3. CASE m # l /\ k # j
      BY <1>4, <1>6, <2>1, <3>3 DEF Holds, TokensInv, HeldSuccessIsUnheard
    <3> QED BY <3>1, <3>2, <3>3
  <2> QED BY <1>1, <1>6, <2>1, <2>2, <2>3 DEF TokensInv
<1>7. CASE Holds(l, j) /\ SettleSuccess(l, j) /\ ~UNCHANGED <<translation, charge, unheard>>
  <2>1. Settles(l, j, "succeeded", Final(j))
    BY <1>7 DEF SettleSuccess
  <2>2. \/ unheard' = unheard \ {j} /\ v.at = "idle"
        \/ unheard' = unheard \cup {j}
    BY <1>4, <1>7 DEF SettleSuccess, IdleLoop
  <2> QED BY <1>6, <1>7, <2>1, <2>2
<1>8. CASE Holds(l, j) /\ SettleFailure(l, j) /\ ~UNCHANGED <<translation, charge, unheard>>
  <2>1. Settles(l, j, "failed", Uncharged) /\ unheard' = unheard
    BY <1>8 DEF SettleFailure
  <2>2. v.at = "idle"
    BY <1>4, <1>8 DEF SettleFailure, IdleLoop
  <2> QED BY <1>6, <1>8, <2>1, <2>2
<1>9. ~Holds(l, j) => UNCHANGED <<translation, charge, unheard>>
  BY DEF SettleSuccess, SettleFailure, Settles
<1> QED BY <1>5, <1>7, <1>8, <1>9

-----------------------------------------------------------------------------
(* The theorems. *)

LEMMA TranslationInitInv == TranslationInit => TranslationInv
  BY TranslationBounds
  DEF TranslationInit, TranslationInv, TranslationTypeOK, TranslationRecords,
      ChargeRecords, LoopRecords, Uncharged, IdleLoop, TokensInv,
      LoopsNameTheirJobs, TokensAreClaims, ClaimsDiffer, HeldSuccessIsUnheard,
      ChargesNameTheirJobs, PendingMeansOpen, PaidIsServed

LEMMA TranslationNextKeeps ==
  TranslationInv /\ [TranslationNext]_translationVars => TranslationInv'
<1> SUFFICES ASSUME TranslationInv, [TranslationNext]_translationVars
             PROVE  TranslationInv'
  OBVIOUS
<1>1. CASE UNCHANGED translationVars
  BY <1>1 DEF translationVars, TranslationInv, TranslationTypeOK,
     TokensInv, LoopsNameTheirJobs, TokensAreClaims, ClaimsDiffer,
     HeldSuccessIsUnheard, Holds, ChargesNameTheirJobs, PendingMeansOpen,
     PaidIsServed, Served
<1>2. CASE TranslationNext
  <2>1. CASE \E r \in Readers, j \in Translations, retry \in BOOLEAN :
               RequestTranslation(r, j, retry)
    BY <2>1, RequestTranslationKeeps
  <2>2. CASE \E l \in TranslationLoops, j \in Translations : ClaimTranslation(l, j)
    BY <2>2, ClaimTranslationKeeps
  <2>3. CASE \E l \in TranslationLoops, j \in Translations :
               SettleSuccess(l, j) \/ SettleFailure(l, j)
    BY <2>3, SettleKeeps
  <2>4. CASE \E l \in TranslationLoops : Translate(l) \/ LoopDies(l)
    BY <2>4, LoopStepKeeps
  <2>5. CASE \E j \in Translations :
               \/ \E l \in TranslationLoops : HeartbeatTranslation(l, j)
               \/ LeaseRunsOut(j)
    BY <2>5, LeaseStepKeeps
  <2> QED BY <1>2, <2>1, <2>2, <2>3, <2>4, <2>5 DEF TranslationNext
<1> QED BY <1>1, <1>2

\* requestResearchTranslation, runResearchTranslationJob and serveResearchTranslations
\* keep jobs, charges and what the loops remember of them together.
THEOREM TranslationInvariance == TranslationSpec => []TranslationInv
<1> QED BY TranslationInitInv, TranslationNextKeeps, PTL DEF TranslationSpec

\* However loops crash, stall and overlap, a charge is pending only while its job
\* is still to end: requestResearchTranslation, runResearchTranslationJob.
THEOREM PendingMeansOpenAlways == TranslationSpec => []PendingMeansOpen
<1>1. TranslationInv => PendingMeansOpen
  BY DEF TranslationInv
<1> QED BY <1>1, TranslationInvariance, PTL

\* The translation route serves the job to everybody whose charge for it is final,
\* however loops crash, stall and overlap, unless the loop of its last success lost
\* the answer and marked it failed: runResearchTranslationJob.
THEOREM PaidIsServedAlways == TranslationSpec => []PaidIsServed
<1>1. TranslationInv => PaidIsServed
  BY DEF TranslationInv
<1> QED BY <1>1, TranslationInvariance, PTL

\* The fence of runResearchTranslationJob: what a loop writes after its job was
\* claimed again changes neither the job nor a charge.
THEOREM LateSettlementsAreIgnoredAlways ==
  TranslationSpec => LateSettlementsAreIgnored
<1> DEFINE Ignored ==
      \A l \in TranslationLoops, j \in Translations :
        /\ loop[l].at # "idle" /\ loop'[l].at = "idle"
        /\ loop[l].translation = j /\ loop[l].token < translation[j].token
        => translation'[j] = translation[j] /\ charge' = charge
<1>1. TranslationInv /\ [TranslationNext]_translationVars => Ignored
  <2> SUFFICES ASSUME TranslationInv, [TranslationNext]_translationVars,
                      NEW l \in TranslationLoops, NEW j \in Translations,
                      loop[l].at # "idle", loop'[l].at = "idle",
                      loop[l].translation = j, loop[l].token < translation[j].token
               PROVE  translation'[j] = translation[j] /\ charge' = charge
    OBVIOUS
  <2>1. ~Holds(l, j)
    BY DEF Holds, TranslationInv, TranslationTypeOK, TranslationRecords, LoopRecords
  <2>2. CASE \E k \in Translations : SettleSuccess(l, k) \/ SettleFailure(l, k)
    BY <2>1, <2>2 DEF SettleSuccess, SettleFailure, Settles
  <2>3. CASE LoopDies(l)
    BY <2>3 DEF LoopDies
  <2>4. CASE loop'[l] = loop[l]
    BY <2>4
  <2>5. CASE Translate(l) \/ \E k \in Translations : ClaimTranslation(l, k)
    BY <2>5 DEF Translate, ClaimTranslation, TranslationInv, TranslationTypeOK,
       LoopRecords
  <2>6. \A v : \A m \in TranslationLoops :
          m # l /\ loop' = [loop EXCEPT ![m] = v] => loop'[l] = loop[l]
    BY DEF TranslationInv, TranslationTypeOK
  <2>7. \/ \E m \in TranslationLoops \ {l}, k \in Translations :
             ClaimTranslation(m, k) \/ SettleSuccess(m, k) \/ SettleFailure(m, k)
        \/ \E m \in TranslationLoops \ {l} : Translate(m) \/ LoopDies(m)
        => loop'[l] = loop[l]
    BY <2>6 DEF ClaimTranslation, SettleSuccess, SettleFailure, Translate, LoopDies,
       TranslationInv, TranslationTypeOK
  <2>8. \/ \E r \in Readers, k \in Translations, retry \in BOOLEAN :
             RequestTranslation(r, k, retry)
        \/ \E m \in TranslationLoops, k \in Translations : HeartbeatTranslation(m, k)
        \/ \E k \in Translations : LeaseRunsOut(k)
        \/ UNCHANGED translationVars
        => loop'[l] = loop[l]
    BY DEF RequestTranslation, HeartbeatTranslation, LeaseRunsOut, translationVars
  <2> QED BY <2>2, <2>3, <2>4, <2>5, <2>7, <2>8 DEF TranslationNext
<1>2. TranslationSpec => [][Ignored]_translationVars
  BY <1>1, TranslationInvariance, PTL DEF TranslationSpec
<1> QED BY <1>2 DEF LateSettlementsAreIgnored

\* Jobs, charges and loops keep their types, however loops crash and stall.
THEOREM TranslationTypes == TranslationSpec => []TranslationTypeOK
<1>1. TranslationInv => TranslationTypeOK
  BY DEF TranslationInv
<1> QED BY <1>1, TranslationInvariance, PTL
=============================================================================
