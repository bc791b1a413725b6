----------------------- MODULE StockPreparationProofs -----------------------
(***************************************************************************)
(* Proofs about StockPreparation for any number of stocks, accounts and    *)
(* loops, and any number of crashes, stalls and lost answers: there is one *)
(* live preparation apart from revived ones, and a stock is completed by   *)
(* the loop of its latest claim only.                                      *)
(***************************************************************************)
EXTENDS StockPreparation, FiniteSetTheorems, TLAPS

\* A row has the token of its latest claim, or none.
TokensAreLatest ==
  \A s \in Symbols : preparation[s].token \in {0, lastClaim[s]}

\* A loop at work has the token of a claim of its stock.
LoopsWereGivenTokens ==
  \A w \in Preparers : preparer[w].at # "idle" =>
    /\ preparer[w].symbol \in Symbols
    /\ preparer[w].token \in 1..lastClaim[preparer[w].symbol]

\* OnePreparationAtATime, without counting.
LiveOnesAreTheSame ==
  \A s, t \in LivePreparations \ revived : s = t

PreparationInv ==
  /\ PreparationTypeOK
  /\ TokensAreLatest /\ LoopsWereGivenTokens /\ LiveOnesAreTheSame

-----------------------------------------------------------------------------
(* Kinds of steps. *)

\* The tokens a loop may have after a step.
LoopMayBe(x) ==
  /\ x \in PreparerRecords
  /\ x.at # "idle" => x.symbol \in Symbols /\ x.token \in 1..lastClaim[x.symbol]

\* A loop that goes on with its claim, or rests, keeps what loops were given.
LEMMA LoopStepKeeps ==
  ASSUME PreparationInv, NEW w \in Preparers, NEW x, LoopMayBe(x),
         preparer' = [preparer EXCEPT ![w] = x], lastClaim' = lastClaim
  PROVE  preparer' \in [Preparers -> PreparerRecords] /\ LoopsWereGivenTokens'
<1>1. /\ preparer'[w] = x
      /\ \A v \in Preparers \ {w} : preparer'[v] = preparer[v]
      /\ preparer' \in [Preparers -> PreparerRecords]
  BY DEF PreparationInv, PreparationTypeOK, LoopMayBe
<1> QED BY <1>1 DEF PreparationInv, LoopsWereGivenTokens, LoopMayBe

LEMMA LoopsMayBe ==
  ASSUME PreparationInv, NEW w \in Preparers
  PROVE  /\ LoopMayBe(IdlePreparer)
         /\ \A at \in {"collected", "failed"} :
              preparer[w].at # "idle" => LoopMayBe([preparer[w] EXCEPT !.at = at])
<1>1. preparer[w] \in PreparerRecords
  BY DEF PreparationInv, PreparationTypeOK
<1>2. preparer[w].at # "idle" => /\ preparer[w].symbol \in Symbols
                                 /\ preparer[w].token \in 1..lastClaim[preparer[w].symbol]
  BY DEF PreparationInv, LoopsWereGivenTokens
<1>3. LoopMayBe(IdlePreparer)
  BY DEF LoopMayBe, IdlePreparer, PreparerRecords
<1>4. ASSUME NEW at \in {"collected", "failed"}, preparer[w].at # "idle"
      PROVE  LoopMayBe([preparer[w] EXCEPT !.at = at])
  <2>1. /\ [preparer[w] EXCEPT !.at = at] \in PreparerRecords
        /\ [preparer[w] EXCEPT !.at = at].symbol = preparer[w].symbol
        /\ [preparer[w] EXCEPT !.at = at].token = preparer[w].token
    BY <1>1 DEF PreparerRecords
  <2> QED BY <1>2, <1>4, <2>1 DEF LoopMayBe
<1> QED BY <1>3, <1>4

\* Rows that keep their tokens or lose them, and do not come alive.
RowsGoOn ==
  \A s \in Symbols :
    /\ preparation'[s] \in PreparationRecords
    /\ preparation'[s].token \in {preparation[s].token, 0}
    /\ preparation'[s].status = "running" /\ preparation'[s].leased =>
         preparation[s].status = "running" /\ preparation[s].leased

\* Nothing in the rest of the state depends on which of these steps it was.
LEMMA RowStepKeeps ==
  ASSUME PreparationInv, RowsGoOn,
         preparation' = [s \in Symbols |-> preparation'[s]],
         lastClaim' = lastClaim, revived' = revived
  PROVE  /\ preparation' \in [Symbols -> PreparationRecords]
         /\ TokensAreLatest' /\ LiveOnesAreTheSame'
<1>1. preparation' \in [Symbols -> PreparationRecords]
  BY DEF RowsGoOn
<1>2. TokensAreLatest'
  BY DEF PreparationInv, TokensAreLatest, RowsGoOn
<1>3. LivePreparations' \subseteq LivePreparations
  BY DEF LivePreparations, Running, RowsGoOn
<1>4. LiveOnesAreTheSame'
  BY <1>3 DEF PreparationInv, LiveOnesAreTheSame
<1> QED BY <1>1, <1>2, <1>4

LEMMA MishapsStayBounded ==
  ASSUME PreparationInv, Mishap
  PROVE  mishaps' \in 0..MaxMishaps
  BY PreparationBounds DEF Mishap, PreparationInv, PreparationTypeOK

-----------------------------------------------------------------------------
(* The actions. *)

LEMMA SaveOnboardingInterestsKeeps ==
  ASSUME PreparationInv, NEW a \in Accounts, NEW stocks \in SUBSET Symbols,
         SaveOnboardingInterests(a, stocks)
  PROVE  PreparationInv'
<1>1. /\ requests' \in Nat /\ saved' \subseteq Accounts
      /\ UNCHANGED <<preparer, lastClaim, research, waiter, mishaps, revived>>
  <2>1. /\ saved' = saved \cup {a} /\ requests' = requests + 1
        /\ UNCHANGED <<preparer, lastClaim, research, waiter, mishaps, revived>>
    BY DEF SaveOnboardingInterests
  <2>2. requests \in Nat /\ saved \subseteq Accounts
    BY DEF PreparationInv, PreparationTypeOK
  <2> QED BY <2>1, <2>2
<1>2. RowsGoOn
  <2> SUFFICES ASSUME NEW s \in Symbols
               PROVE  /\ preparation'[s] \in PreparationRecords
                      /\ preparation'[s].token \in {preparation[s].token, 0}
                      /\ preparation'[s].status = "running" /\ preparation'[s].leased =>
                           preparation[s].status = "running" /\ preparation[s].leased
    BY DEF RowsGoOn
  <2>1. preparation[s] \in PreparationRecords
    BY DEF PreparationInv, PreparationTypeOK
  <2> DEFINE queued == [preparation[s] EXCEPT !.status = "queued", !.attempts = 0,
               !.requested = requests', !.available = TRUE, !.token = 0,
               !.leased = FALSE]
  <2>2. preparation'[s] \in {preparation[s], queued}
    BY DEF SaveOnboardingInterests
  <2>3. queued.token = 0 /\ queued.status = "queued"
    BY <2>1 DEF PreparationRecords
  <2>4. queued \in PreparationRecords
    <3>1. 0 \in Nat /\ 0 \in 0..MaxPreparationAttempts
      BY DEF MaxPreparationAttempts
    <3> QED BY <1>1, <2>1, <3>1, Zenon DEF PreparationRecords
  <2> HIDE DEF queued
  <2> QED BY <2>1, <2>2, <2>3, <2>4
<1>3. preparation' = [s \in Symbols |-> preparation'[s]]
  BY DEF SaveOnboardingInterests
<1>4. /\ preparation' \in [Symbols -> PreparationRecords]
      /\ TokensAreLatest' /\ LiveOnesAreTheSame'
  BY <1>1, <1>2, <1>3, RowStepKeeps
<1> QED BY <1>1, <1>4 DEF PreparationInv, PreparationTypeOK, LoopsWereGivenTokens

\* A claim is made when nothing is live, and gives its loop a new token.
LEMMA ClaimKeeps ==
  ASSUME PreparationInv, NEW w \in Preparers, ClaimStockPreparation(w)
  PROVE  PreparationInv'
<1> USE DEF PreparationInv, PreparationTypeOK
<1>1. UNCHANGED <<saved, requests, research, waiter, mishaps>>
  BY DEF ClaimStockPreparation
<1>2. /\ Exhausted \in [Symbols -> PreparationRecords]
      /\ \A s \in Symbols :
           /\ Exhausted[s].token = preparation[s].token
           /\ Exhausted[s].attempts = preparation[s].attempts
           /\ Exhausted[s].status = "running" => preparation[s].status = "running"
           /\ Exhausted[s].leased = preparation[s].leased
  <2> SUFFICES ASSUME NEW s \in Symbols
               PROVE  /\ Exhausted[s] \in PreparationRecords
                      /\ Exhausted[s].token = preparation[s].token
                      /\ Exhausted[s].attempts = preparation[s].attempts
                      /\ Exhausted[s].status = "running" => preparation[s].status = "running"
                      /\ Exhausted[s].leased = preparation[s].leased
    BY DEF Exhausted
  <2>1. preparation[s] \in PreparationRecords
    OBVIOUS
  <2>2. Exhausted[s] \in {preparation[s], [preparation[s] EXCEPT !.status = "failed"]}
    BY DEF Exhausted
  <2> QED BY <2>1, <2>2 DEF PreparationRecords
<1>3. CASE ~MayClaim
  <2>1. preparation' = Exhausted /\ UNCHANGED <<preparer, lastClaim, revived>>
    BY <1>3 DEF ClaimStockPreparation
  <2>2. RowsGoOn /\ preparation' = [s \in Symbols |-> preparation'[s]]
    BY <1>2, <2>1 DEF RowsGoOn, Exhausted
  <2>3. /\ preparation' \in [Symbols -> PreparationRecords]
        /\ TokensAreLatest' /\ LiveOnesAreTheSame'
    BY <2>1, <2>2, RowStepKeeps
  <2> QED BY <1>1, <2>1, <2>3 DEF LoopsWereGivenTokens
<1>4. CASE MayClaim
  <2> DEFINE token(s) == lastClaim[s] + 1
             row(s) == [Exhausted[s] EXCEPT !.status = "running", !.token = token(s),
                          !.leased = TRUE, !.attempts = @ + 1]
             given(s) == [at |-> "collecting", symbol |-> s, token |-> token(s)]
  <2>1. PICK s \in ClaimablePreparations :
          /\ lastClaim' = [lastClaim EXCEPT ![s] = @ + 1]
          /\ preparation' = [Exhausted EXCEPT ![s].status = "running",
               ![s].token = lastClaim'[s], ![s].leased = TRUE, ![s].attempts = @ + 1]
          /\ preparer' = [preparer EXCEPT ![w] = [at |-> "collecting",
                            symbol |-> s, token |-> lastClaim'[s]]]
          /\ revived' = revived \ {s}
    BY <1>4 DEF ClaimStockPreparation
  <2>2. s \in Symbols /\ preparation[s].attempts < MaxPreparationAttempts
    BY DEF ClaimablePreparations
  <2>3. /\ lastClaim' \in [Symbols -> Nat]
        /\ lastClaim'[s] = token(s) /\ token(s) \in Nat /\ token(s) > 0
        /\ \A k \in Symbols \ {s} : lastClaim'[k] = lastClaim[k]
        /\ \A k \in Symbols : lastClaim[k] \in Nat /\ lastClaim[k] <= lastClaim'[k]
    BY <2>1, <2>2
  <2>4. preparation' = [Exhausted EXCEPT ![s] = row(s)]
    BY <1>2, <2>1, <2>2, <2>3
  <2>5. /\ row(s) \in PreparationRecords /\ row(s).token = token(s)
    <3>1. Exhausted[s] \in PreparationRecords
      BY <1>2, <2>2
    <3>2. Exhausted[s].attempts + 1 \in 0..MaxPreparationAttempts
      <4>1. Exhausted[s].attempts \in 0..MaxPreparationAttempts
        BY <3>1 DEF PreparationRecords
      <4> QED BY <1>2, <2>2, <4>1 DEF MaxPreparationAttempts
    <3>3. row(s) \in PreparationRecords
      BY <2>3, <3>1, <3>2, Zenon DEF PreparationRecords
    <3>4. row(s).token = token(s)
      BY <3>1 DEF PreparationRecords
    <3> QED BY <3>3, <3>4
  <2>6. /\ given(s) \in PreparerRecords /\ given(s).symbol = s
        /\ given(s).token = token(s)
    BY <2>2, <2>3 DEF PreparerRecords
  <2>7. preparer' = [preparer EXCEPT ![w] = given(s)]
    BY <2>1, <2>3
  <2> HIDE DEF row, given
  <2>8. /\ preparation' \in [Symbols -> PreparationRecords]
        /\ preparation'[s] = row(s)
        /\ \A k \in Symbols \ {s} : preparation'[k] = Exhausted[k]
    <3>1. Exhausted \in [Symbols -> PreparationRecords]
      BY <1>2
    <3> HIDE DEF Exhausted
    <3> QED BY <2>2, <2>4, <2>5, <3>1
  <2>9. TokensAreLatest'
    BY <1>2, <2>2, <2>3, <2>5, <2>8 DEF TokensAreLatest
  <2>10. /\ preparer' \in [Preparers -> PreparerRecords]
         /\ preparer'[w] = given(s)
         /\ \A v \in Preparers \ {w} : preparer'[v] = preparer[v]
    BY <2>6, <2>7
  <2>11. LoopsWereGivenTokens'
    <3> SUFFICES ASSUME NEW v \in Preparers, preparer'[v].at # "idle"
                 PROVE  /\ preparer'[v].symbol \in Symbols
                        /\ preparer'[v].token \in 1..lastClaim'[preparer'[v].symbol]
      BY DEF LoopsWereGivenTokens
    <3>1. CASE v = w
      BY <2>2, <2>3, <2>6, <2>10, <3>1
    <3>2. CASE v # w
      <4>1. /\ preparer'[v] = preparer[v] /\ preparer[v].symbol \in Symbols
            /\ preparer[v].token \in 1..lastClaim[preparer[v].symbol]
        BY <2>10, <3>2 DEF LoopsWereGivenTokens
      <4> QED BY <2>3, <4>1
    <3> QED BY <3>1, <3>2
  <2>12. LivePreparations' \subseteq {s}
    BY <1>2, <1>4, <2>8 DEF LivePreparations, Running, MayClaim
  <2>13. LiveOnesAreTheSame'
    BY <2>12 DEF LiveOnesAreTheSame
  <2>14. revived' \subseteq Symbols
    BY <2>1
  <2> QED BY <1>1, <2>3, <2>8, <2>9, <2>10, <2>11, <2>13, <2>14
<1> QED BY <1>3, <1>4

\* A heartbeat brings a preparation back to life only as a revived one.
LEMMA HeartbeatKeeps ==
  ASSUME PreparationInv, NEW w \in Preparers, HeartbeatPreparation(w)
  PROVE  PreparationInv'
<1> DEFINE s == preparer[w].symbol
<1>1. /\ UNCHANGED <<saved, requests, lastClaim, research, waiter, mishaps>>
      /\ preparer[w].at = "collecting"
  BY DEF HeartbeatPreparation
<1>2. s \in Symbols
  BY <1>1 DEF PreparationInv, LoopsWereGivenTokens
<1>3. CASE HoldsPreparation(w, s)
  <2>1. /\ preparation' = [preparation EXCEPT ![s] = [preparation[s] EXCEPT !.leased = TRUE]]
        /\ revived' = IF preparation[s].leased THEN revived ELSE revived \cup {s}
        /\ preparer' = preparer
    BY <1>3 DEF HeartbeatPreparation
  <2>2. preparation[s] \in PreparationRecords
    BY <1>2 DEF PreparationInv, PreparationTypeOK
  <2>3. /\ [preparation[s] EXCEPT !.leased = TRUE] \in PreparationRecords
        /\ [preparation[s] EXCEPT !.leased = TRUE].token = preparation[s].token
        /\ [preparation[s] EXCEPT !.leased = TRUE].status = preparation[s].status
    BY <2>2 DEF PreparationRecords
  <2> DEFINE row == [preparation[s] EXCEPT !.leased = TRUE]
  <2>4. preparation'[s] = row /\ \A k \in Symbols \ {s} : preparation'[k] = preparation[k]
    BY <1>2, <2>1 DEF PreparationInv, PreparationTypeOK
  <2>5. preparation' \in [Symbols -> PreparationRecords]
    BY <2>1, <2>3 DEF PreparationInv, PreparationTypeOK
  <2> HIDE DEF row
  <2>6. TokensAreLatest'
    BY <1>1, <2>3, <2>4 DEF PreparationInv, TokensAreLatest, row
  <2>7. LivePreparations' \ revived' \subseteq LivePreparations \ revived
    <3> SUFFICES ASSUME NEW k \in LivePreparations', k \notin revived'
                 PROVE  k \in LivePreparations \ revived
      OBVIOUS
    <3>1. k \in Symbols /\ Running(preparation'[k]) /\ preparation'[k].leased
      BY DEF LivePreparations
    <3>2. CASE k # s
      BY <2>1, <2>4, <3>1, <3>2 DEF LivePreparations, Running
    <3>3. CASE k = s
      BY <2>1, <2>3, <2>4, <3>1, <3>3 DEF LivePreparations, Running, row
    <3> QED BY <3>2, <3>3
  <2>8. LiveOnesAreTheSame'
    BY <2>7 DEF PreparationInv, LiveOnesAreTheSame
  <2>9. revived' \subseteq Symbols /\ LoopsWereGivenTokens'
    BY <1>1, <1>2, <2>1 DEF PreparationInv, PreparationTypeOK, LoopsWereGivenTokens
  <2> QED BY <1>1, <2>1, <2>5, <2>6, <2>8, <2>9 DEF PreparationInv, PreparationTypeOK
<1>4. CASE ~HoldsPreparation(w, s)
  <2>1. /\ preparer' = [preparer EXCEPT ![w] = [preparer[w] EXCEPT !.at = "failed"]]
        /\ UNCHANGED <<preparation, revived>>
    BY <1>4 DEF HeartbeatPreparation
  <2>2. preparer' \in [Preparers -> PreparerRecords] /\ LoopsWereGivenTokens'
    BY <1>1, <2>1, LoopStepKeeps, LoopsMayBe
  <2> QED BY <1>1, <2>1, <2>2 DEF PreparationInv, PreparationTypeOK, TokensAreLatest,
          LiveOnesAreTheSame, LivePreparations
<1> QED BY <1>3, <1>4

\* A loop that collects or dies writes nothing.
LEMMA CollectOrDieKeeps ==
  ASSUME PreparationInv, NEW w \in Preparers, CollectSources(w) \/ PreparerDies(w)
  PROVE  PreparationInv'
<1>1. /\ UNCHANGED <<preparation, saved, requests, lastClaim, research, waiter, revived>>
      /\ mishaps' = mishaps \/ Mishap
  BY DEF CollectSources, PreparerDies
<1>2. PICK x : LoopMayBe(x) /\ preparer' = [preparer EXCEPT ![w] = x]
  BY LoopsMayBe DEF CollectSources, PreparerDies
<1>3. preparer' \in [Preparers -> PreparerRecords] /\ LoopsWereGivenTokens'
  BY <1>1, <1>2, LoopStepKeeps
<1>4. mishaps' \in 0..MaxMishaps
  BY <1>1, MishapsStayBounded DEF PreparationInv, PreparationTypeOK
<1> QED BY <1>1, <1>3, <1>4 DEF PreparationInv, PreparationTypeOK, TokensAreLatest,
        LiveOnesAreTheSame, LivePreparations

\* A preparation that ends gives up its token.
LEMMA FinishedRows ==
  ASSUME PreparationInv, NEW w \in Preparers, preparer[w].at # "idle",
         NEW success \in BOOLEAN, preparation' = Finished(w, success)
  PROVE  RowsGoOn /\ preparation' = [k \in Symbols |-> preparation'[k]]
<1> DEFINE s == preparer[w].symbol
           ended == [preparation[s] EXCEPT !.token = 0, !.leased = FALSE,
             !.available = FALSE, !.expires = "later",
             !.status = IF success THEN "ready"
                        ELSE IF preparation[s].attempts < MaxPreparationAttempts
                             THEN "queued" ELSE "failed"]
<1>1. s \in Symbols /\ preparation \in [Symbols -> PreparationRecords]
  BY DEF PreparationInv, PreparationTypeOK, LoopsWereGivenTokens
<1>2. preparation' = preparation \/ preparation' = [preparation EXCEPT ![s] = ended]
  BY DEF Finished
<1>3. /\ ended \in PreparationRecords /\ ended.token = 0
      /\ ended.status # "running"
  <2> DEFINE status == IF success THEN "ready"
                       ELSE IF preparation[s].attempts < MaxPreparationAttempts
                            THEN "queued" ELSE "failed"
  <2>1. status \in {"ready", "queued", "failed"} /\ preparation[s] \in PreparationRecords
    BY <1>1
  <2>2. ended.token = 0 /\ ended.status = status
    BY <2>1 DEF PreparationRecords
  <2> HIDE DEF status
  <2>3. 0 \in Nat /\ status # "running"
    BY <2>1
  <2>4. [preparation[s] EXCEPT !.token = 0, !.leased = FALSE, !.available = FALSE,
           !.expires = "later", !.status = status] \in PreparationRecords
    BY <2>1, <2>3, Zenon DEF PreparationRecords
  <2> QED BY <2>2, <2>3, <2>4 DEF status
<1> HIDE DEF s, ended
<1> QED BY <1>1, <1>2, <1>3 DEF RowsGoOn

LEMMA FinishKeeps ==
  ASSUME PreparationInv, NEW w \in Preparers, FinishStockPreparation(w)
  PROVE  PreparationInv'
<1>1. /\ UNCHANGED <<saved, requests, lastClaim, research, waiter, revived>>
      /\ preparer[w].at # "idle" /\ (mishaps' = mishaps \/ Mishap)
  BY DEF FinishStockPreparation
<1>2. \E success \in BOOLEAN : preparation' \in {preparation, Finished(w, success)}
  BY DEF FinishStockPreparation
<1>3. PICK x : LoopMayBe(x) /\ preparer' = [preparer EXCEPT ![w] = x]
  BY <1>1, LoopsMayBe DEF FinishStockPreparation
<1>4. preparer' \in [Preparers -> PreparerRecords] /\ LoopsWereGivenTokens'
  BY <1>1, <1>3, LoopStepKeeps
<1>5. mishaps' \in 0..MaxMishaps
  BY <1>1, MishapsStayBounded DEF PreparationInv, PreparationTypeOK
<1>6. RowsGoOn /\ preparation' = [k \in Symbols |-> preparation'[k]]
  <2>1. CASE preparation' = preparation
    BY <2>1 DEF RowsGoOn, PreparationInv, PreparationTypeOK
  <2> QED BY <1>1, <1>2, <2>1, FinishedRows
<1>7. /\ preparation' \in [Symbols -> PreparationRecords]
      /\ TokensAreLatest' /\ LiveOnesAreTheSame'
  BY <1>1, <1>6, RowStepKeeps
<1> QED BY <1>1, <1>4, <1>5, <1>7 DEF PreparationInv, PreparationTypeOK

\* Time takes leases away, and a waiting research at most a queued row.
LEMMA TimeAndWaiterKeep ==
  ASSUME PreparationInv, NEW s \in Symbols,
         \/ PreparationLeaseRunsOut(s) \/ TimePasses(s) \/ ResearchStarts(s)
         \/ PollPreparation(s) \/ DeadlinePasses(s) \/ BypassPreparation(s)
  PROVE  PreparationInv'
<1>1. UNCHANGED <<saved, preparer, requests, lastClaim, revived>>
  BY DEF PreparationLeaseRunsOut, TimePasses, ResearchStarts, PollPreparation,
     DeadlinePasses, BypassPreparation, Joined
<1>2. mishaps' = mishaps \/ Mishap
  BY DEF PreparationLeaseRunsOut, TimePasses, ResearchStarts, PollPreparation,
     DeadlinePasses, BypassPreparation, Joined
<1>3. mishaps' \in 0..MaxMishaps
  BY <1>2, MishapsStayBounded DEF PreparationInv, PreparationTypeOK
<1>4. research' \in BOOLEAN /\ waiter' \in [Symbols -> WaiterStates]
  BY DEF PreparationInv, PreparationTypeOK, WaiterStates,
     PreparationLeaseRunsOut, TimePasses, ResearchStarts, PollPreparation,
     DeadlinePasses, BypassPreparation, Joined
<1>5. preparation[s] \in PreparationRecords
  BY DEF PreparationInv, PreparationTypeOK
<1>6. \/ preparation' = preparation
      \/ \E row \in {[preparation[s] EXCEPT !.leased = FALSE],
                     [preparation[s] EXCEPT !.available = TRUE],
                     [preparation[s] EXCEPT !.expires = "past"],
                     [preparation[s] EXCEPT !.status = "failed"]} :
           preparation' = [preparation EXCEPT ![s] = row]
  BY DEF PreparationLeaseRunsOut, TimePasses, ResearchStarts, PollPreparation,
     DeadlinePasses, BypassPreparation, Joined
<1>7. \A row \in {[preparation[s] EXCEPT !.leased = FALSE],
                  [preparation[s] EXCEPT !.available = TRUE],
                  [preparation[s] EXCEPT !.expires = "past"],
                  [preparation[s] EXCEPT !.status = "failed"]} :
        /\ row \in PreparationRecords /\ row.token = preparation[s].token
        /\ row.status = "running" /\ row.leased =>
             preparation[s].status = "running" /\ preparation[s].leased
  BY <1>5 DEF PreparationRecords
<1>8. RowsGoOn /\ preparation' = [k \in Symbols |-> preparation'[k]]
  BY <1>6, <1>7 DEF RowsGoOn, PreparationInv, PreparationTypeOK
<1>9. /\ preparation' \in [Symbols -> PreparationRecords]
      /\ TokensAreLatest' /\ LiveOnesAreTheSame'
  BY <1>1, <1>8, RowStepKeeps
<1> QED BY <1>1, <1>3, <1>4, <1>9 DEF PreparationInv, PreparationTypeOK,
        LoopsWereGivenTokens

-----------------------------------------------------------------------------
(* The theorems. *)

LEMMA PreparationInitInv == PreparationInit => PreparationInv
<1> SUFFICES ASSUME PreparationInit PROVE PreparationInv
  OBVIOUS
<1>1. PreparationTypeOK
  <2>1. [status |-> "none", requested |-> 0, attempts |-> 0, token |-> 0,
         leased |-> FALSE, available |-> TRUE, expires |-> "never"]
          \in PreparationRecords
    BY DEF PreparationRecords, MaxPreparationAttempts
  <2>2. preparation \in [Symbols -> PreparationRecords]
    BY <2>1 DEF PreparationInit
  <2>3. preparer \in [Preparers -> PreparerRecords]
    BY DEF PreparationInit, IdlePreparer, PreparerRecords
  <2>4. /\ saved \subseteq Accounts /\ requests \in Nat /\ revived \subseteq Symbols
        /\ research \in BOOLEAN /\ mishaps \in 0..MaxMishaps
    <3>1. /\ saved = {} /\ requests = 0 /\ revived = {} /\ mishaps = 0
      BY DEF PreparationInit
    <3>2. research \in BOOLEAN
      BY Zenon DEF PreparationInit
    <3> QED BY <3>1, <3>2, PreparationBounds
  <2>5. lastClaim \in [Symbols -> Nat] /\ waiter \in [Symbols -> WaiterStates]
    BY DEF PreparationInit, WaiterStates
  <2> QED BY <2>2, <2>3, <2>4, <2>5 DEF PreparationTypeOK
<1> QED BY <1>1 DEF PreparationInit, PreparationInv, TokensAreLatest,
        LoopsWereGivenTokens, LiveOnesAreTheSame, LivePreparations, Running,
        IdlePreparer

LEMMA PreparationNextKeeps ==
  PreparationInv /\ [PreparationNext]_preparationVars => PreparationInv'
<1> SUFFICES ASSUME PreparationInv, [PreparationNext]_preparationVars
             PROVE  PreparationInv'
  OBVIOUS
<1>1. CASE UNCHANGED preparationVars
  BY <1>1 DEF preparationVars, PreparationInv, PreparationTypeOK, TokensAreLatest,
     LoopsWereGivenTokens, LiveOnesAreTheSame, LivePreparations
<1>2. CASE \E a \in Accounts, stocks \in SUBSET Symbols \ {{}} :
             SaveOnboardingInterests(a, stocks)
  BY <1>2, SaveOnboardingInterestsKeeps
<1>3. ASSUME NEW w \in Preparers,
             \/ ClaimStockPreparation(w) \/ HeartbeatPreparation(w)
             \/ CollectSources(w) \/ FinishStockPreparation(w) \/ PreparerDies(w)
      PROVE  PreparationInv'
  BY <1>3, ClaimKeeps, HeartbeatKeeps, CollectOrDieKeeps, FinishKeeps
<1>4. CASE \E s \in Symbols :
             \/ PreparationLeaseRunsOut(s) \/ TimePasses(s) \/ ResearchStarts(s)
             \/ PollPreparation(s) \/ DeadlinePasses(s) \/ BypassPreparation(s)
  BY <1>4, TimeAndWaiterKeep
<1>5. CASE ResearchEnds
  BY <1>5 DEF ResearchEnds, PreparationInv, PreparationTypeOK, TokensAreLatest,
     LoopsWereGivenTokens, LiveOnesAreTheSame, LivePreparations
<1> QED BY <1>1, <1>2, <1>3, <1>4, <1>5 DEF PreparationNext

\* claimStockPreparation, its heartbeat and finishStockPreparation keep rows and
\* loops together, for any number of symbols and loops.
THEOREM PreparationInvariance == PreparationSpec => []PreparationInv
<1> QED BY PreparationInitInv, PreparationNextKeeps, PTL DEF PreparationSpec

\* claimStockPreparation keeps to one live preparation in all processes, apart
\* from those whose heartbeat renewed a lease that had run out.
THEOREM OnePreparationAtATimeAlways == PreparationSpec => []OnePreparationAtATime
<1>1. PreparationInv => OnePreparationAtATime
  <2> SUFFICES ASSUME PreparationInv PROVE OnePreparationAtATime
    OBVIOUS
  <2> DEFINE live == LivePreparations \ revived
  <2>1. \A s, t \in live : s = t
    BY DEF PreparationInv, LiveOnesAreTheSame
  <2>2. CASE live = {}
    BY <2>2, FS_EmptySet DEF OnePreparationAtATime
  <2>3. CASE live # {}
    <3>1. PICK s \in live : TRUE
      BY <2>3
    <3>2. live = {s}
      BY <2>1, <3>1
    <3> QED BY <3>2, FS_Singleton DEF OnePreparationAtATime
  <2> QED BY <2>2, <2>3
<1> QED BY <1>1, PreparationInvariance, PTL

\* Only a finish makes a stock ready.
LEMMA NoOtherActionCompletes ==
  ASSUME PreparationInv, [PreparationNext]_preparationVars, NEW s \in Symbols,
         preparation[s].status # "ready", preparation'[s].status = "ready"
  PROVE  \E w \in Preparers : FinishStockPreparation(w)
<1> USE DEF PreparationInv, PreparationTypeOK
<1>1. preparation[s] \in PreparationRecords
  OBVIOUS
<1>2. ASSUME NEW a \in Accounts, NEW stocks \in SUBSET Symbols,
             SaveOnboardingInterests(a, stocks)
      PROVE  FALSE
  BY <1>1, <1>2 DEF SaveOnboardingInterests, PreparationRecords
<1>3. ASSUME NEW w \in Preparers, ClaimStockPreparation(w) PROVE FALSE
  <2>1. Exhausted[s].status # "ready" /\ DOMAIN Exhausted = Symbols
    BY <1>1 DEF Exhausted, PreparationRecords
  <2>2. \/ preparation' = Exhausted
        \/ \E k \in Symbols : preparation' = [Exhausted EXCEPT ![k].status = "running",
             ![k].token = lastClaim'[k], ![k].leased = TRUE, ![k].attempts = @ + 1]
    BY <1>3 DEF ClaimStockPreparation, ClaimablePreparations
  <2>3. Exhausted \in [Symbols -> PreparationRecords]
    BY DEF Exhausted, PreparationRecords
  <2> HIDE DEF Exhausted
  <2>4. CASE preparation' = Exhausted
    BY <2>1, <2>4
  <2>5. ASSUME NEW k \in Symbols, preparation' =
          [Exhausted EXCEPT ![k].status = "running", ![k].token = lastClaim'[k],
             ![k].leased = TRUE, ![k].attempts = @ + 1]
        PROVE  FALSE
    <3>1. CASE k = s
      <4>1. preparation'[s].status = "running"
        BY <2>3, <2>5, <3>1 DEF PreparationRecords
      <4> QED BY <4>1
    <3>2. CASE k # s
      <4>1. preparation'[s] = Exhausted[s]
        BY <2>3, <2>5, <3>2
      <4> QED BY <2>1, <4>1
    <3> QED BY <3>1, <3>2
  <2> QED BY <2>2, <2>4, <2>5
<1>4. ASSUME NEW w \in Preparers,
             HeartbeatPreparation(w) \/ CollectSources(w) \/ PreparerDies(w)
      PROVE  FALSE
  BY <1>1, <1>4 DEF HeartbeatPreparation, CollectSources, PreparerDies,
     PreparationRecords
<1>5. ASSUME NEW k \in Symbols,
             \/ PreparationLeaseRunsOut(k) \/ TimePasses(k) \/ ResearchStarts(k)
             \/ PollPreparation(k) \/ DeadlinePasses(k) \/ BypassPreparation(k)
      PROVE  FALSE
  BY <1>1, <1>5 DEF PreparationLeaseRunsOut, TimePasses, ResearchStarts,
     PollPreparation, DeadlinePasses, BypassPreparation, Joined, PreparationRecords
<1>6. ~ResearchEnds /\ ~UNCHANGED preparationVars
  BY DEF ResearchEnds, preparationVars
<1> QED BY <1>2, <1>3, <1>4, <1>5, <1>6 DEF PreparationNext

\* finishStockPreparation completes a stock only for its latest claim, whatever
\* stalled, died or was requested again in between.
THEOREM OnlyTheLastClaimCompletesAlways ==
  PreparationSpec => OnlyTheLastClaimCompletes
<1> DEFINE Completes ==
      \A s \in Symbols :
        preparation[s].status # "ready" /\ preparation'[s].status = "ready" =>
          \E w \in Preparers : /\ preparer[w].symbol = s
                               /\ preparer[w].token = lastClaim[s]
                               /\ preparer[w].at = "collected"
<1>1. PreparationInv /\ [PreparationNext]_preparationVars => Completes
  <2> SUFFICES ASSUME PreparationInv, [PreparationNext]_preparationVars,
                      NEW s \in Symbols,
                      preparation[s].status # "ready", preparation'[s].status = "ready"
               PROVE  \E w \in Preparers : /\ preparer[w].symbol = s
                                           /\ preparer[w].token = lastClaim[s]
                                           /\ preparer[w].at = "collected"
    OBVIOUS
  <2>1. PICK w \in Preparers : FinishStockPreparation(w)
    BY NoOtherActionCompletes
  <2>2. /\ preparer[w].at \in {"collected", "failed"}
        /\ preparation' \in {preparation, Finished(w, preparer[w].at = "collected")}
    BY <2>1 DEF FinishStockPreparation
  <2>3. /\ preparation' = Finished(w, preparer[w].at = "collected")
        /\ HoldsPreparation(w, preparer[w].symbol)
    BY <2>2 DEF Finished
  <2>4. preparer[w].symbol \in Symbols
        /\ preparer[w].token \in 1..lastClaim[preparer[w].symbol]
    BY <2>2 DEF PreparationInv, LoopsWereGivenTokens
  <2>5. preparer[w].symbol = s /\ preparer[w].at = "collected"
    BY <2>3, <2>4 DEF Finished, PreparationInv, PreparationTypeOK, PreparationRecords
  <2>6. preparer[w].token = lastClaim[s]
    BY <2>3, <2>4, <2>5
       DEF HoldsPreparation, PreparationInv, PreparationTypeOK, TokensAreLatest
  <2> QED BY <2>5, <2>6
<1>2. PreparationSpec => [][Completes]_preparationVars
  BY <1>1, PreparationInvariance, PTL DEF PreparationSpec
<1> QED BY <1>2 DEF OnlyTheLastClaimCompletes

\* Preparations, loops and waiters keep their types; no stock is attempted more
\* often than MaxPreparationAttempts.
THEOREM PreparationTypes == PreparationSpec => []PreparationTypeOK
<1>1. PreparationInv => PreparationTypeOK
  BY DEF PreparationInv
<1> QED BY <1>1, PreparationInvariance, PTL
=============================================================================
