---------------------- MODULE BriefingSchedulerProofs ----------------------
(***************************************************************************)
(* Proofs about BriefingScheduler for any number of members, stocks and    *)
(* schedulers: an edition is repeated only by a cycle that could not have  *)
(* seen it, and no edition misses a member who watched all day.            *)
(***************************************************************************)
EXTENDS BriefingScheduler, TLAPS

\* A cycle knows everyone who has watched since the day began.
AudiencesAreComplete ==
  \A p \in Schedulers : cycle[p].at # "idle" => steady \subseteq cycle[p].audience

\* A cycle knows the editions there were when it looked for them.
ExistingWereRead ==
  \A p \in Schedulers : cycle[p].at \in {"next", "saving"} =>
    /\ cycle[p].known <= Len(editions)
    /\ \A i \in 1..cycle[p].known : editions[i].key \in cycle[p].existing

\* What a cycle is about to save was missing, or is to be written again.
SavesAreMissing ==
  \A p \in Schedulers : cycle[p].at = "saving" =>
    /\ cycle[p].stock \in Stocks
    /\ \A l \in cycle[p].localized :
         cycle[p].stock \in cycle[p].forced
         \/ <<cycle[p].stock, l>> \notin cycle[p].existing

BriefingInv ==
  /\ BriefingTypeOK
  /\ AudiencesAreComplete /\ ExistingWereRead /\ SavesAreMissing
  /\ RepeatsOverlap /\ SteadyWatchersAreServed

-----------------------------------------------------------------------------

\* The members' changes only take members out of steady.
LEMMA ChangeWatchlistKeeps ==
  ASSUME BriefingInv, NEW m \in Members, NEW items \in SUBSET Items,
         ChangeWatchlist(m, items)
  PROVE  BriefingInv'
<1>1. /\ watchlist' = items /\ steady' = steady \cap items
      /\ UNCHANGED <<editions, cycle, due, setbacks>>
  BY DEF ChangeWatchlist
<1>2. watchChanges' \in [Members -> 0..MonthlyChanges]
  BY BriefingBounds DEF ChangeWatchlist, BriefingInv, BriefingTypeOK
<1>3. BriefingTypeOK'
  BY <1>1, <1>2 DEF BriefingInv, BriefingTypeOK
<1>4. AudiencesAreComplete'
  BY <1>1 DEF BriefingInv, AudiencesAreComplete
<1>5. ExistingWereRead' /\ SavesAreMissing' /\ RepeatsOverlap'
  BY <1>1 DEF BriefingInv, ExistingWereRead, SavesAreMissing, RepeatsOverlap
<1>6. SteadyWatchersAreServed'
  BY <1>1 DEF BriefingInv, SteadyWatchersAreServed
<1> QED BY <1>3, <1>4, <1>5, <1>6 DEF BriefingInv

\* A step of one cycle that leaves the editions as they are.
LEMMA CycleStepKeeps ==
  ASSUME BriefingInv, NEW p \in Schedulers, NEW c \in Cycles,
         cycle' = [cycle EXCEPT ![p] = c],
         UNCHANGED <<Watching, editions>>,
         due' \in BOOLEAN, setbacks' \in 0..MaxSetbacks,
         c.at # "idle" => steady \subseteq c.audience,
         c.at \in {"next", "saving"} =>
           /\ c.known <= Len(editions)
           /\ \A i \in 1..c.known : editions[i].key \in c.existing,
         c.at = "saving" =>
           /\ c.stock \in Stocks
           /\ \A l \in c.localized : c.stock \in c.forced
                                     \/ <<c.stock, l>> \notin c.existing
  PROVE  BriefingInv'
<1>1. UNCHANGED <<watchlist, watchChanges, steady, editions>>
  BY DEF Watching
<1>2. /\ cycle' \in [Schedulers -> Cycles]
      /\ cycle'[p] = c /\ \A q \in Schedulers \ {p} : cycle'[q] = cycle[q]
  BY DEF BriefingInv, BriefingTypeOK
<1>3. BriefingTypeOK'
  BY <1>1, <1>2 DEF BriefingInv, BriefingTypeOK
<1>4. AudiencesAreComplete'
  BY <1>1, <1>2 DEF BriefingInv, AudiencesAreComplete
<1>5. ExistingWereRead'
  BY <1>1, <1>2 DEF BriefingInv, ExistingWereRead
<1>6. SavesAreMissing'
  BY <1>1, <1>2 DEF BriefingInv, SavesAreMissing
<1>7. RepeatsOverlap' /\ SteadyWatchersAreServed'
  BY <1>1 DEF BriefingInv, RepeatsOverlap, SteadyWatchersAreServed
<1> QED BY <1>3, <1>4, <1>5, <1>6, <1>7 DEF BriefingInv

\* A cycle that ends, fails with its stock or dies knows less than before.
LEMMA CycleStopsKeep ==
  ASSUME BriefingInv, NEW p \in Schedulers,
         CycleEnds(p) \/ StockFails(p) \/ SchedulerDies(p)
  PROVE  BriefingInv'
<1>1. IdleCycle \in Cycles /\ IdleCycle.at = "idle"
  BY DEF IdleCycle, Cycles
<1>2. /\ due' \in BOOLEAN /\ setbacks' \in 0..MaxSetbacks
      /\ UNCHANGED <<Watching, editions>>
  BY BriefingBounds DEF CycleEnds, StockFails, SchedulerDies, Setback, BriefingInv,
     BriefingTypeOK
<1>3. CASE CycleEnds(p) \/ SchedulerDies(p)
  <2>1. cycle' = [cycle EXCEPT ![p] = IdleCycle]
    BY <1>3 DEF CycleEnds, SchedulerDies
  <2> QED BY <2>1, <1>1, <1>2, CycleStepKeeps
<1>4. CASE StockFails(p)
  <2> DEFINE c == [cycle[p] EXCEPT !.at = "next", !.localized = {}]
  <2>1. c \in Cycles
    BY DEF Cycles, BriefingInv, BriefingTypeOK
  <2>2. /\ c.at = "next" /\ c.audience = cycle[p].audience
        /\ c.known = cycle[p].known /\ c.existing = cycle[p].existing
    BY DEF Cycles, BriefingInv, BriefingTypeOK
  <2>3. cycle[p].at = "saving" /\ cycle' = [cycle EXCEPT ![p] = c]
    BY <1>4 DEF StockFails
  <2>4. steady \subseteq c.audience
    BY <2>2, <2>3 DEF BriefingInv, AudiencesAreComplete
  <2>5. c.known <= Len(editions) /\ \A i \in 1..c.known : editions[i].key \in c.existing
    BY <2>2, <2>3 DEF BriefingInv, ExistingWereRead
  <2> HIDE DEF c
  <2> QED BY <1>2, <2>1, <2>2, <2>3, <2>4, <2>5, CycleStepKeeps
<1> QED BY <1>3, <1>4

\* A cycle starts from the watchlists as they are.
LEMMA ListAudienceKeeps ==
  ASSUME BriefingInv, NEW p \in Schedulers, NEW forced \in SUBSET Stocks,
         ListAudience(p, forced), setbacks' \in 0..MaxSetbacks
  PROVE  BriefingInv'
<1> DEFINE c == [IdleCycle EXCEPT !.at = "planned", !.audience = watchlist,
                   !.forced = forced, !.todo = {i[2] : i \in watchlist}]
<1>1. watchlist \subseteq Items /\ steady \subseteq watchlist /\ due \in BOOLEAN
  BY DEF BriefingInv, BriefingTypeOK
<1>2. {i[2] : i \in watchlist} \subseteq Stocks
  BY <1>1 DEF Items
<1>3. c \in Cycles
  BY <1>1, <1>2 DEF Cycles, IdleCycle
<1>4. c.at = "planned" /\ c.audience = watchlist
  BY DEF IdleCycle
<1>5. /\ cycle' = [cycle EXCEPT ![p] = c]
      /\ UNCHANGED <<Watching, editions, due>>
  BY DEF ListAudience
<1> HIDE DEF c
<1> QED BY <1>1, <1>3, <1>4, <1>5, CycleStepKeeps

\* The keys of the editions are read as they are.
LEMMA ListBriefingEditionKeysKeeps ==
  ASSUME BriefingInv, NEW p \in Schedulers, ListBriefingEditionKeys(p)
  PROVE  BriefingInv'
<1> DEFINE keys == {editions[i].key : i \in DOMAIN editions}
           c == [cycle[p] EXCEPT !.at = "next", !.known = Len(editions),
                                 !.existing = keys]
<1>1. /\ editions \in Seq(Editions) /\ cycle[p] \in Cycles
      /\ due \in BOOLEAN /\ setbacks \in 0..MaxSetbacks
  BY DEF BriefingInv, BriefingTypeOK
<1>2. keys \subseteq Keys
  <2>1. \A i \in DOMAIN editions : editions[i] \in Editions
    BY <1>1
  <2>2. \A e \in Editions : e.key \in Keys
    BY DEF Editions
  <2> QED BY <2>1, <2>2
<1>3. c \in Cycles
  <2>1. Len(editions) \in Nat
    BY <1>1
  <2> HIDE DEF keys
  <2> QED BY <1>1, <1>2, <2>1 DEF Cycles
<1>4. /\ c.at = "next" /\ c.audience = cycle[p].audience
      /\ c.known = Len(editions) /\ c.existing = keys
  BY <1>1 DEF Cycles
<1>5. \A i \in 1..Len(editions) : editions[i].key \in keys
  BY <1>1
<1>6. /\ cycle[p].at = "planned" /\ cycle' = [cycle EXCEPT ![p] = c]
      /\ UNCHANGED <<Watching, editions, due, setbacks>>
  BY DEF ListBriefingEditionKeys
<1>7. steady \subseteq c.audience
  BY <1>4, <1>6 DEF BriefingInv, AudiencesAreComplete
<1> HIDE DEF c, keys
<1>8. c.known <= Len(editions) /\ \A i \in 1..c.known : editions[i].key \in c.existing
  BY <1>1, <1>4, <1>5
<1> QED BY <1>1, <1>3, <1>4, <1>6, <1>7, <1>8, CycleStepKeeps

\* The languages to save are those the cycle has not seen.
LEMMA CollectAndSynthesizeKeeps ==
  ASSUME BriefingInv, NEW p \in Schedulers, NEW s \in Stocks,
         CollectAndSynthesize(p, s)
  PROVE  BriefingInv'
<1> DEFINE missing == MissingLocales(cycle[p], s)
           c == [cycle[p] EXCEPT !.todo = @ \ {s}, !.stock = s,
                   !.localized = missing,
                   !.at = IF missing = {} THEN "next" ELSE "saving"]
<1>1. /\ cycle[p] \in Cycles /\ due \in BOOLEAN /\ setbacks \in 0..MaxSetbacks
  BY DEF BriefingInv, BriefingTypeOK
<1>2. /\ missing \subseteq Languages
      /\ \A l \in missing : s \in cycle[p].forced \/ <<s, l>> \notin cycle[p].existing
  BY DEF MissingLocales
<1>3. cycle[p].at = "next"
      /\ cycle' = [cycle EXCEPT ![p] = c]
      /\ UNCHANGED <<Watching, editions, due, setbacks>>
  BY DEF CollectAndSynthesize
<1> HIDE DEF missing
<1>4. c \in Cycles
  BY <1>1, <1>2 DEF Cycles
<1>5. /\ c.at \in {"next", "saving"} /\ c.audience = cycle[p].audience
      /\ c.known = cycle[p].known /\ c.existing = cycle[p].existing
      /\ c.stock = s /\ c.localized = missing /\ c.forced = cycle[p].forced
  BY <1>1 DEF Cycles
<1> HIDE DEF c
<1>6. steady \subseteq c.audience
  BY <1>3, <1>5 DEF BriefingInv, AudiencesAreComplete
<1>7. c.known <= Len(editions) /\ \A i \in 1..c.known : editions[i].key \in c.existing
  BY <1>3, <1>5 DEF BriefingInv, ExistingWereRead
<1>8. /\ c.stock \in Stocks
      /\ \A l \in c.localized : c.stock \in c.forced \/ <<c.stock, l>> \notin c.existing
  BY <1>2, <1>5
<1> QED BY <1>1, <1>3, <1>4, <1>6, <1>7, <1>8, CycleStepKeeps

\* An edition is saved: it was missing from those the cycle knows, and its
\* recipients are those of the audience, who include all steady watchers.
LEMMA SaveBriefingEditionKeeps ==
  ASSUME BriefingInv, NEW p \in Schedulers, NEW l \in Languages,
         SaveBriefingEdition(p, l)
  PROVE  BriefingInv'
<1> DEFINE old == cycle[p]
           key == <<old.stock, l>>
           edition == [key |-> key, recipients |-> Recipients(old, key),
                       known |-> old.known, forced |-> old.stock \in old.forced]
           c == [old EXCEPT !.localized = @ \ {l},
                   !.at = IF old.localized = {l} THEN "next" ELSE "saving"]
<1>1. /\ old \in Cycles /\ editions \in Seq(Editions)
      /\ watchlist \subseteq Items /\ steady \subseteq watchlist
      /\ due \in BOOLEAN /\ setbacks \in 0..MaxSetbacks
  BY DEF BriefingInv, BriefingTypeOK
<1>2. /\ old.at = "saving" /\ l \in old.localized
      /\ editions' = Append(editions, edition)
      /\ cycle' = [cycle EXCEPT ![p] = c]
      /\ UNCHANGED <<watchlist, watchChanges, steady, due, setbacks>>
  BY DEF SaveBriefingEdition, Watching
<1>3. /\ old.stock \in Stocks
      /\ old.stock \in old.forced \/ key \notin old.existing
      /\ steady \subseteq old.audience
      /\ old.known <= Len(editions)
      /\ \A i \in 1..old.known : editions[i].key \in old.existing
  BY <1>2 DEF BriefingInv, SavesAreMissing, ExistingWereRead, AudiencesAreComplete
<1>4. edition \in Editions
  BY <1>1, <1>3 DEF Editions, Keys, Recipients, Cycles
<1>5. /\ c \in Cycles /\ c.at \in {"next", "saving"}
      /\ c.audience = old.audience /\ c.known = old.known
      /\ c.existing = old.existing /\ c.stock = old.stock
      /\ c.forced = old.forced /\ c.localized \subseteq old.localized
  BY <1>1 DEF Cycles
<1>6. /\ edition.key = key /\ edition.known = old.known
      /\ edition.forced = (old.stock \in old.forced)
      /\ \A m \in Members : <<m, old.stock>> \in old.audience /\ LanguageOf[m] = l
                            => m \in edition.recipients
  BY DEF Recipients
<1> HIDE DEF edition, c
<1>7. /\ editions' \in Seq(Editions) /\ Len(editions') = Len(editions) + 1
      /\ \A i \in 1..Len(editions) : editions'[i] = editions[i]
      /\ editions'[Len(editions) + 1] = edition
      /\ DOMAIN editions = 1..Len(editions)
      /\ DOMAIN editions' = 1..(Len(editions) + 1)
      /\ Len(editions) \in Nat
  BY <1>1, <1>2, <1>4
<1>8. /\ cycle' \in [Schedulers -> Cycles]
      /\ cycle'[p] = c /\ \A q \in Schedulers \ {p} : cycle'[q] = cycle[q]
  BY <1>2, <1>5 DEF BriefingInv, BriefingTypeOK
<1>9. BriefingTypeOK'
  BY <1>1, <1>2, <1>7, <1>8 DEF BriefingInv, BriefingTypeOK
<1>10. AudiencesAreComplete'
  BY <1>2, <1>3, <1>5, <1>8 DEF BriefingInv, AudiencesAreComplete
<1>11. ExistingWereRead'
  <2> SUFFICES ASSUME NEW q \in Schedulers, cycle'[q].at \in {"next", "saving"}
               PROVE  /\ cycle'[q].known <= Len(editions')
                      /\ \A i \in 1..cycle'[q].known :
                           editions'[i].key \in cycle'[q].existing
    BY DEF ExistingWereRead
  <2>1. /\ cycle[q].at \in {"next", "saving"} /\ cycle'[q].known = cycle[q].known
        /\ cycle'[q].existing = cycle[q].existing
    BY <1>2, <1>5, <1>8
  <2>2. cycle[q].known \in Nat
    BY DEF BriefingInv, BriefingTypeOK, Cycles
  <2>3. /\ cycle[q].known <= Len(editions)
        /\ \A i \in 1..cycle[q].known : editions[i].key \in cycle[q].existing
    BY <2>1 DEF BriefingInv, ExistingWereRead
  <2> QED BY <1>7, <2>1, <2>2, <2>3
<1>12. SavesAreMissing'
  BY <1>2, <1>5, <1>8 DEF BriefingInv, SavesAreMissing
<1>13. RepeatsOverlap'
  <2> SUFFICES ASSUME NEW i \in 1..(Len(editions) + 1), NEW j \in 1..(Len(editions) + 1),
                      i < j, editions'[i].key = editions'[j].key, ~editions'[j].forced
               PROVE  editions'[j].known < i
    BY <1>7 DEF RepeatsOverlap
  <2>1. CASE j \in 1..Len(editions)
    <3>1. i \in 1..Len(editions)
      BY <1>7, <2>1
    <3> QED BY <1>7, <2>1, <3>1 DEF BriefingInv, RepeatsOverlap
  <2>2. CASE j = Len(editions) + 1
    <3>1. i \in 1..Len(editions) /\ i \in Nat
      BY <1>7, <2>2
    <3>2. editions[i].key = key /\ editions'[j] = edition
      BY <1>6, <1>7, <2>2, <3>1
    <3>3. key \notin old.existing
      BY <1>3, <1>6, <3>2
    <3>4. old.known \in Nat
      BY <1>1 DEF Cycles
    <3> HIDE DEF old, key
    <3>5. ~(i <= old.known)
      <4> SUFFICES ASSUME i <= old.known PROVE FALSE
        OBVIOUS
      <4>1. i \in 1..old.known
        BY <3>1, <3>4
      <4> QED BY <1>3, <3>2, <3>3, <4>1
    <3> QED BY <1>6, <3>1, <3>2, <3>4, <3>5
  <2> QED BY <1>7, <2>1, <2>2
<1>14. SteadyWatchersAreServed'
  <2> SUFFICES ASSUME NEW i \in steady, NEW e \in 1..(Len(editions) + 1),
                      editions'[e].key = <<i[2], LanguageOf[i[1]]>>
               PROVE  i[1] \in editions'[e].recipients
    BY <1>2, <1>7 DEF SteadyWatchersAreServed
  <2>1. CASE e \in 1..Len(editions)
    BY <1>7, <2>1 DEF BriefingInv, SteadyWatchersAreServed
  <2>2. CASE e = Len(editions) + 1
    <3>1. i \in Items /\ i[1] \in Members /\ i = <<i[1], i[2]>>
      BY <1>1 DEF Items
    <3>2. i[2] = old.stock /\ LanguageOf[i[1]] = l
      BY <1>6, <1>7, <2>2
    <3>3. i \in old.audience
      BY <1>3
    <3> QED BY <1>6, <1>7, <2>2, <3>1, <3>2, <3>3
  <2> QED BY <1>7, <2>1, <2>2
<1> QED BY <1>9, <1>10, <1>11, <1>12, <1>13, <1>14 DEF BriefingInv

-----------------------------------------------------------------------------
(* The theorems. *)

LEMMA BriefingInitInv == BriefingInit => BriefingInv
<1> SUFFICES ASSUME BriefingInit PROVE BriefingInv
  OBVIOUS
<1>1. IdleCycle \in Cycles /\ IdleCycle.at = "idle"
  BY DEF IdleCycle, Cycles
<1>2. editions = <<>> /\ \A p \in Schedulers : cycle[p] = IdleCycle
  BY DEF BriefingInit
<1>3. BriefingTypeOK
  BY <1>1, BriefingBounds DEF BriefingInit, BriefingTypeOK
<1>4. DOMAIN editions = {}
  BY <1>2
<1> QED BY <1>1, <1>2, <1>3, <1>4 DEF BriefingInv, AudiencesAreComplete,
        ExistingWereRead, SavesAreMissing, RepeatsOverlap, SteadyWatchersAreServed

LEMMA BriefingNextKeeps ==
  BriefingInv /\ [BriefingNext]_briefingVars => BriefingInv'
<1> SUFFICES ASSUME BriefingInv, [BriefingNext]_briefingVars
             PROVE  BriefingInv'
  OBVIOUS
<1>1. CASE UNCHANGED briefingVars
  BY <1>1 DEF briefingVars, BriefingInv, BriefingTypeOK, AudiencesAreComplete,
     ExistingWereRead, SavesAreMissing, RepeatsOverlap, SteadyWatchersAreServed
<1>2. ASSUME NEW m \in Members, NEW s \in Stocks,
             AddBriefingWatchlistItem(m, s) \/ RemoveBriefingWatchlistItem(m, s)
      PROVE  BriefingInv'
  <2>1. /\ watchlist \cup {<<m, s>>} \in SUBSET Items
        /\ watchlist \ {<<m, s>>} \in SUBSET Items
    BY DEF BriefingInv, BriefingTypeOK, Items
  <2> QED BY <1>2, <2>1, ChangeWatchlistKeeps
          DEF AddBriefingWatchlistItem, RemoveBriefingWatchlistItem
<1>3. ASSUME NEW p \in Schedulers, BriefingCycle(p) \/ StockFails(p) \/ SchedulerDies(p)
      PROVE  BriefingInv'
  <2>1. CASE Tick(p)
    BY <2>1, ListAudienceKeeps DEF Tick, BriefingInv, BriefingTypeOK
  <2>2. CASE ListBriefingEditionKeys(p)
    BY <2>2, ListBriefingEditionKeysKeeps
  <2>3. CASE CycleEnds(p) \/ StockFails(p) \/ SchedulerDies(p)
    BY <2>3, CycleStopsKeep
  <2>4. CASE \E s \in Stocks : CollectAndSynthesize(p, s)
    BY <2>4, CollectAndSynthesizeKeeps
  <2>5. CASE \E l \in Languages : SaveBriefingEdition(p, l)
    BY <2>5, SaveBriefingEditionKeeps
  <2> QED BY <1>3, <2>1, <2>2, <2>3, <2>4, <2>5 DEF BriefingCycle
<1>4. ASSUME NEW p \in Schedulers, NEW forced \in SUBSET Stocks,
             RunForMarketDate(p, forced)
      PROVE  BriefingInv'
  <2>1. setbacks' \in 0..MaxSetbacks /\ ListAudience(p, forced)
    BY <1>4, BriefingBounds
       DEF RunForMarketDate, Setback, BriefingInv, BriefingTypeOK
  <2> QED BY <2>1, ListAudienceKeeps
<1>5. CASE MarketCloses
  BY <1>5 DEF MarketCloses, Watching, BriefingInv, BriefingTypeOK,
     AudiencesAreComplete, ExistingWereRead, SavesAreMissing, RepeatsOverlap,
     SteadyWatchersAreServed
<1> QED BY <1>1, <1>2, <1>3, <1>4, <1>5 DEF BriefingNext

\* runBriefingCycle keeps what a cycle has read in step with watchlists and
\* editions, for any members, stocks, schedulers and setbacks.
THEOREM BriefingInvariance == BriefingSpec => []BriefingInv
<1> QED BY BriefingInitInv, BriefingNextKeeps, PTL DEF BriefingSpec

\* However many schedulers overlap, restart or fail: runBriefingCycle repeats an
\* edition only if it had looked for editions before that one was saved.
THEOREM RepeatsOverlapAlways == BriefingSpec => []RepeatsOverlap
<1>1. BriefingInv => RepeatsOverlap
  BY DEF BriefingInv
<1> QED BY <1>1, BriefingInvariance, PTL

\* Every edition that saveBriefingEdition writes has all its steady watchers as
\* recipients, though its audience was read at the start of the cycle.
THEOREM SteadyWatchersAreServedAlways == BriefingSpec => []SteadyWatchersAreServed
<1>1. BriefingInv => SteadyWatchersAreServed
  BY DEF BriefingInv
<1> QED BY <1>1, BriefingInvariance, PTL

\* Watchlists, editions and cycles keep their types.
THEOREM BriefingTypes == BriefingSpec => []BriefingTypeOK
<1>1. BriefingInv => BriefingTypeOK
  BY DEF BriefingInv
<1> QED BY <1>1, BriefingInvariance, PTL
=============================================================================
