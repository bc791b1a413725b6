------------------------- MODULE BriefingScheduler -------------------------
(***************************************************************************)
(* The briefings of one market day: the watchlists of the members, and the *)
(* cycles that write the day's editions.                                   *)
(*                                                                         *)
(* A scheduler is one process that serves, or one that an operator starts  *)
(* by hand.  A cycle reads the audience, then the editions that exist,     *)
(* works through the symbols it read, and saves an edition for each        *)
(* language in a transaction of its own, with the members it read at the   *)
(* start as recipients.  What fails is left to the next tick.  Nothing     *)
(* locks one cycle against another.                                        *)
(***************************************************************************)
EXTENDS Integers, Sequences, FiniteSets

CONSTANTS
  Stocks,           \* numbers, in the order of their symbols
  Members, Schedulers,
  LanguageOf,       \* the language each member reads
  WatchlistLimit,   \* what watchlistLimit gives the members' plan
  MonthlyChanges,   \* BRIEFING_WATCHLIST_MONTHLY_CHANGE_LIMIT
  MaxEditions,      \* bound: editions of the day
  MaxSetbacks       \* bound: failures of a stock, deaths, cycles by hand

Languages == {"en", "ko"}
ASSUME StocksAreOrdered == Stocks \subseteq Nat \ {0}
ASSUME MembersReadALanguage == LanguageOf \in [Members -> Languages]
ASSUME BriefingBounds == {WatchlistLimit, MonthlyChanges, MaxEditions,
                          MaxSetbacks} \subseteq Nat

VARIABLES
  watchlist,    \* the active items of each member
  watchChanges, \* changes of each member's watchlist this month
  editions,     \* briefing_editions of the day with their deliveries, in order
  cycle,        \* what each scheduler's cycle has read, and where it is
  due,          \* is it market day, between half past eight and the close
  setbacks,
  steady        \* history: what members have watched since the day began

briefingVars == <<watchlist, watchChanges, editions, cycle, due, setbacks,
                  steady>>
Watching == <<watchlist, watchChanges, steady>>

Keys == Stocks \X Languages
Items == Members \X Stocks
NoStock == 0
Editions == [key: Keys, recipients: SUBSET Members, known: Nat, forced: BOOLEAN]
Cycles == [at: {"idle", "planned", "next", "saving"}, audience: SUBSET Items,
           existing: SUBSET Keys, known: Nat, forced: SUBSET Stocks,
           todo: SUBSET Stocks, stock: Stocks \cup {NoStock},
           localized: SUBSET Languages]

BriefingTypeOK ==
  /\ watchlist \subseteq Items /\ steady \subseteq watchlist
  /\ watchChanges \in [Members -> 0..MonthlyChanges]
  /\ editions \in Seq(Editions)
  /\ cycle \in [Schedulers -> Cycles]
  /\ due \in BOOLEAN /\ setbacks \in 0..MaxSetbacks

IdleCycle == [at |-> "idle", audience |-> {}, existing |-> {}, known |-> 0,
              forced |-> {}, todo |-> {}, stock |-> NoStock, localized |-> {}]

BriefingInit ==
  /\ \E items \in SUBSET Items :
       /\ \A m \in Members : Cardinality({i \in items : i[1] = m}) <= WatchlistLimit
       /\ watchlist = items /\ steady = items
  /\ watchChanges = [m \in Members |-> 0]
  /\ editions = <<>>
  /\ cycle = [p \in Schedulers |-> IdleCycle]
  /\ due \in BOOLEAN
  /\ setbacks = 0

Setback == setbacks < MaxSetbacks /\ setbacks' = setbacks + 1

-----------------------------------------------------------------------------
(* The members: addBriefingWatchlistItem, removeBriefingWatchlistItem. *)

\* (mutant) Changes are counted and not limited.
ChangeWatchlistFreely(m, items) ==
  /\ watchChanges' = [watchChanges EXCEPT ![m] = @ + 1]
  /\ watchlist' = items
  /\ steady' = steady \cap items
  /\ UNCHANGED <<editions, cycle, due, setbacks>>
ChangeWatchlist(m, items) ==
  /\ watchChanges[m] < MonthlyChanges
  /\ watchChanges' = [watchChanges EXCEPT ![m] = @ + 1]
  /\ watchlist' = items
  /\ steady' = steady \cap items
  /\ UNCHANGED <<editions, cycle, due, setbacks>>

AddBriefingWatchlistItem(m, s) ==
  /\ <<m, s>> \notin watchlist
  /\ Cardinality({i \in watchlist : i[1] = m}) < WatchlistLimit
  /\ ChangeWatchlist(m, watchlist \cup {<<m, s>>})

RemoveBriefingWatchlistItem(m, s) ==
  /\ <<m, s>> \in watchlist
  /\ ChangeWatchlist(m, watchlist \ {<<m, s>>})

-----------------------------------------------------------------------------
(* A cycle: runBriefingCycle. *)

ListAudience(p, forced) ==
  /\ cycle[p].at = "idle"
  /\ cycle' = [cycle EXCEPT ![p] = [IdleCycle EXCEPT !.at = "planned",
       !.audience = watchlist, !.forced = forced,
       !.todo = {i[2] : i \in watchlist}]]
  /\ UNCHANGED <<Watching, editions, due>>

\* A tick looks at the clock; an operator starts a cycle at any time, and may
\* name stocks to write again.
Tick(p) == due /\ ListAudience(p, {}) /\ UNCHANGED setbacks
RunForMarketDate(p, forced) == Setback /\ ListAudience(p, forced)

ListBriefingEditionKeys(p) ==
  /\ cycle[p].at = "planned"
  /\ cycle' = [cycle EXCEPT ![p].at = "next", ![p].known = Len(editions),
       ![p].existing = {editions[i].key : i \in DOMAIN editions}]
  /\ UNCHANGED <<Watching, editions, due, setbacks>>

\* (mutant) Everyone reads English.
EnglishRecipients(c, key) ==
  {m \in Members : <<m, key[1]>> \in c.audience /\ LanguageOf[m] = "en"}
Recipients(c, key) ==
  {m \in Members : <<m, key[1]>> \in c.audience /\ LanguageOf[m] = key[2]}

\* (mutant) Existing editions are not looked for.
WantedLocales(c, s) == {l \in Languages : Recipients(c, <<s, l>>) # {}}
\* (mutant) A stock with an edition is done.
LocalesOfMissingStocks(c, s) ==
  {l \in Languages : /\ Recipients(c, <<s, l>>) # {}
                     /\ s \in c.forced \/ \A k \in Languages : <<s, k>> \notin c.existing}
\* The languages of a stock that somebody reads and no edition has.
MissingLocales(c, s) ==
  {l \in Languages : /\ Recipients(c, <<s, l>>) # {}
                     /\ s \in c.forced \/ <<s, l>> \notin c.existing}

\* A stock is collected once, and written for all missing languages at once.
CollectAndSynthesize(p, s) ==
  LET c == cycle[p] IN
  /\ c.at = "next" /\ s \in c.todo /\ \A k \in c.todo : s <= k
  /\ cycle' = [cycle EXCEPT ![p].todo = @ \ {s},
       ![p].stock = s, ![p].localized = MissingLocales(c, s),
       ![p].at = IF MissingLocales(c, s) = {} THEN "next" ELSE "saving"]
  /\ UNCHANGED <<Watching, editions, due, setbacks>>

\* saveBriefingEdition: an insert that no uniqueness constrains.
SaveBriefingEdition(p, l) ==
  LET c == cycle[p]
      key == <<c.stock, l>>
  IN /\ c.at = "saving" /\ l \in c.localized
     /\ Len(editions) < MaxEditions
     /\ editions' = Append(editions,
          [key |-> key, recipients |-> Recipients(c, key),
           known |-> c.known, forced |-> c.stock \in c.forced])
     /\ cycle' = [cycle EXCEPT ![p].localized = @ \ {l},
          ![p].at = IF c.localized = {l} THEN "next" ELSE "saving"]
     /\ UNCHANGED <<Watching, due, setbacks>>

\* A source, the model or the database fails: the rest of the stock is left.
StockFails(p) ==
  /\ cycle[p].at = "saving" /\ Setback
  /\ cycle' = [cycle EXCEPT ![p].at = "next", ![p].localized = {}]
  /\ UNCHANGED <<Watching, editions, due>>

CycleEnds(p) ==
  /\ cycle[p].at = "next" /\ cycle[p].todo = {}
  /\ cycle' = [cycle EXCEPT ![p] = IdleCycle]
  /\ UNCHANGED <<Watching, editions, due, setbacks>>

SchedulerDies(p) ==
  /\ cycle[p].at # "idle" /\ Setback
  /\ cycle' = [cycle EXCEPT ![p] = IdleCycle]
  /\ UNCHANGED <<Watching, editions, due>>

\* No tick starts a cycle after the close; one that runs goes on.
MarketCloses ==
  /\ due /\ due' = FALSE
  /\ UNCHANGED <<Watching, editions, cycle, setbacks>>

BriefingCycle(p) ==
  \/ Tick(p) \/ ListBriefingEditionKeys(p) \/ CycleEnds(p)
  \/ \E s \in Stocks : CollectAndSynthesize(p, s)
  \/ \E l \in Languages : SaveBriefingEdition(p, l)

BriefingNext ==
  \/ \E m \in Members, s \in Stocks :
       AddBriefingWatchlistItem(m, s) \/ RemoveBriefingWatchlistItem(m, s)
  \/ \E p \in Schedulers :
       \/ BriefingCycle(p) \/ StockFails(p) \/ SchedulerDies(p)
       \/ \E forced \in SUBSET Stocks : RunForMarketDate(p, forced)
  \/ MarketCloses

BriefingSpec == BriefingInit /\ [][BriefingNext]_briefingVars

\* A scheduler ticks every minute and works through its cycle.
BriefingFairness == \A p \in Schedulers : WF_briefingVars(BriefingCycle(p))

-----------------------------------------------------------------------------
(* What must hold. *)

\* A restart, a failure or a second scheduler writes an edition again only if
\* it had looked for the editions before the first one was saved, or was asked
\* to by hand: what a cycle could see is never repeated.
RepeatsOverlap ==
  \A i, j \in DOMAIN editions :
    i < j /\ editions[i].key = editions[j].key /\ ~editions[j].forced
      => editions[j].known < i

\* Once an edition exists no tick writes it again, so whoever watched the stock
\* since the day began must be among the recipients of each, in their language.
SteadyWatchersAreServed ==
  \A i \in steady, e \in DOMAIN editions :
    editions[e].key = <<i[2], LanguageOf[i[1]]>>
      => i[1] \in editions[e].recipients

\* Everyone who keeps watching a stock gets its briefing the same day, after
\* failures and restarts, unless the market closes first.
SteadyWatchersAreBriefed ==
  \A i \in Items :
    i \in steady ~>
      \/ i \notin steady \/ ~due \/ Len(editions) = MaxEditions
      \/ \E e \in DOMAIN editions :
           editions[e].key[1] = i[2] /\ i[1] \in editions[e].recipients
=============================================================================
